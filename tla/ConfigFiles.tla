------------------------------ MODULE ConfigFiles ------------------------------
(***************************************************************************)
(* The two TOML files of a gateway (gateway/config.py): processes that run *)
(* `spd3000 gateway init` create them, the operator edits and deletes      *)
(* them, and `gateway serve` loads them.  Path.write_text is two steps, as *)
(* opening a file for writing empties it.                                  *)
(***************************************************************************)
EXTENDS Integers, Sequences

CONSTANTS
  Inits   \* processes that run `gateway init`, each once

VARIABLES
  files,     \* what each file holds
  initAt,    \* where a process is in create_gateway_config_files
  targets,   \* the files it has still to write, the one it has open first
  found      \* history: the files that existed when it looked

fileVars == <<files, initAt, targets, found>>

Names == {"settings", "auth"}
Contents == {"absent", "empty", "template", "edited"}
Templates == <<"settings", "auth">>
Existing == {n \in Names : files[n] # "absent"}

FilesInit ==
  /\ files = [n \in Names |-> "absent"]
  /\ initAt = [i \in Inits |-> "start"]
  /\ targets = [i \in Inits |-> Templates]
  /\ found = [i \in Inits |-> {}]

----------------------------------------------------------------------------
(* create_gateway_config_files().                                          *)

\* Mutant of Refuses: init goes on when one of the two is missing.
RefusesBoth == Existing = Names

\* existing = [target for target in targets if target.exists()]
Refuses == Existing # {}

\* The check, which may also refuse the directory or fail to read a template.
Look(i) ==
  /\ initAt[i] = "start"
  /\ found' = [found EXCEPT ![i] = Existing]
  /\ \/ ~ Refuses /\ initAt' = [initAt EXCEPT ![i] = "open"]
     \/ initAt' = [initAt EXCEPT ![i] = "failed"]
  /\ UNCHANGED <<files, targets>>

OpenTarget(i) ==
  /\ initAt[i] = "open"
  /\ files' = [files EXCEPT ![Head(targets[i])] = "empty"]
  /\ initAt' = [initAt EXCEPT ![i] = "write"]
  /\ UNCHANGED <<targets, found>>

WriteTarget(i) ==
  /\ initAt[i] = "write"
  /\ files' = [files EXCEPT ![Head(targets[i])] = "template"]
  /\ targets' = [targets EXCEPT ![i] = Tail(@)]
  /\ initAt' = [initAt EXCEPT ![i] = IF Len(targets[i]) = 1 THEN "done" ELSE "open"]
  /\ UNCHANGED found

\* An OSError, or a KeyboardInterrupt: what is written stays.
InitFails(i) ==
  /\ initAt[i] \in {"open", "write"}
  /\ initAt' = [initAt EXCEPT ![i] = "failed"]
  /\ UNCHANGED <<files, targets, found>>

InitStep(i) == Look(i) \/ OpenTarget(i) \/ WriteTarget(i) \/ InitFails(i)

----------------------------------------------------------------------------
(* The operator.                                                           *)

Edit(n) ==
  /\ files[n] \in {"empty", "template"}
  /\ files' = [files EXCEPT ![n] = "edited"]
  /\ UNCHANGED <<initAt, targets, found>>

Remove(n) ==
  /\ files[n] # "absent"
  /\ files' = [files EXCEPT ![n] = "absent"]
  /\ UNCHANGED <<initAt, targets, found>>

FilesNext ==
  \/ \E i \in Inits : InitStep(i)
  \/ \E n \in Names : Edit(n) \/ Remove(n)

----------------------------------------------------------------------------
(* load_gateway_settings() and load_gateway_auth().                        *)

\* The values an edited [instrument] table and its neighbours may hold: "bad"
\* is a value that the check of its key refuses.
Documents ==
  [connection : {"missing", "socket", "vxi11", "visa", "gateway", "bad"},
   identifier : {"missing", "good", "bad"},
   backend    : {"missing", "good", "bad"},
   optional   : {"good", "bad"},      \* bind, port, timeout_s, the interval
   unknownKey : BOOLEAN]

\* What load_gateway_settings() accepts, as a connection for this kind.
Accepts(document, kind) ==
  /\ ~ document.unknownKey
  /\ document.optional = "good"
  /\ document.connection = kind /\ kind \in {"socket", "vxi11", "visa"}
  /\ document.identifier = "good"
  /\ document.backend \in IF kind = "visa" THEN {"missing", "good"} ELSE {"missing"}

\* A template names no connection yet and an empty file has no [instrument].
SettingsFor(kind) ==
  files["settings"] = "edited" /\ \E d \in Documents : Accepts(d, kind)
SettingsRefused ==
  \/ files["settings"] # "edited"
  \/ \E d \in Documents : \A kind \in {"socket", "vxi11", "visa"} : ~ Accepts(d, kind)

\* A file that was not asked for may be absent; an edited one may be malformed.
AuthLoads(required) == files["auth"] # "absent" \/ ~ required
AuthRefused(required) == (files["auth"] = "absent" /\ required) \/ files["auth"] = "edited"

----------------------------------------------------------------------------
(* Properties.                                                             *)

FilesTypeOK ==
  /\ files \in [Names -> Contents]
  /\ initAt \in [Inits -> {"start", "open", "write", "done", "failed"}]
  /\ targets \in [Inits -> {Templates, Tail(Templates), <<>>}]
  /\ found \in [Inits -> SUBSET Names]

\* Whatever an earlier init that failed half-way has left, and whatever the
\* operator has made of it, a later init does not touch a file that it found
\* (config.py:250: "Refusing to overwrite existing file").
KeepsWhatItFound ==
  [][\A i \in Inits, n \in Names :
       n \in found[i] /\ InitStep(i) => files'[n] = files[n]]_fileVars
===============================================================================
