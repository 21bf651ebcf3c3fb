------------------------------- MODULE RunLog -------------------------------
(***************************************************************************)
(* What every StateStore promises (state/statestore.py, the StateStore     *)
(* protocol and the module's "append-only log is the single source of      *)
(* truth"): the log only ever grows, one record at a time, and the record  *)
(* added for a node carries an attempt number above every attempt already  *)
(* recorded for that node.  The in-process store, the AgentCore Memory     *)
(* store and the file-vault store are each compared with this              *)
(* specification.                                                          *)
(***************************************************************************)
EXTENDS RecordLog

VARIABLE log

Init == log = <<>>

Extends(old, new) ==
  /\ Len(new) = Len(old) + 1
  /\ \A i \in DOMAIN old : new[i] = old[i]

Put ==
  /\ Extends(log, log')
  /\ LET r == log'[Len(log')]
     IN  \A i \in DOMAIN log : log[i].node = r.node => log[i].attempt < r.attempt

Spec == Init /\ [][Put]_log
=============================================================================
