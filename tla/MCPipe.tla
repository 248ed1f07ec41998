------------------------------ MODULE MCPipe ------------------------------
(***************************************************************************)
(* Pipe for TLC, together with Shell, which uses pipes by what Pipe        *)
(* promises.  A behaviour is one of the part that part names; the other    *)
(* part is at rest.  The constants are in MCPipe.cfg.                      *)
(***************************************************************************)
EXTENDS Pipe, Shell

VARIABLE part

ShellAtRest ==
  /\ job = <<"program">> /\ isBackground = FALSE
  /\ pc = "prompt" /\ at = 1 /\ fds = {} /\ foreground = 0
  /\ proc = [k \in Commands |-> "none"]
  /\ inherited = [k \in Commands |-> {}]
  /\ bytes = [k \in Commands |-> 0]

PartsInit ==
  \/ part = "pipe" /\ Init /\ ShellAtRest
  \/ part = "shell" /\ Init /\ ShellInit

PartsNext ==
  \/ part = "pipe" /\ Next /\ UNCHANGED <<part, shellVars>>
  \/ part = "shell" /\ ShellNext /\ UNCHANGED <<part, vars>>

PartsSpec ==
  /\ PartsInit
  /\ [][PartsNext]_<<part, vars, shellVars>>
  /\ Fairness

\* While programs do not read past what a pipe holds (OverreadAtWrap is FALSE), a
\* cell outside the cursors is written before it is read: states that differ in
\* such cells only are one state for TLC.
View ==
  <<part, shellVars, Queue, buffer_p_c, buffer_c_c, first_waiters, fileVars, procVars,
    signals, last>>
=============================================================================
