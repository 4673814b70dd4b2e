------------------------------ MODULE StateFile ------------------------------
(***************************************************************************)
(* apps/cli/src/state.ts: the file in which the command line remembers a    *)
(* session, shared by every process of a user.  A write truncates the file  *)
(* when it opens it and fills it later; nothing locks it.  What is kept     *)
(* here is what a reader would make of the file: missing, empty and corrupt *)
(* are all Nothing.                                                         *)
(***************************************************************************)
EXTENDS Integers, FiniteSets

CONSTANTS Procs,               \* the processes that are started
          Servers,             \* addresses of control servers
          Ids                  \* numbers of sessions, the same for every server

None == 0
ASSUME StateFileAssumption == IsFiniteSet(Ids) /\ None \notin Ids /\ None \notin Servers

VARIABLES file,                \* what readState() returns now
          writes               \* per process: the write it has under way

fileVars == <<file, writes>>

\* A CliState; a session is always remembered with its server.
State == [session : Ids \cup {None}, server : Servers \cup {None}]
Nothing == [session |-> None, server |-> None]
NoWrite == [state |-> Nothing, clash |-> FALSE]

\* writeState() up to the open of its file.
Truncate(p, state) ==
  /\ file' = Nothing
  /\ writes' = [writes EXCEPT ![p] = [state |-> state, clash |-> FALSE]]

\* Every write begins at the start of the file: what is left of a longer one that
\* came since the open makes it corrupt.  The others that have it open may clash now.
Fill(p) ==
  /\ file' \in {writes[p].state} \cup (IF writes[p].clash THEN {Nothing} ELSE {})
  /\ writes' = [q \in Procs |->
                  IF q = p THEN NoWrite
                  ELSE [writes[q] EXCEPT !.clash = writes[q] # NoWrite]]

\* The process is gone before it has written.
Abandon(p) ==
  /\ writes' = [writes EXCEPT ![p] = NoWrite]
  /\ UNCHANGED file

FileInit ==
  /\ file \in {Nothing} \cup [session : Ids, server : Servers]
  /\ writes = [p \in Procs |-> NoWrite]

FileTypeOK ==
  /\ file \in State
  /\ writes \in [Procs -> [state : State, clash : BOOLEAN]]
=============================================================================
