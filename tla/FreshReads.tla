------------------------------ MODULE FreshReads ------------------------------
(***************************************************************************)
(* What getRuntimeConfigSnapshot (src/config/runtimeConfig.ts) promises of *)
(* the settings, whatever it caches and shares: somebody writes them,      *)
(* processes are told of writes some time later, and a call returns what   *)
(* was written no earlier than the last write its process had been told of *)
(* when the call was made - or the defaults, when the database fails.      *)
(***************************************************************************)
EXTENDS Integers

CONSTANTS
  Processes, Callers,
  At,         (* the process a caller calls in                              *)
  Defaults    (* no value of the database                                   *)

VARIABLES
  written,    (* how often the settings were written                        *)
  known,      (* of each process: the writes it has been told of            *)
  asked,      (* of each caller: is its call under way                      *)
  since,      (* of each caller: what its process knew when it last called  *)
  answer      (* of each caller: what its last call returned                *)

vars == <<written, known, asked, since, answer>>

Init ==
  /\ written = 0
  /\ known = [p \in Processes |-> 0]
  /\ asked = [c \in Callers |-> FALSE]
  /\ since = [c \in Callers |-> 0]
  /\ answer = [c \in Callers |-> Defaults]

Write ==
  /\ written' = written + 1
  /\ UNCHANGED <<known, asked, since, answer>>

Tell(p) ==
  /\ known' = [known EXCEPT ![p] = written]
  /\ UNCHANGED <<written, asked, since, answer>>

Ask(c) ==
  /\ ~asked[c]
  /\ asked' = [asked EXCEPT ![c] = TRUE]
  /\ since' = [since EXCEPT ![c] = known[At[c]]]
  /\ answer' = [answer EXCEPT ![c] = Defaults]
  /\ UNCHANGED <<written, known>>

\* What a call that was made when its process knew of n writes may return.
Fresh(n) == {Defaults} \union n..written

\* Calls that share one load return together.
Return(cs) ==
  /\ \A c \in cs : asked[c]
  /\ asked' = [c \in Callers |-> asked[c] /\ c \notin cs]
  /\ \A c \in Callers : IF c \in cs THEN answer'[c] \in Fresh(since[c])
                                    ELSE answer'[c] = answer[c]
  /\ UNCHANGED <<written, known, since>>

\* A call that is served at once.
AskAndReturn(c) ==
  /\ ~asked[c]
  /\ since' = [since EXCEPT ![c] = known[At[c]]]
  /\ \E v \in Fresh(known[At[c]]) : answer' = [answer EXCEPT ![c] = v]
  /\ UNCHANGED <<written, known, asked>>

Next ==
  \/ Write
  \/ \E p \in Processes : Tell(p)
  \/ \E c \in Callers : Ask(c) \/ AskAndReturn(c)
  \/ \E cs \in SUBSET Callers : Return(cs)

Spec == Init /\ [][Next]_vars
=============================================================================
