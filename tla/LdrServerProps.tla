---------------------------- MODULE LdrServerProps ----------------------------
(***************************************************************************)
(* What a farm server has to keep right (module LdrServer).                 *)
(***************************************************************************)
EXTENDS LdrServer

Listed(q, t) == Cardinality({i \in DOMAIN q : q[i] = t})
Times(p) == IF p THEN 1 ELSE 0

\* Type invariant; free_client is a client that is still registered, it never
\* dangles.
ServerTyped ==
  /\ {ldr.todo, ldr.proc, ldr.done} \subseteq Seq(Frames)
  /\ ldr.list \in Seq(Clients) /\ ldr.free \in ToSet(ldr.list) \cup {Nobody}
  /\ ldr.sfs \in Frames \cup {NoTask} /\ ldr.srcDone \in Frames \cup {NoTask}
  /\ ldr.sq \in 0..2 /\ ldr.sqa \in 0..1 /\ ldr.quitStep \in 0..5
  /\ ldr.stage \in [Frames -> {"ToBeRendered", "ToBeFiltered", "TaskDone"}]
  /\ \A c \in Clients : ldr.cl[c].jobs \in 0..ClientHigh /\ ldr.cl[c].pend \in Nat
  /\ ldr.ess \in {"Running", "Stopping", "Stopped", "Continuing"}
  /\ reported \in [Frames -> {"no", "complete", "partly", "untouched",
                              "unrendered", "unfiltered"}]

\* A frame the source has handed out is in exactly one place: in one queue, on
\* its way back, or reported.  It is in proc as long as one connected client has
\* it, and no client has more or fewer jobs than the interface counts.
LentToOneClient ==
  ldr.quitStep = 0 =>
  /\ \A t \in Frames :
       Listed(ldr.todo \o ldr.proc \o ldr.done, t) + Times(ldr.srcDone = t)
         + Times(reported[t] # "no") = Times(t < ldr.next)
  /\ \A t \in Frames : ldr.ldrc[t] # Nobody <=> Listed(ldr.proc, t) = 1
  /\ \A c \in Clients : /\ ldr.cl[c].jobs = Cardinality(Held(ldr, c))
                        /\ ldr.cl[c].jobs > 0 => ldr.cl[c].st = "up"

\* The assertions of manager and interface hold, whatever clients and user do
\* at the same time.
ServerAssertionsHold == ldr.crash # "assert"

\* The server has gone only after every frame it got was reported, and no
\* frame was reported as complete unless all its parts are.
EverythingIsReported ==
  /\ ldr.quitStep >= 3 /\ ldr.crash = "none" =>
       \A t \in 1..(ldr.next - 1) : reported[t] # "no"
  /\ \A t \in Frames : reported[t] = "complete" => AllParts(ldr, t)

\* Once no more tasks shall be started no client gets one, although it was
\* chosen earlier; with quit scheduled only what is rendered is lent again; and
\* no part is done twice, whatever is given back and by whom.
OnlyWantedWorkIsLent ==
  [][\A t \in Frames :
       ldr.ldrc[t] = Nobody /\ ldr'.ldrc[t] # Nobody =>
         /\ ~ldr.dsmt /\ (ldr.sq = 0 \/ Processed(ldr, t))
         /\ "render" \in ldr'.parts[t] => ldr.rtes[t] # "ok"
         /\ "filter" \in ldr'.parts[t] => ldr.ftes[t] # "ok"]_farm

\* The clients that must stop go or answer: the server comes to a stop.
StopSettles == ldr.ess = "Stopping" ~> ldr.ess # "Stopping"

\* A server that was told to kill its jobs comes to its end, whatever clients
\* do and get lost.
KillEnds == ldr.caught = 2 ~> ~Alive

----------------------------------------------------------------------------
(* What does not hold *)

\* The server comes to its end when all its tasks are done.
ServerEnds == <>~Alive
=============================================================================
