---------------------------- MODULE ContainmentProbe ---------------------------
(***************************************************************************)
(* `python-admissions prove-network`: the parent listens on a loopback     *)
(* port, starts the interpreter suspended in an AppContainer and in a job  *)
(* for one process, tries to start a second one, resumes the first, and    *)
(* waits for it to end, at most fifteen seconds.  The child tries to       *)
(* connect for two seconds; denied, it writes a marker and exits with 0.   *)
(* `prove-containment` is the part that needs no network.                  *)
(*                                                                         *)
(* Windows and the interpreter are modelled by what they may do.           *)
(***************************************************************************)
EXTENDS Naturals

CONSTANTS
  MaxStrangers, \* connections of other local programs
  MaxPolls      \* polls of fifty milliseconds until the deadline

VARIABLES
  parent,    \* where the parent is
  contained, \* the child runs in an AppContainer
  assigned,  \* and in the job
  child,     \* what the child is doing
  exit,      \* its exit code, or 259 while it runs
  marker,    \* it wrote "denied"
  reached,   \* its connection got through to the listener
  backlog,   \* connections nobody accepted yet
  accepted,
  missed,    \* history: an accept failed with a connection waiting
  polls, strangers,
  proof      \* what was observed of the three residual checks

taken == <<accepted, missed>>
probe == <<parent, contained, assigned, child, exit, marker, reached, backlog, taken,
           polls, strangers, proof>>
world == <<child, exit, marker, reached, backlog, strangers>>

StillActive == 259
Denied == 0
Connected == 3
AllFailed == [job |-> "failed", limit |-> "failed", egress |-> "failed"]
Observed(b) == IF b THEN "satisfied" ELSE "failed"

ProbeInit ==
  /\ parent = "begin"
  /\ contained = FALSE /\ assigned = FALSE
  /\ child = "none" /\ exit = StillActive /\ marker = FALSE /\ reached = FALSE
  /\ backlog = 0 /\ accepted = FALSE /\ missed = FALSE
  /\ polls = 0 /\ strangers = 0
  /\ proof = AllFailed

(* Profile, access rights, job and attribute list; any failure ends the    *)
(* proof with every check failed.                                          *)
Prepare ==
  /\ parent = "begin"
  /\ \E ready \in BOOLEAN : parent' = IF ready THEN "spawn" ELSE "end"
  /\ UNCHANGED <<contained, assigned, world, taken, polls, proof>>

SpawnFirst ==
  /\ parent = "spawn"
  /\ \/ parent' = "end" /\ UNCHANGED <<contained, assigned, child>>
     \/ /\ parent' = "second"
        /\ child' = "suspended"
        /\ contained' \in BOOLEAN /\ assigned' \in BOOLEAN
  /\ UNCHANGED <<exit, marker, reached, backlog, strangers, taken, polls, proof>>

(* The limit counts as proved if the second process does not start, for    *)
(* whatever reason; one that starts is killed before it ran.               *)
SpawnSecond ==
  /\ parent = "second"
  /\ \E started \in BOOLEAN :
       proof' = [proof EXCEPT !.job = Observed(assigned), !.limit = Observed(~started)]
  /\ child' = "running"
  /\ parent' = "poll"
  /\ UNCHANGED <<contained, assigned, exit, marker, reached, backlog, strangers, taken, polls>>

(* The listener does not block, and its answer is only asked for success:  *)
(* an accept that fails looks like one with nothing to accept, whether it  *)
(* loses the connection (reset by the child meanwhile) or leaves it.       *)
Accept ==
  \/ backlog = 0 /\ UNCHANGED <<backlog, taken>>
  \/ backlog > 0 /\ accepted' = TRUE /\ backlog' = backlog - 1 /\ UNCHANGED missed
  \/ backlog > 0 /\ missed' = TRUE /\ backlog' \in {backlog - 1, backlog} /\ UNCHANGED accepted

Poll ==
  /\ parent = "poll"
  /\ Accept
  /\ parent' = "wait"
  /\ UNCHANGED <<contained, assigned, child, exit, marker, reached, strangers, polls, proof>>

(* Mutant: there is no last look at the listener.                          *)
Wait_NoLastAccept ==
  /\ parent = "wait"
  /\ \/ exit # StillActive /\ parent' = "observe" /\ UNCHANGED polls
     \/ exit = StillActive /\ polls < MaxPolls /\ polls' = polls + 1 /\ parent' = "poll"
     \/ exit = StillActive /\ polls = MaxPolls /\ parent' = "kill" /\ UNCHANGED polls
  /\ UNCHANGED <<contained, assigned, world, taken, proof>>

(* A child that has ended leaves the loop after one last accept; otherwise *)
(* the loop goes on until the deadline.                                    *)
Wait ==
  /\ parent = "wait"
  /\ \/ exit # StillActive /\ parent' = "last" /\ UNCHANGED polls
     \/ exit = StillActive /\ polls < MaxPolls /\ polls' = polls + 1 /\ parent' = "poll"
     \/ exit = StillActive /\ polls = MaxPolls /\ parent' = "kill" /\ UNCHANGED polls
  /\ UNCHANGED <<contained, assigned, world, taken, proof>>

LastAccept ==
  /\ parent = "last"
  /\ Accept
  /\ parent' = "observe"
  /\ UNCHANGED <<contained, assigned, child, exit, marker, reached, strangers, polls, proof>>

(* The child may have ended by itself since the parent looked.             *)
Kill ==
  /\ parent = "kill"
  /\ parent' = "observe"
  /\ child' = "ended"
  /\ exit' = IF exit = StillActive THEN 1 ELSE exit
  /\ UNCHANGED <<contained, assigned, marker, reached, backlog, strangers, taken, polls, proof>>

Observe ==
  /\ parent = "observe"
  /\ proof' = [proof EXCEPT !.egress =
                 Observed(contained /\ exit = Denied /\ marker /\ ~accepted)]
  /\ parent' = "end"
  /\ UNCHANGED <<contained, assigned, world, taken, polls>>

-----------------------------------------------------------------------------
(* The child connects, or is denied, or gives up after two seconds while   *)
(* its connection gets through; the interpreter may also fail on its own,  *)
(* with any exit code, or never end.                                       *)

Reach == reached' = TRUE /\ backlog' = backlog + 1
Connect == child' = "connected" /\ Reach
Deny == child' = "denied" /\ UNCHANGED <<reached, backlog>>
GiveUp == child' = "denied" /\ Reach
Break == child' = "broken" /\ UNCHANGED <<reached, backlog>>

Try ==
  /\ child = "running"
  /\ Connect \/ Deny \/ GiveUp \/ Break
  /\ UNCHANGED <<parent, contained, assigned, exit, marker, taken, polls, strangers, proof>>

WriteMarker ==
  /\ child = "denied" /\ ~marker
  /\ marker' = TRUE
  /\ UNCHANGED <<parent, contained, assigned, child, exit, reached, backlog, taken, polls,
                 strangers, proof>>

Exit ==
  /\ \/ child = "denied" /\ marker /\ exit' = Denied
     \/ child = "connected" /\ exit' = Connected
     \/ child = "broken" /\ exit' \in {Denied, 1}
  /\ child' = "ended"
  /\ UNCHANGED <<parent, contained, assigned, marker, reached, backlog, taken, polls,
                 strangers, proof>>

(* Any local program may connect to the port.                              *)
Stranger ==
  /\ parent # "end" /\ strangers < MaxStrangers
  /\ strangers' = strangers + 1
  /\ backlog' = backlog + 1
  /\ UNCHANGED <<parent, contained, assigned, child, exit, marker, reached, taken, polls,
                 proof>>

-----------------------------------------------------------------------------
Parent ==
  Prepare \/ SpawnFirst \/ SpawnSecond \/ Poll \/ Wait \/ LastAccept \/ Kill \/ Observe
ProbeNext == Parent \/ Try \/ WriteMarker \/ Exit \/ Stranger

ProbeSpec == ProbeInit /\ [][ProbeNext]_probe

(* Egress is reported denied only if the child ran contained, said itself  *)
(* that it was denied, and did not reach the listener, whoever else was    *)
(* connecting; with two exceptions: an answer in the very last poll before *)
(* the deadline is believed without another look at the listener, and an   *)
(* accept that fails counts as if no connection had been waiting.          *)
DeniedEgressNeverGotThrough ==
  parent = "end" /\ proof.egress = "satisfied" =>
    contained /\ marker /\ (reached => polls = MaxPolls \/ missed)
=============================================================================
