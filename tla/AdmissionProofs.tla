---------------------------- MODULE AdmissionProofs ----------------------------
(***************************************************************************)
(* What an admission may rely on, proved with TLAPS: the chain of earlier  *)
(* records for any number of commands and rewrites, the network probe for  *)
(* any number of strangers and polls.                                      *)
(***************************************************************************)
EXTENDS PythonAdmission, ContainmentProbe, SequenceTheorems, TLAPS

-----------------------------------------------------------------------------
(* The network probe.                                                      *)

(* A connection that got through waits in the backlog until the parent     *)
(* accepts one or misses one; a child that has ended makes no other, so    *)
(* the last look sees it or misses it.  A child that is killed at the      *)
(* deadline gets no such look.                                             *)
Answers == {"satisfied", "failed"}
ProbeTypes ==
  /\ backlog \in Nat
  /\ contained \in BOOLEAN /\ marker \in BOOLEAN
  /\ reached \in BOOLEAN /\ accepted \in BOOLEAN /\ missed \in BOOLEAN
  /\ proof \in [job : Answers, limit : Answers, egress : Answers]
ProbeInv ==
  /\ ProbeTypes
  /\ exit \in {StillActive, Denied, 1, Connected}
  /\ child = "ended" <=> exit # StillActive
  /\ parent \in {"begin", "spawn", "second"} => child \in {"none", "suspended"}
  /\ reached /\ ~accepted => backlog > 0 \/ missed
  /\ parent = "last" => child = "ended"
  /\ parent = "kill" => polls = MaxPolls
  /\ parent = "observe" =>
       polls = MaxPolls \/ missed \/ (child = "ended" /\ (reached => accepted))
  /\ parent # "end" => proof.egress = "failed"
  /\ parent = "end" /\ proof.egress = "satisfied" =>
       contained /\ marker /\ (polls = MaxPolls \/ missed \/ (child = "ended" /\ ~reached))

LEMMA ProbeStep == ProbeInv /\ [ProbeNext]_probe => ProbeInv'
<1> SUFFICES ASSUME ProbeInv, [ProbeNext]_probe PROVE ProbeInv'
  OBVIOUS
<1> USE DEF ProbeInv, ProbeTypes, world, taken, StillActive, Denied, Connected
<1>0. Accept => /\ backlog' \in Nat /\ {accepted', missed'} \subseteq BOOLEAN
                /\ accepted => accepted'
                /\ missed => missed'
                /\ reached => accepted' \/ missed'
  <2>1. CASE backlog = 0 /\ UNCHANGED <<backlog, taken>>
    <3>1. reached => accepted \/ missed
      BY <2>1
    <3> QED BY <2>1, <3>1
  <2>2. CASE backlog > 0 /\ accepted' = TRUE /\ backlog' = backlog - 1 /\ UNCHANGED missed
    BY <2>2
  <2>3. CASE /\ backlog > 0 /\ missed' = TRUE /\ backlog' \in {backlog - 1, backlog}
             /\ UNCHANGED accepted
    BY <2>3
  <2> QED BY <2>1, <2>2, <2>3 DEF Accept
<1>1. CASE Prepare
  BY <1>1 DEF Prepare
<1>2. CASE SpawnFirst
  BY <1>2 DEF SpawnFirst
<1>3. CASE SpawnSecond
  <2>1. PICK started \in BOOLEAN :
          proof' = [proof EXCEPT !.job = Observed(assigned), !.limit = Observed(~started)]
    BY <1>3, Zenon DEF SpawnSecond
  <2>2. \A b : Observed(b) \in Answers
    BY DEF Observed, Answers
  <2>3. proof' \in [job : Answers, limit : Answers, egress : Answers] /\ proof'.egress = proof.egress
    <3> HIDE DEF ProbeInv
    <3> QED BY <2>1, <2>2 DEF ProbeInv
  <2> QED BY <1>3, <2>3 DEF SpawnSecond
<1>4. CASE Poll
  <2>1. /\ parent = "poll" /\ parent' = "wait" /\ Accept
        /\ UNCHANGED <<contained, child, exit, marker, reached, polls, proof>>
    BY <1>4 DEF Poll
  <2> QED BY <1>0, <2>1
<1>5. CASE Wait
  BY <1>5 DEF Wait
<1>6. CASE LastAccept
  <2>1. /\ parent = "last" /\ parent' = "observe" /\ Accept
        /\ UNCHANGED <<contained, child, exit, marker, reached, polls, proof>>
    BY <1>6 DEF LastAccept
  <2> QED BY <1>0, <2>1
<1>7. CASE Kill
  BY <1>7 DEF Kill
<1>8. CASE Observe
  <2> DEFINE denied == contained /\ exit = Denied /\ marker /\ ~accepted
  <2>1. proof' = [proof EXCEPT !.egress = Observed(denied)]
    BY <1>8 DEF Observe
  <2>2. Observed(denied) \in Answers /\ (Observed(denied) = "satisfied" => denied)
    BY DEF Observed, Answers
  <2> HIDE DEF denied
  <2>3. /\ proof' \in [job : Answers, limit : Answers, egress : Answers]
        /\ proof'.egress = "satisfied" => denied
    BY <2>1, <2>2
  <2>4. denied => contained /\ marker /\ ~accepted
    BY DEF denied
  <2>5. parent = "observe" /\ parent' = "end" /\ UNCHANGED <<contained, world, taken, polls>>
    BY <1>8 DEF Observe
  <2> QED BY <2>3, <2>4, <2>5
<1>9. CASE Try
  <2>1. /\ child = "running" /\ child' \in {"connected", "denied", "broken"}
        /\ \/ reached' = TRUE /\ backlog' = backlog + 1
           \/ reached' = reached /\ backlog' = backlog
        /\ UNCHANGED <<parent, contained, exit, marker, taken, polls, proof>>
    BY <1>9 DEF Try, Connect, Deny, GiveUp, Break, Reach
  <2>2. parent' \notin {"begin", "spawn", "second", "last"} /\ exit' = StillActive
    BY <2>1
  <2>3. backlog' \in Nat /\ reached' \in BOOLEAN /\ (reached' /\ ~accepted' => backlog' > 0 \/ missed')
    <3>1. CASE reached' = TRUE /\ backlog' = backlog + 1
      BY <3>1
    <3>2. CASE reached' = reached /\ backlog' = backlog
      <4>1. reached /\ ~accepted => backlog > 0 \/ missed
        OBVIOUS
      <4>2. accepted' = accepted /\ missed' = missed /\ backlog \in Nat /\ reached \in BOOLEAN
        BY <2>1
      <4> HIDE DEF ProbeInv, ProbeTypes
      <4> QED BY <3>2, <4>1, <4>2, Zenon
    <3> QED BY <2>1, <3>1, <3>2
  <2>4. parent' = "observe" => polls' = MaxPolls \/ missed'
    BY <2>1
  <2>5. parent' = "end" /\ proof'.egress = "satisfied" => contained' /\ marker' /\ (polls' = MaxPolls \/ missed')
    BY <2>1
  <2> QED BY <2>1, <2>2, <2>3, <2>4, <2>5
<1>10. CASE WriteMarker
  BY <1>10 DEF WriteMarker
<1>11. CASE Exit
  BY <1>11 DEF Exit
<1>12. CASE Stranger
  BY <1>12 DEF Stranger
<1>13. CASE UNCHANGED probe
  BY <1>13 DEF probe
<1> QED
  BY <1>1, <1>2, <1>3, <1>4, <1>5, <1>6, <1>7, <1>8, <1>9, <1>10, <1>11, <1>12, <1>13
  DEF ProbeNext, Parent

(* prove-network reports denied egress only of a child that ran contained, *)
(* said so and did not get through, however many others connected, unless  *)
(* it spent every poll or an accept failed with a connection waiting.      *)
THEOREM DenialsAreTrue == ProbeSpec => []DeniedEgressNeverGotThrough
<1>1. ProbeInit => ProbeInv
  <2> SUFFICES ASSUME ProbeInit PROVE ProbeInv
    OBVIOUS
  <2>1. proof \in [job : Answers, limit : Answers, egress : Answers] /\ proof.egress = "failed"
    BY DEF ProbeInit, AllFailed, Answers
  <2>2. backlog \in Nat
    BY DEF ProbeInit
  <2> QED BY <2>1, <2>2 DEF ProbeInit, ProbeInv, ProbeTypes
<1>2. ProbeInv => DeniedEgressNeverGotThrough
  BY DEF ProbeInv, DeniedEgressNeverGotThrough
<1> QED BY <1>1, <1>2, ProbeStep, PTL DEF ProbeSpec
-----------------------------------------------------------------------------
(* The chain of admissions.                                                *)

(* A record has one of the three schemas and all four checks; what it      *)
(* cites has a name.                                                       *)
IsRecord(r) ==
  /\ {"schema", "source", "checks"} \subseteq DOMAIN r
  /\ r.schema \in 1..3 /\ DOMAIN r.checks = Codes
  /\ r.source # NoRecord => r.source.id \in AdmissionIds

(* What verify_record found of a record, before it looked at the one cited. *)
Verified(r) ==
  IsRecord(r) /\ PayloadValid(r) /\ r.operation = r.inventory.operation

IsSequence(s) == \E S : s \in Seq(S)

(* What is being verified, and where the verification of it began.         *)
Target(p) == IF stage[p] = "written" THEN made[p] ELSE held[p]
Bottom(p) == IF citing[p] = <<>> THEN cursor[p] ELSE citing[p][1]

StageInv(p) ==
  /\ pc[p] = "idle" => stage[p] = "none"
  /\ pc[p] \in {"inventory", "prove"} => asked[p].kind = "admit" /\ stage[p] = "none"
  /\ pc[p] \in {"walk", "compare"} => stage[p] \in {"verify", "source", "written"}
  /\ pc[p] = "probe" => stage[p] = "source"
  /\ pc[p] = "done" => stage[p] \in {"verify", "written"}
  /\ stage[p] = "verify" => asked[p].kind = "verify"
  /\ stage[p] = "source" =>
       asked[p].kind \in {"containment", "network"} /\ asked[p].admission \in AdmissionIds

HeldInv(p) ==
  /\ pc[p] = "prove" => held[p].inputs \in Inputs
  /\ pc[p] \in {"walk", "compare", "probe"} /\ stage[p] = "source" => IsRecord(held[p])

MadeInv(p) ==
  pc[p] = "write" \/ stage[p] = "written" =>
    /\ IsRecord(made[p])
    /\ asked[p].kind \in {"admit", "containment", "network"}
    /\ asked[p].kind = "admit" =>
         (made[p].checks["semantics"] = "satisfied") = Proves[made[p].inventory.inputs]
    /\ asked[p].kind # "admit" =>
         made[p].checks["semantics"] = made[p].source.digest.checks["semantics"]

WalkInv(p) ==
  /\ pc[p] \in {"walk", "compare"} =>
       /\ IsRecord(cursor[p]) /\ IsSequence(citing[p])
       /\ \A i \in 1..Len(citing[p]) : Verified(citing[p][i]) /\ citing[p][i].source # NoRecord
       /\ Bottom(p) = Target(p)
  /\ pc[p] = "compare" => Verified(cursor[p]) /\ Chained(cursor[p])
  /\ pc[p] = "done" => Verified(Target(p)) /\ Chained(Target(p))

CommandInv(p) == StageInv(p) /\ HeldInv(p) /\ MadeInv(p) /\ WalkInv(p)

RegistryInv ==
  /\ qual.inputs \in Inputs
  /\ DOMAIN admission = AdmissionIds
  /\ \A a \in AdmissionIds : admission[a] # NoRecord => IsRecord(admission[a])

LocalTypes ==
  /\ DOMAIN pc = Sessions /\ DOMAIN asked = Sessions /\ DOMAIN stage = Sessions
  /\ DOMAIN held = Sessions /\ DOMAIN made = Sessions
  /\ DOMAIN cursor = Sessions /\ DOMAIN citing = Sessions

AdmissionInv ==
  RegistryInv /\ LocalTypes /\ \A p \in Sessions : CommandInv(p)

LEMMA Appended ==
  ASSUME NEW s, IsSequence(s), NEW e
  PROVE  /\ IsSequence(Append(s, e)) /\ Append(s, e) # <<>>
         /\ Len(s) \in Nat /\ Len(Append(s, e)) = Len(s) + 1
         /\ \A i \in 1..Len(s) : Append(s, e)[i] = s[i]
         /\ Append(s, e)[Len(s) + 1] = e
<1>1. PICK S : s \in Seq(S)
  BY DEF IsSequence
<1>2. s \in Seq(S \cup {e}) /\ e \in S \cup {e}
  BY <1>1
<1>3. Append(s, e) \in Seq(S \cup {e})
  BY <1>2
<1> QED BY <1>2, <1>3 DEF IsSequence

LEMMA WithoutLast ==
  ASSUME NEW s, IsSequence(s), s # <<>>
  PROVE  /\ IsSequence(Front(s)) /\ Last(s) = s[Len(s)]
         /\ Len(s) \in Nat /\ Len(s) > 0 /\ Len(Front(s)) = Len(s) - 1
         /\ \A i \in 1..Len(Front(s)) : Front(s)[i] = s[i]
         /\ Front(s) = <<>> <=> Len(s) = 1
<1>1. PICK S : s \in Seq(S)
  BY DEF IsSequence
<1>2. Len(s) \in Nat /\ Len(s) > 0
  BY <1>1
<1>3. Front(s) \in Seq(S) /\ Len(Front(s)) = Len(s) - 1
      /\ \A i \in 1..Len(Front(s)) : Front(s)[i] = s[i]
  <2> DEFINE n == Len(s) - 1
  <2>1. n \in Int /\ n >= 0 /\ \A i \in 1..n : s[i] \in S
    BY <1>1, <1>2
  <2> HIDE DEF n
  <2>2. /\ SubSeq(s, 1, n) \in Seq(S)
        /\ Len(SubSeq(s, 1, n)) = IF 1 <= n THEN n - 1 + 1 ELSE 0
        /\ \A i \in 1..(n - 1 + 1) : SubSeq(s, 1, n)[i] = s[1 + i - 1]
    BY <2>1, SubSeqProperties
  <2>3. Len(SubSeq(s, 1, n)) = n /\ \A i \in 1..n : SubSeq(s, 1, n)[i] = s[i]
    BY <2>1, <2>2
  <2> QED BY <2>2, <2>3 DEF Front, n
<1> QED BY <1>2, <1>3 DEF IsSequence, Last

LEMMA NewRecord ==
  ASSUME NEW schema \in 1..3, NEW source, source # NoRecord => source.id \in AdmissionIds,
         NEW inventory, NEW checks, DOMAIN checks = Codes
  PROVE  IsRecord(Admission(schema, source, inventory, checks))
  BY DEF IsRecord, Admission

LEMMA VariantsAreRecords ==
  ASSUME RegistryInv, NEW a \in AdmissionIds, admission[a] # NoRecord, NEW r \in Variants(admission[a])
  PROVE  IsRecord(r)
<1> DEFINE o == admission[a]
<1>1. IsRecord(o)
  BY DEF RegistryInv
<1> HIDE DEF o
<1>2. ASSUME NEW s \in 1..3 PROVE IsRecord([o EXCEPT !.schema = s])
  BY <1>1 DEF IsRecord
<1>3. ASSUME NEW c, DOMAIN c = Codes
      PROVE  IsRecord([o EXCEPT !.checks = c, !.blockers = Blockers(c)])
  BY <1>1, <1>3 DEF IsRecord
<1>4. IsRecord([o EXCEPT !.blockers = {}])
  BY <1>1 DEF IsRecord
<1>5. ASSUME NEW b \in AdmissionIds
      PROVE  IsRecord([o EXCEPT !.source = [id |-> b, digest |-> admission[b]]])
  BY <1>1 DEF IsRecord
<1>6. /\ DOMAIN [o.checks EXCEPT !["egress"] = "satisfied"] = Codes
      /\ DOMAIN [o.checks EXCEPT !["job"] = "not_implemented"] = Codes
  BY <1>1 DEF IsRecord
<1>7. \/ \E s \in 1..3 : r = [o EXCEPT !.schema = s]
      \/ \E c \in {[o.checks EXCEPT !["egress"] = "satisfied"],
                 [o.checks EXCEPT !["job"] = "not_implemented"]} :
           r = [o EXCEPT !.checks = c, !.blockers = Blockers(c)]
      \/ r = [o EXCEPT !.blockers = {}]
      \/ \E b \in AdmissionIds : r = [o EXCEPT !.source = [id |-> b, digest |-> admission[b]]]
  <2> DEFINE schemas == {[o EXCEPT !.schema = s] : s \in 1..3}
             checked == {[o EXCEPT !.checks = c, !.blockers = Blockers(c)] :
                           c \in {[o.checks EXCEPT !["egress"] = "satisfied"],
                                  [o.checks EXCEPT !["job"] = "not_implemented"]}}
             unblocked == {[o EXCEPT !.blockers = {}]}
             citing_ == {[o EXCEPT !.source = [id |-> b, digest |-> admission[b]]] :
                          b \in {x \in AdmissionIds : admission[x] # NoRecord}}
  <2>1. r \in schemas \cup checked \cup unblocked \cup citing_
    BY DEF Variants, o
  <2>2. r \in schemas \/ r \in checked \/ r \in unblocked \/ r \in citing_
    <3> HIDE DEF schemas, checked, unblocked, citing_
    <3> QED BY <2>1
  <2> QED BY <2>2, Zenon
<1>8. CASE \E s \in 1..3 : r = [o EXCEPT !.schema = s]
  BY <1>2, <1>8, Zenon
<1>9. CASE \E c \in {[o.checks EXCEPT !["egress"] = "satisfied"],
                    [o.checks EXCEPT !["job"] = "not_implemented"]} :
              r = [o EXCEPT !.checks = c, !.blockers = Blockers(c)]
  <2>1. PICK c \in {[o.checks EXCEPT !["egress"] = "satisfied"],
                  [o.checks EXCEPT !["job"] = "not_implemented"]} :
            r = [o EXCEPT !.checks = c, !.blockers = Blockers(c)]
    BY <1>9, Zenon
  <2>2. DOMAIN c = Codes
    BY <1>6, <2>1
  <2> QED BY <1>3, <2>1, <2>2, Zenon
<1>10. CASE \E b \in AdmissionIds : r = [o EXCEPT !.source = [id |-> b, digest |-> admission[b]]]
  BY <1>5, <1>10, Zenon
<1> QED BY <1>4, <1>7, <1>8, <1>9, <1>10, Zenon

(* A record that was verified, cites and is one schema above a chain.      *)
LEMMA LongerChain ==
  ASSUME NEW r, Verified(r), r.source # NoRecord,
         NEW cited, Verified(cited), Chained(cited), Cites(r, cited)
  PROVE  Chained(r)
<1>1. r.schema \in 1..3 /\ cited.schema \in 1..3 /\ cited.schema = r.schema - 1
      /\ cited = r.source.digest /\ cited.inventory = r.inventory
  BY DEF Verified, IsRecord, Cites
<1>2. Link(r)
  BY <1>1 DEF Verified, PayloadValid, CommonValid, Link
<1>3. r.schema > 2 => cited.schema > 1
  BY <1>1
<1> QED BY <1>1, <1>2, <1>3 DEF Chained

(* So is one that cites nothing.                                           *)
LEMMA FirstOfChain ==
  ASSUME NEW r, Verified(r), r.source = NoRecord
  PROVE  Chained(r)
<1>1. r.schema = 1
  BY DEF Verified, PayloadValid
<1> QED BY <1>1 DEF Verified, PayloadValid, CommonValid, Chained, Link
-----------------------------------------------------------------------------
(* The steps.                                                              *)

(* What a command's step leaves alone.                                     *)
Same(q) ==
  /\ pc'[q] = pc[q] /\ asked'[q] = asked[q] /\ stage'[q] = stage[q] /\ held'[q] = held[q]
  /\ made'[q] = made[q] /\ cursor'[q] = cursor[q] /\ citing'[q] = citing[q]

LEMMA SameKeeps ==
  ASSUME NEW q \in Sessions, CommandInv(q), Same(q)
  PROVE  CommandInv(q)'
<1>1. Target(q)' = Target(q) /\ Bottom(q)' = Bottom(q)
  BY DEF Same, Target, Bottom
<1> QED BY <1>1 DEF Same, CommandInv, StageInv, HeldInv, MadeInv, WalkInv

LEMMA AdmissionInit == AdmissionsInit => AdmissionInv
<1> SUFFICES ASSUME AdmissionsInit PROVE AdmissionInv
  OBVIOUS
<1>1. LocalTypes /\ \A p \in Sessions : CommandInv(p)
  BY DEF AdmissionsInit, LocalTypes, CommandInv, StageInv, HeldInv, MadeInv, WalkInv
<1>2. qual.inputs \in Inputs
  BY DEF AdmissionsInit
<1>3. CASE admission = [a \in AdmissionIds |-> NoRecord]
  BY <1>1, <1>2, <1>3 DEF AdmissionInv, RegistryInv
<1>4. ASSUME NEW v1 \in Earlier, NEW v2 \in Earlier, admission = EarlierChain(qual, v1, v2)
      PROVE  AdmissionInv
  <2> DEFINE first == Admission(1, NoRecord, qual, AdmitChecks(qual.inputs))
             ref == [id |-> v1, digest |-> first]
             checks == [first.checks EXCEPT !["limit"] = "satisfied", !["job"] = "satisfied"]
             second == Admission(2, ref, qual, checks)
  <2>1. DOMAIN AdmitChecks(qual.inputs) = Codes
    BY DEF AdmitChecks
  <2>2. IsRecord(first)
    BY <2>1, NewRecord
  <2>3. DOMAIN checks = Codes /\ ref.id \in AdmissionIds
    BY <2>2 DEF IsRecord, AdmissionIds
  <2>4. IsRecord(second)
    <3> HIDE DEF ref, checks
    <3> QED BY <2>3, NewRecord
  <2>5. admission = [a \in AdmissionIds |-> IF a = v1 THEN first ELSE IF a = v2 THEN second ELSE NoRecord]
    BY <1>4 DEF EarlierChain
  <2> HIDE DEF first, second
  <2> QED BY <1>1, <1>2, <2>2, <2>4, <2>5 DEF AdmissionInv, RegistryInv
<1> QED BY <1>3, <1>4 DEF AdmissionsInit

(* Nobody's rewrite makes something else than a record of a record.        *)
LEMMA RewriteStep ==
  ASSUME AdmissionInv, Rewrite
  PROVE  AdmissionInv'
<1>1. \A q \in Sessions : CommandInv(q)'
  BY SameKeeps DEF AdmissionInv, Rewrite, local, Same
<1>2. LocalTypes'
  BY DEF AdmissionInv, LocalTypes, Rewrite, local
<1>3. CASE \E i \in Inputs : qual' = [capsule |-> capsule, operation |-> capsule.operation,
                                      inputs |-> i] /\ UNCHANGED admission
  BY <1>1, <1>2, <1>3 DEF AdmissionInv, RegistryInv
<1>4. CASE UNCHANGED <<qual, admission>>
  BY <1>1, <1>2, <1>4 DEF AdmissionInv, RegistryInv
<1>5. ASSUME NEW a \in AdmissionIds, admission[a] # NoRecord, NEW r \in Variants(admission[a]),
             admission' = [admission EXCEPT ![a] = r], UNCHANGED qual
      PROVE  AdmissionInv'
  <2>1. IsRecord(r)
    BY <1>5, VariantsAreRecords DEF AdmissionInv
  <2> QED BY <1>1, <1>2, <1>5, <2>1 DEF AdmissionInv, RegistryInv
<1> QED BY <1>3, <1>4, <1>5 DEF Rewrite
LEMMA AdmitStep ==
  ASSUME AdmissionInv, NEW p \in Sessions, Admit(p)
  PROVE  AdmissionInv'
<1> USE DEF AdmissionInv, LocalTypes, Proceed
<1>1. \A q \in Sessions \ {p} : CommandInv(q)'
  BY SameKeeps DEF Admit, Same
<1>2. CommandInv(p)'
  BY DEF Admit, CommandInv, StageInv, HeldInv, MadeInv, WalkInv
<1>3. LocalTypes' /\ RegistryInv'
  BY DEF Admit, store, RegistryInv
<1> QED BY <1>1, <1>2, <1>3

LEMMA BeginStep ==
  ASSUME AdmissionInv, NEW p \in Sessions, NEW kind \in {"containment", "network", "verify"},
         NEW a \in AdmissionIds, Begin(p, kind, a)
  PROVE  AdmissionInv'
<1> USE DEF AdmissionInv, LocalTypes, Proceed, Check, Load
<1>1. \A q \in Sessions \ {p} : CommandInv(q)'
  BY SameKeeps DEF Begin, Same
<1>2. LocalTypes' /\ RegistryInv'
  BY DEF Begin, store, RegistryInv
<1>3. /\ pc[p] = "idle" /\ pc'[p] = IF admission[a] # NoRecord THEN "walk" ELSE "refused"
      /\ asked'[p].kind = kind /\ asked'[p].admission = a
      /\ stage'[p] = IF kind = "verify" THEN "verify" ELSE "source"
      /\ held'[p] = admission[a] /\ cursor'[p] = admission[a] /\ citing'[p] = <<>>
  BY DEF Begin
<1>4. StageInv(p)' /\ HeldInv(p)' /\ MadeInv(p)'
  BY <1>3 DEF StageInv, HeldInv, MadeInv, RegistryInv
<1>5. WalkInv(p)'
  <2>1. IsSequence(<<>>) /\ Len(<<>>) = 0
    BY DEF IsSequence
  <2>2. Bottom(p)' = admission[a] /\ Target(p)' = admission[a]
    BY <1>3 DEF Bottom, Target
  <2>3. pc'[p] = "walk" => IsRecord(cursor'[p])
    BY <1>3 DEF RegistryInv
  <2> QED BY <1>3, <2>1, <2>2, <2>3 DEF WalkInv
<1> QED BY <1>1, <1>2, <1>4, <1>5 DEF CommandInv

(* The walk goes one record further down.                                  *)
LEMMA WalkStep ==
  ASSUME AdmissionInv, NEW p \in Sessions, Walk(p)
  PROVE  AdmissionInv'
<1> USE DEF AdmissionInv, LocalTypes, Proceed
<1> DEFINE r == cursor[p]
           s == citing[p]
<1>1. \A q \in Sessions \ {p} : CommandInv(q)'
  BY SameKeeps DEF Walk, Same
<1>2. LocalTypes' /\ RegistryInv'
  BY DEF Walk, store, RegistryInv
<1>3. /\ pc[p] = "walk" /\ stage' = stage /\ held' = held /\ made' = made /\ asked' = asked
      /\ pc'[p] \in {"walk", "compare", "refused", "exhausted"}
      /\ Target(p)' = Target(p)
  BY DEF Walk, Target
<1>4. CommandInv(p) /\ IsRecord(r) /\ IsSequence(s) /\ Bottom(p) = Target(p)
      /\ \A i \in 1..Len(s) : Verified(s[i]) /\ s[i].source # NoRecord
  BY <1>3 DEF CommandInv, WalkInv
<1>5. StageInv(p)' /\ HeldInv(p)' /\ MadeInv(p)'
  BY <1>3, <1>4 DEF CommandInv, StageInv, HeldInv, MadeInv
<1>6. PayloadValid(r) /\ InventoryHolds(r) => Verified(r)
  BY <1>4 DEF InventoryHolds, Verified
<1>7. ASSUME PayloadValid(r) /\ InventoryHolds(r) /\ r.source # NoRecord /\ pc'[p] = "walk"
      PROVE  WalkInv(p)'
  <2>1. /\ cursor'[p] = admission[r.source.id] /\ cursor'[p] # NoRecord
        /\ citing'[p] = Append(s, r)
    BY <1>7 DEF Walk
  <2>2. IsRecord(cursor'[p])
    BY <1>4, <1>7, <2>1 DEF IsRecord, RegistryInv
  <2>3. IsSequence(citing'[p])
        /\ \A i \in 1..Len(citing'[p]) : Verified(citing'[p][i]) /\ citing'[p][i].source # NoRecord
    BY <1>4, <1>6, <1>7, <2>1, Appended
  <2>4. Bottom(p)' = Bottom(p)
    <3>1. citing'[p] # <<>> /\ citing'[p][1] = IF s = <<>> THEN r ELSE s[1]
      BY <1>4, <2>1, Appended, Len(s) = 0 \/ 1 \in 1..Len(s), s = <<>> <=> Len(s) = 0
    <3> QED BY <3>1 DEF Bottom
  <2> QED BY <1>3, <1>4, <1>7, <2>2, <2>3, <2>4 DEF WalkInv
<1>8. ASSUME PayloadValid(r) /\ InventoryHolds(r) /\ r.source = NoRecord /\ pc'[p] = "compare"
      PROVE  WalkInv(p)'
  <2>1. cursor' = cursor /\ citing' = citing /\ Bottom(p)' = Bottom(p)
    BY <1>8 DEF Walk, Bottom
  <2>2. Verified(r) /\ Chained(r)
    BY <1>6, <1>8, FirstOfChain
  <2> QED BY <1>3, <1>4, <1>8, <2>1, <2>2 DEF WalkInv
<1>9. ASSUME pc'[p] \in {"refused", "exhausted"} PROVE WalkInv(p)'
  BY <1>9 DEF WalkInv
<1>10. \/ pc'[p] \in {"refused", "exhausted"}
       \/ PayloadValid(r) /\ InventoryHolds(r) /\ r.source = NoRecord /\ pc'[p] = "compare"
       \/ PayloadValid(r) /\ InventoryHolds(r) /\ r.source # NoRecord /\ pc'[p] = "walk"
  BY DEF Walk
<1>11. WalkInv(p)'
  BY <1>7, <1>8, <1>9, <1>10
<1> QED BY <1>1, <1>2, <1>5, <1>11 DEF CommandInv
(* And back, as long as each citation holds.                               *)
LEMMA CompareStep ==
  ASSUME AdmissionInv, NEW p \in Sessions, Compare(p)
  PROVE  AdmissionInv'
<1> USE DEF AdmissionInv, LocalTypes, Proceed, Check
<1> DEFINE r == Last(citing[p])
           s == citing[p]
<1>1. \A q \in Sessions \ {p} : CommandInv(q)'
  BY SameKeeps DEF Compare, Same
<1>2. LocalTypes' /\ RegistryInv'
  BY DEF Compare, store, RegistryInv
<1>3. /\ pc[p] = "compare" /\ stage' = stage /\ held' = held /\ made' = made /\ asked' = asked
      /\ Target(p)' = Target(p)
  BY DEF Compare, Target
<1>4. /\ CommandInv(p) /\ IsSequence(s) /\ Bottom(p) = Target(p)
      /\ Verified(cursor[p]) /\ Chained(cursor[p])
      /\ \A i \in 1..Len(s) : Verified(s[i]) /\ s[i].source # NoRecord
  BY <1>3 DEF CommandInv, WalkInv
<1>5. \/ s = <<>> /\ pc'[p] = IF stage[p] = "source" THEN "probe" ELSE "done"
      \/ pc'[p] = "refused"
      \/ /\ s # <<>> /\ Cites(r, cursor[p]) /\ pc'[p] = "compare"
         /\ cursor'[p] = r /\ citing'[p] = Front(s)
  BY DEF Compare
<1>6. StageInv(p)' /\ HeldInv(p)' /\ MadeInv(p)'
  BY <1>3, <1>4, <1>5 DEF CommandInv, StageInv, HeldInv, MadeInv
<1>7. ASSUME s = <<>>, pc'[p] \in {"probe", "done"} PROVE WalkInv(p)'
  BY <1>3, <1>4, <1>7 DEF WalkInv, Bottom
<1>8. ASSUME s # <<>>, Cites(r, cursor[p]), pc'[p] = "compare",
             cursor'[p] = r, citing'[p] = Front(s)
      PROVE  WalkInv(p)'
  <2>1. /\ IsSequence(Front(s)) /\ r = s[Len(s)] /\ Len(s) \in Nat /\ Len(s) > 0
        /\ Len(Front(s)) = Len(s) - 1
        /\ \A i \in 1..Len(Front(s)) : Front(s)[i] = s[i]
        /\ Front(s) = <<>> <=> Len(s) = 1
    BY <1>4, <1>8, WithoutLast
  <2>2. Verified(r) /\ r.source # NoRecord
    BY <1>4, <2>1, Len(s) \in 1..Len(s)
  <2>3. Chained(r)
    BY <1>4, <1>8, <2>2, LongerChain
  <2>4. \A i \in 1..Len(Front(s)) : Verified(Front(s)[i]) /\ Front(s)[i].source # NoRecord
    BY <1>4, <2>1
  <2>5. Bottom(p)' = Bottom(p)
    <3>1. Bottom(p) = s[1]
      BY <1>8 DEF Bottom
    <3>2. CASE Front(s) = <<>>
      BY <1>8, <2>1, <3>1, <3>2 DEF Bottom
    <3>3. CASE Front(s) # <<>>
      <4>1. 1 \in 1..Len(Front(s))
        BY <2>1, <3>3
      <4> QED BY <1>8, <2>1, <3>1, <3>3, <4>1 DEF Bottom
    <3> QED BY <3>2, <3>3
  <2>6. IsRecord(r)
    BY <2>2 DEF Verified
  <2> HIDE DEF r
  <2> QED BY <1>3, <1>4, <1>8, <2>1, <2>2, <2>3, <2>4, <2>5, <2>6 DEF WalkInv
<1>9. ASSUME pc'[p] = "refused" PROVE WalkInv(p)'
  BY <1>9 DEF WalkInv
<1>10. WalkInv(p)'
  BY <1>5, <1>7, <1>8, <1>9
<1> QED BY <1>1, <1>2, <1>6, <1>10 DEF CommandInv

LEMMA LoadInventoryStep ==
  ASSUME AdmissionInv, NEW p \in Sessions, LoadInventory(p)
  PROVE  AdmissionInv'
<1> USE DEF AdmissionInv, LocalTypes, Proceed, Check
<1>1. \A q \in Sessions \ {p} : CommandInv(q)'
  BY SameKeeps DEF LoadInventory, Same
<1>2. LocalTypes' /\ RegistryInv'
  BY DEF LoadInventory, store, RegistryInv
<1>3. /\ pc[p] = "inventory" /\ pc'[p] \in {"prove", "refused"} /\ held'[p] = qual
      /\ stage' = stage /\ asked' = asked /\ CommandInv(p) /\ qual.inputs \in Inputs
  BY DEF LoadInventory, RegistryInv
<1>4. CommandInv(p)'
  BY <1>3 DEF CommandInv, StageInv, HeldInv, MadeInv, WalkInv
<1> QED BY <1>1, <1>2, <1>4

(* The first record of a chain says of its bytes what holds of them.       *)
LEMMA EvaluateStep ==
  ASSUME AdmissionInv, NEW p \in Sessions, EvaluateProofs(p)
  PROVE  AdmissionInv'
<1> USE DEF AdmissionInv, LocalTypes, Proceed, Check
<1> DEFINE q == held[p]
           checks == AdmitChecks(q.inputs)
<1>1. \A c \in Sessions \ {p} : CommandInv(c)'
  BY SameKeeps DEF EvaluateProofs, Same
<1>2. LocalTypes' /\ RegistryInv'
  BY DEF EvaluateProofs, store, RegistryInv
<1>3. /\ pc[p] = "prove" /\ pc'[p] \in {"write", "refused"}
      /\ made'[p] = Admission(1, NoRecord, q, checks)
      /\ stage' = stage /\ asked' = asked
  BY DEF EvaluateProofs
<1>4. asked[p].kind = "admit" /\ stage[p] = "none" /\ q.inputs \in Inputs
  BY <1>3 DEF CommandInv, StageInv, HeldInv
<1>5. DOMAIN checks = Codes /\ checks["semantics"] = Outcome(Proves[q.inputs])
  BY DEF AdmitChecks, Codes
<1>6. IsRecord(made'[p])
  <2> HIDE DEF checks
  <2> QED BY <1>3, <1>5, NewRecord
<1>7. made'[p].checks = checks /\ made'[p].inventory = q
  BY <1>3 DEF Admission
<1>8. (Outcome(Proves[q.inputs]) = "satisfied") = Proves[q.inputs]
  <2>1. Proves[q.inputs] \in BOOLEAN
    BY <1>4, AdmissionAssumption
  <2> QED BY <2>1 DEF Outcome
<1>9. MadeInv(p)'
  <2> HIDE DEF checks, q
  <2> QED BY <1>3, <1>4, <1>5, <1>6, <1>7, <1>8 DEF MadeInv
<1>10. StageInv(p)' /\ HeldInv(p)' /\ WalkInv(p)'
  BY <1>3, <1>4 DEF StageInv, HeldInv, WalkInv
<1> QED BY <1>1, <1>2, <1>9, <1>10 DEF CommandInv

(* A probe replaces residual checks only.                                  *)
LEMMA ProbeAdmissionStep ==
  ASSUME AdmissionInv, NEW p \in Sessions, Probe(p)
  PROVE  AdmissionInv'
<1> USE DEF AdmissionInv, LocalTypes, Proceed, Check
<1> DEFINE r == held[p]
           ref == SourceRef(p, r)
<1>1. \A q \in Sessions \ {p} : CommandInv(q)'
  BY SameKeeps DEF Probe, Same
<1>2. LocalTypes' /\ RegistryInv'
  BY DEF Probe, store, RegistryInv
<1>3. /\ pc[p] = "probe" /\ pc'[p] \in {"write", "refused"}
      /\ stage' = stage /\ asked' = asked
  BY DEF Probe
<1>4. /\ asked[p].kind \in {"containment", "network"} /\ asked[p].admission \in AdmissionIds
      /\ stage[p] = "source" /\ IsRecord(r)
  BY <1>3 DEF CommandInv, StageInv, HeldInv
<1>5. PICK schema, e, l, j :
        /\ schema \in 2..3
        /\ made'[p] = Admission(schema, ref, r.inventory,
                        [r.checks EXCEPT !["egress"] = e, !["limit"] = l, !["job"] = j])
  <2>1. \A egress, limit, job \in BOOLEAN :
          made' = [made EXCEPT ![p] =
            Admission(IF asked[p].kind = "network" THEN 3 ELSE 2, ref, r.inventory,
                      [r.checks EXCEPT !["egress"] = Outcome(asked[p].kind = "network" /\ egress),
                                       !["limit"] = Outcome(limit),
                                       !["job"] = Outcome(job)])] =>
          \E schema, e, l, j :
            /\ schema \in 2..3
            /\ made'[p] = Admission(schema, ref, r.inventory,
                            [r.checks EXCEPT !["egress"] = e, !["limit"] = l, !["job"] = j])
    <3> SUFFICES
          ASSUME NEW egress \in BOOLEAN, NEW limit \in BOOLEAN, NEW job \in BOOLEAN,
                 made' = [made EXCEPT ![p] =
                   Admission(IF asked[p].kind = "network" THEN 3 ELSE 2, ref, r.inventory,
                             [r.checks EXCEPT
                                !["egress"] = Outcome(asked[p].kind = "network" /\ egress),
                                !["limit"] = Outcome(limit), !["job"] = Outcome(job)])]
          PROVE  \E schema, e, l, j :
                   /\ schema \in 2..3
                   /\ made'[p] = Admission(schema, ref, r.inventory,
                        [r.checks EXCEPT !["egress"] = e, !["limit"] = l, !["job"] = j])
      BY Zenon
    <3> DEFINE n == IF asked[p].kind = "network" THEN 3 ELSE 2
               denied == Outcome(asked[p].kind = "network" /\ egress)
               limited == Outcome(limit)
               assigned_ == Outcome(job)
    <3>1. n \in 2..3
      OBVIOUS
    <3>2. made'[p] = Admission(n, ref, r.inventory,
                       [r.checks EXCEPT !["egress"] = denied, !["limit"] = limited,
                                        !["job"] = assigned_])
      OBVIOUS
    <3> HIDE DEF n, denied, limited, assigned_, ref, r
    <3> HIDE DEF AdmissionInv, LocalTypes, Proceed, Check
    <3> QED BY <3>1, <3>2
  <2> QED BY <2>1, Zenon DEF Probe
<1> DEFINE checks == [r.checks EXCEPT !["egress"] = e, !["limit"] = l, !["job"] = j]
<1>6. DOMAIN checks = Codes /\ checks["semantics"] = r.checks["semantics"]
  BY <1>4 DEF IsRecord, Codes
<1>7. ref.id \in AdmissionIds /\ ref.digest = r
  BY <1>4 DEF SourceRef
<1>8. IsRecord(made'[p])
  <2>1. made'[p] = Admission(schema, ref, r.inventory, checks) /\ schema \in 1..3
    BY <1>5
  <2> HIDE DEF checks, ref
  <2> QED BY <2>1, <1>6, <1>7, NewRecord
<1>9. made'[p].checks = checks /\ made'[p].source = ref
  BY <1>5 DEF Admission
<1>10. MadeInv(p)'
  <2> HIDE DEF checks, ref, r
  <2> QED BY <1>3, <1>4, <1>6, <1>7, <1>8, <1>9 DEF MadeInv
<1>11. StageInv(p)' /\ HeldInv(p)' /\ WalkInv(p)'
  BY <1>3, <1>4 DEF StageInv, HeldInv, WalkInv
<1> QED BY <1>1, <1>2, <1>10, <1>11 DEF CommandInv

LEMMA PublishStep ==
  ASSUME AdmissionInv, NEW p \in Sessions, PublishAdmission(p)
  PROVE  AdmissionInv'
<1> USE DEF AdmissionInv, LocalTypes, Proceed
<1>1. \A q \in Sessions \ {p} : CommandInv(q)'
  BY SameKeeps DEF PublishAdmission, Same
<1>2. /\ pc[p] = "write" /\ pc'[p] = "walk" /\ stage'[p] = "written"
      /\ asked' = asked /\ made' = made /\ held' = held
      /\ cursor'[p] = made[p] /\ citing'[p] = <<>>
      /\ admission' = [admission EXCEPT ![p] = made[p]] /\ UNCHANGED qual
      /\ CommandInv(p)
  BY DEF PublishAdmission
<1>3. LocalTypes'
  BY DEF PublishAdmission
<1>4. MadeInv(p) /\ IsRecord(made[p])
  BY <1>2 DEF CommandInv, MadeInv
<1>5. RegistryInv'
  BY <1>2, <1>4 DEF RegistryInv, AdmissionIds
<1>6. StageInv(p)' /\ HeldInv(p)' /\ MadeInv(p)'
  BY <1>2, <1>4 DEF StageInv, HeldInv, MadeInv
<1>7. WalkInv(p)'
  <2>1. IsSequence(<<>>) /\ Len(<<>>) = 0
    BY DEF IsSequence
  <2>2. Bottom(p)' = made[p] /\ Target(p)' = made[p]
    BY <1>2 DEF Bottom, Target
  <2> QED BY <1>2, <1>4, <2>1, <2>2 DEF WalkInv
<1> QED BY <1>1, <1>3, <1>5, <1>6, <1>7 DEF CommandInv

LEMMA AdmissionStep == AdmissionInv /\ [AdmissionsNext]_admissions => AdmissionInv'
<1> SUFFICES ASSUME AdmissionInv, [AdmissionsNext]_admissions PROVE AdmissionInv'
  OBVIOUS
<1>1. CASE UNCHANGED admissions
  <2>1. \A p \in Sessions : CommandInv(p)'
    BY <1>1, SameKeeps DEF AdmissionInv, admissions, local, Same
  <2> QED BY <1>1, <2>1 DEF AdmissionInv, RegistryInv, LocalTypes, admissions, store, local
<1>2. CASE AdmissionsNext
  BY <1>2, RewriteStep, AdmitStep, BeginStep, WalkStep, CompareStep, LoadInventoryStep,
     EvaluateStep, ProbeAdmissionStep, PublishStep DEF AdmissionsNext
<1> QED BY <1>1, <1>2

(* Whatever admission a command returns or accepts, and whoever rewrites   *)
(* the registry meanwhile, rests on a chain of verified records, claims no *)
(* denied egress below the third, and says no more of the bytes than was   *)
(* found of them.                                                          *)
THEOREM AdmissionsAreChained == AdmissionsSpec => []AcceptedAdmissionsAreChained
<1>1. AdmissionInv => AcceptedAdmissionsAreChained
  <2> SUFFICES ASSUME AdmissionInv, NEW p \in Sessions, pc[p] = "done"
               PROVE  LET r == IF asked[p].kind = "verify" THEN held[p] ELSE made[p] IN
                      /\ Chained(r)
                      /\ r.checks["egress"] = "satisfied" => r.schema = 3
                      /\ asked[p].kind = "admit" =>
                           (r.checks["semantics"] = "satisfied") = Proves[r.inventory.inputs]
                      /\ asked[p].kind \in {"containment", "network"} =>
                           r.checks["semantics"] = r.source.digest.checks["semantics"]
    BY DEF AcceptedAdmissionsAreChained
  <2> DEFINE r == IF asked[p].kind = "verify" THEN held[p] ELSE made[p]
  <2>1. StageInv(p) /\ MadeInv(p) /\ WalkInv(p)
    BY DEF AdmissionInv, CommandInv
  <2>2. r = Target(p)
    BY <2>1 DEF StageInv, MadeInv, Target
  <2>3. Chained(r) /\ Verified(r)
    BY <2>1, <2>2 DEF WalkInv
  <2>4. r.checks["egress"] = "satisfied" => r.schema = 3
    BY <2>3 DEF Verified, IsRecord, PayloadValid, Residual, Codes
  <2>5. asked[p].kind # "verify" => r = made[p] /\ stage[p] = "written"
    BY <2>1 DEF StageInv
  <2>6. /\ asked[p].kind = "admit" =>
             (r.checks["semantics"] = "satisfied") = Proves[r.inventory.inputs]
        /\ asked[p].kind \in {"containment", "network"} =>
             r.checks["semantics"] = r.source.digest.checks["semantics"]
    <3> HIDE DEF r
    <3> QED BY <2>1, <2>5 DEF MadeInv
  <2> QED BY <2>3, <2>4, <2>6
<1> QED BY <1>1, AdmissionInit, AdmissionStep, PTL DEF AdmissionsSpec
-----------------------------------------------------------------------------
(* How long a verification may take.                                       *)

(* Unless somebody rewrites them, a record cites one of a lower schema.    *)
Descends(registry, r) ==
  r.source # NoRecord =>
    /\ r.schema > 1
    /\ registry[r.source.id] # NoRecord /\ registry[r.source.id].schema < r.schema

(* So a walk has the fewer records before it, the more are behind it.  A   *)
(* command writes its own record once, over the one that it was asked for. *)
Unrewritten(p) ==
  /\ pc[p] \in {"idle", "inventory", "prove", "probe", "write"} => stage[p] # "written"
  /\ stage[p] # "written" => admission[p] = NoRecord
  /\ pc[p] \in {"walk", "compare", "probe"} /\ stage[p] = "source" =>
       held[p] = admission[asked[p].admission] /\ held[p] # NoRecord
  /\ pc[p] = "write" => Descends(admission, made[p])
  /\ pc[p] = "walk" =>
       Descends(admission, cursor[p]) /\ cursor[p].schema + Len(citing[p]) <= 3
  /\ pc[p] # "exhausted"

Orderly ==
  /\ \A a \in AdmissionIds : admission[a] # NoRecord => Descends(admission, admission[a])
  /\ \A p \in Sessions : Unrewritten(p)

TimeInv == rewrites \in Nat /\ (rewrites = 0 => Orderly)

LEMMA DescendsKept ==
  ASSUME NEW r, IsRecord(r), NEW before, NEW after, Descends(before, r),
         \A a \in AdmissionIds : before[a] # NoRecord => after[a] = before[a]
  PROVE  Descends(after, r)
  BY DEF IsRecord, Descends

LEMMA OthersSame ==
  ASSUME LocalTypes, NEW p \in Sessions, NEW q \in Sessions \ {p},
         \/ Admit(p) \/ Walk(p) \/ Compare(p)
         \/ \E kind \in {"containment", "network", "verify"}, a \in AdmissionIds : Begin(p, kind, a)
         \/ LoadInventory(p) \/ EvaluateProofs(p) \/ Probe(p) \/ PublishAdmission(p)
  PROVE  Same(q)
<1> USE DEF LocalTypes, Proceed, Check, Load, Same
<1>1. CASE Admit(p) \/ Walk(p) \/ Compare(p) \/ LoadInventory(p)
  BY <1>1 DEF Admit, Walk, Compare, LoadInventory
<1>2. ASSUME NEW kind \in {"containment", "network", "verify"}, NEW a \in AdmissionIds, Begin(p, kind, a)
      PROVE  Same(q)
  BY <1>2 DEF Begin
<1>3. CASE EvaluateProofs(p) \/ Probe(p) \/ PublishAdmission(p)
  BY <1>3 DEF EvaluateProofs, Probe, PublishAdmission
<1> QED BY <1>1, <1>2, <1>3

(* What the steps of a command have to show.                               *)
LEMMA OrderlyFrame ==
  ASSUME AdmissionInv, Orderly, NEW p \in Sessions, \A q \in Sessions \ {p} : Same(q),
         DOMAIN admission' = AdmissionIds, \A a \in AdmissionIds \ {p} : admission'[a] = admission[a],
         admission'[p] = admission[p] \/ admission[p] = NoRecord,
         admission'[p] # NoRecord => Descends(admission', admission'[p]),
         Unrewritten(p)'
  PROVE  Orderly'
<1>1. \A a \in AdmissionIds : admission[a] # NoRecord => admission'[a] = admission[a]
  OBVIOUS
<1>2. ASSUME NEW a \in AdmissionIds, admission'[a] # NoRecord PROVE Descends(admission', admission'[a])
  <2>1. CASE a = p
    BY <1>2, <2>1
  <2>2. CASE a # p
    <3>1. admission'[a] = admission[a] /\ admission[a] # NoRecord
      BY <1>2, <2>2
    <3>2. IsRecord(admission[a]) /\ Descends(admission, admission[a])
      BY <3>1 DEF AdmissionInv, RegistryInv, Orderly
    <3> QED BY <1>1, <3>1, <3>2, DescendsKept
  <2> QED BY <2>1, <2>2
<1>3. ASSUME NEW q \in Sessions \ {p} PROVE Unrewritten(q)'
  <2>1. Same(q) /\ Unrewritten(q) /\ CommandInv(q)
    BY DEF Orderly, AdmissionInv
  <2>2. admission'[q] = admission[q]
    BY DEF AdmissionIds
  <2>3. pc[q] = "write" => Descends(admission', made[q])
    <3>1. SUFFICES ASSUME pc[q] = "write" PROVE Descends(admission', made[q])
      OBVIOUS
    <3>2. IsRecord(made[q]) /\ Descends(admission, made[q])
      BY <2>1, <3>1 DEF Unrewritten, CommandInv, MadeInv
    <3> QED BY <1>1, <3>2, DescendsKept
  <2>4. pc[q] = "walk" => Descends(admission', cursor[q])
    <3>1. SUFFICES ASSUME pc[q] = "walk" PROVE Descends(admission', cursor[q])
      OBVIOUS
    <3>2. IsRecord(cursor[q]) /\ Descends(admission, cursor[q])
      BY <2>1, <3>1 DEF Unrewritten, CommandInv, WalkInv
    <3> QED BY <1>1, <3>2, DescendsKept
  <2>5. pc[q] \in {"walk", "compare", "probe"} /\ stage[q] = "source" =>
          held[q] = admission'[asked[q].admission] /\ held[q] # NoRecord
    BY <1>1, <2>1 DEF Unrewritten, CommandInv, StageInv
  <2> QED BY <2>1, <2>2, <2>3, <2>4, <2>5 DEF Unrewritten, Same
<1> QED BY <1>2, <1>3 DEF Orderly

LEMMA OrderlyStart ==
  ASSUME AdmissionInv, Orderly, NEW p \in Sessions,
         Admit(p) \/ LoadInventory(p) \/ Compare(p)
  PROVE  Orderly'
<1> USE DEF LocalTypes, Proceed, Check
<1>1. \A q \in Sessions \ {p} : Same(q)
  BY OthersSame DEF AdmissionInv
<1>2. admission' = admission
  BY DEF Admit, LoadInventory, Compare, store
<1>3. Unrewritten(p) /\ LocalTypes /\ StageInv(p)
  BY DEF Orderly, AdmissionInv, CommandInv
<1>4. Unrewritten(p)'
  <2>1. CASE Admit(p)
    BY <1>2, <1>3, <2>1 DEF Admit, Unrewritten
  <2>2. CASE LoadInventory(p)
    BY <1>2, <1>3, <2>2 DEF LoadInventory, Unrewritten, StageInv
  <2>3. CASE Compare(p)
    <3>1. /\ pc[p] = "compare" /\ pc'[p] \in {"probe", "done", "refused", "compare"}
          /\ pc'[p] = "probe" => stage[p] = "source"
          /\ stage' = stage /\ held' = held /\ asked' = asked
      BY <1>3, <2>3 DEF Compare
    <3> QED BY <1>2, <1>3, <3>1 DEF Unrewritten
  <2> QED BY <2>1, <2>2, <2>3
<1>5. \A a \in AdmissionIds : admission[a] # NoRecord => Descends(admission, admission[a])
  BY DEF Orderly
<1>6. DOMAIN admission = AdmissionIds /\ p \in AdmissionIds
  BY DEF AdmissionInv, RegistryInv, AdmissionIds
<1> QED BY <1>1, <1>2, <1>4, <1>5, <1>6, OrderlyFrame

LEMMA OrderlyBegin ==
  ASSUME AdmissionInv, Orderly, NEW p \in Sessions,
         NEW kind \in {"containment", "network", "verify"}, NEW a \in AdmissionIds, Begin(p, kind, a)
  PROVE  Orderly'
<1> USE DEF LocalTypes, Proceed, Check, Load
<1>1. \A q \in Sessions \ {p} : Same(q)
  BY OthersSame DEF AdmissionInv
<1>2. admission' = admission
  BY DEF Begin, store
<1>3. Unrewritten(p) /\ LocalTypes
  BY DEF Orderly, AdmissionInv
<1>4. /\ pc[p] = "idle" /\ pc'[p] = IF admission[a] # NoRecord THEN "walk" ELSE "refused"
      /\ asked'[p].admission = a /\ stage'[p] \in {"verify", "source"}
      /\ held'[p] = admission[a] /\ cursor'[p] = admission[a] /\ citing'[p] = <<>>
  BY <1>3 DEF Begin
<1>5. \A b \in AdmissionIds : admission[b] # NoRecord =>
        Descends(admission, admission[b]) /\ IsRecord(admission[b])
  BY DEF Orderly, AdmissionInv, RegistryInv
<1>6. Unrewritten(p)'
  <2>1. admission[a] # NoRecord => admission[a].schema \in 1..3 /\ Len(<<>>) = 0
    BY <1>5 DEF IsRecord
  <2> QED BY <1>2, <1>3, <1>4, <1>5, <2>1 DEF Unrewritten
<1>7. DOMAIN admission = AdmissionIds /\ p \in AdmissionIds
  BY DEF AdmissionInv, RegistryInv, AdmissionIds
<1> QED BY <1>1, <1>2, <1>5, <1>6, <1>7, OrderlyFrame

(* There is room on the stack: at most two records were passed before one  *)
(* that cites another, and that is one of at least the second schema.      *)
LEMMA OrderlyWalk ==
  ASSUME AdmissionInv, Orderly, NEW p \in Sessions, Walk(p)
  PROVE  Orderly'
<1> USE DEF LocalTypes, Proceed
<1> DEFINE r == cursor[p]
<1>1. \A q \in Sessions \ {p} : Same(q)
  BY OthersSame DEF AdmissionInv
<1>2. admission' = admission /\ pc[p] = "walk"
      /\ stage' = stage /\ held' = held /\ asked' = asked
  BY DEF Walk, store
<1>3. /\ Unrewritten(p) /\ LocalTypes
      /\ IsRecord(r) /\ IsSequence(citing[p])
      /\ Descends(admission, r) /\ r.schema + Len(citing[p]) <= 3
  BY <1>2 DEF Orderly, AdmissionInv, CommandInv, WalkInv, Unrewritten
<1>4. Len(citing[p]) \in Nat /\ Len(Append(citing[p], r)) = Len(citing[p]) + 1
  BY <1>3, Appended
<1>5. \A b \in AdmissionIds : admission[b] # NoRecord =>
        Descends(admission, admission[b]) /\ IsRecord(admission[b])
  BY DEF Orderly, AdmissionInv, RegistryInv
<1>6. \/ pc'[p] \in {"refused", "compare"}
      \/ /\ r.source # NoRecord /\ admission[r.source.id] # NoRecord
         /\ cursor'[p] = admission[r.source.id] /\ citing'[p] = Append(citing[p], r)
         /\ pc'[p] = IF Len(citing[p]) = MaxDepth THEN "exhausted" ELSE "walk"
  BY <1>3 DEF Walk
<1>7. Unrewritten(p)'
  <2>1. CASE pc'[p] \in {"refused", "compare"}
    BY <1>2, <1>3, <2>1 DEF Unrewritten
  <2>2. CASE /\ r.source # NoRecord /\ admission[r.source.id] # NoRecord
             /\ cursor'[p] = admission[r.source.id] /\ citing'[p] = Append(citing[p], r)
             /\ pc'[p] = IF Len(citing[p]) = MaxDepth THEN "exhausted" ELSE "walk"
    <3>1. r.schema > 1 /\ r.schema \in 1..3 /\ r.source.id \in AdmissionIds
          /\ cursor'[p].schema < r.schema /\ cursor'[p].schema \in 1..3
          /\ Descends(admission, cursor'[p])
      BY <1>3, <1>5, <2>2 DEF Descends, IsRecord
    <3>2. Len(citing[p]) # MaxDepth
      BY <1>3, <1>4, <3>1, AdmissionAssumption
    <3>3. cursor'[p].schema + Len(citing'[p]) <= 3
      BY <1>3, <1>4, <2>2, <3>1
    <3> QED BY <1>2, <1>3, <2>2, <3>1, <3>2, <3>3 DEF Unrewritten
  <2> QED BY <1>6, <2>1, <2>2
<1>8. DOMAIN admission = AdmissionIds /\ p \in AdmissionIds
  BY DEF AdmissionInv, RegistryInv, AdmissionIds
<1> QED BY <1>1, <1>2, <1>5, <1>7, <1>8, OrderlyFrame

LEMMA OrderlyMake ==
  ASSUME AdmissionInv, Orderly, NEW p \in Sessions, EvaluateProofs(p) \/ Probe(p)
  PROVE  Orderly'
<1> USE DEF LocalTypes, Proceed, Check
<1>1. \A q \in Sessions \ {p} : Same(q)
  BY OthersSame DEF AdmissionInv
<1>2. admission' = admission /\ stage' = stage /\ held' = held /\ asked' = asked
      /\ pc[p] \in {"prove", "probe"} /\ pc'[p] \in {"write", "refused"}
  BY DEF EvaluateProofs, Probe, store, AdmissionInv
<1>3. Unrewritten(p) /\ LocalTypes /\ StageInv(p)
  BY DEF Orderly, AdmissionInv, CommandInv
<1>4. pc'[p] = "write" => Descends(admission, made'[p])
  <2>1. CASE EvaluateProofs(p)
    <3>1. made'[p].source = NoRecord
      BY <1>3, <2>1 DEF EvaluateProofs, Admission
    <3> QED BY <3>1 DEF Descends
  <2>2. CASE Probe(p)
    <3>1. pc[p] = "probe" /\ stage[p] = "source"
      BY <1>3, <2>2 DEF Probe, StageInv
    <3>2. held[p] = admission[asked[p].admission] /\ held[p] # NoRecord
      BY <1>3, <3>1 DEF Unrewritten
    <3>3. /\ made'[p].source.id = asked[p].admission
          /\ made'[p].schema = IF asked[p].kind = "network" THEN 3 ELSE 2
          /\ pc'[p] = "write" => held[p].schema = IF asked[p].kind = "network" THEN 2 ELSE 1
      BY <1>3, <2>2 DEF Probe, Admission, SourceRef
    <3> QED BY <3>2, <3>3 DEF Descends
  <2> QED BY <2>1, <2>2
<1>5. Unrewritten(p)'
  BY <1>2, <1>3, <1>4 DEF Unrewritten
<1>6. \A a \in AdmissionIds : admission[a] # NoRecord => Descends(admission, admission[a])
  BY DEF Orderly
<1>7. DOMAIN admission = AdmissionIds /\ p \in AdmissionIds
  BY DEF AdmissionInv, RegistryInv, AdmissionIds
<1> QED BY <1>1, <1>2, <1>5, <1>6, <1>7, OrderlyFrame

LEMMA OrderlyPublish ==
  ASSUME AdmissionInv, Orderly, NEW p \in Sessions, PublishAdmission(p)
  PROVE  Orderly'
<1> USE DEF LocalTypes, Proceed
<1>1. \A q \in Sessions \ {p} : Same(q)
  BY OthersSame DEF AdmissionInv
<1>2. DOMAIN admission = AdmissionIds /\ p \in AdmissionIds
  BY DEF AdmissionInv, RegistryInv, AdmissionIds
<1>3. Unrewritten(p) /\ LocalTypes /\ MadeInv(p)
  BY DEF Orderly, AdmissionInv, CommandInv
<1>4. /\ pc[p] = "write" /\ pc'[p] = "walk" /\ stage'[p] = "written"
      /\ cursor'[p] = made[p] /\ citing'[p] = <<>>
      /\ admission' = [admission EXCEPT ![p] = made[p]]
  BY <1>3 DEF PublishAdmission
<1>5. admission[p] = NoRecord /\ IsRecord(made[p]) /\ Descends(admission, made[p])
  BY <1>3, <1>4 DEF Unrewritten, MadeInv
<1>6. Descends(admission', made[p])
  BY <1>2, <1>4, <1>5, DescendsKept
<1>7. Unrewritten(p)'
  <2>1. made[p].schema \in 1..3 /\ Len(<<>>) = 0
    BY <1>5 DEF IsRecord
  <2> QED BY <1>4, <1>6, <2>1 DEF Unrewritten
<1> QED BY <1>1, <1>2, <1>4, <1>5, <1>6, <1>7, OrderlyFrame

LEMMA TimeInit == AdmissionsInit => TimeInv
<1> SUFFICES ASSUME AdmissionsInit PROVE TimeInv
  OBVIOUS
<1>1. CASE admission = [a \in AdmissionIds |-> NoRecord]
  BY <1>1 DEF AdmissionsInit, TimeInv, Orderly, Unrewritten, AdmissionIds
<1>2. ASSUME NEW v1 \in Earlier, NEW v2 \in Earlier, v1 # v2,
             admission = EarlierChain(qual, v1, v2)
      PROVE  TimeInv
  <2>1. /\ DOMAIN admission = AdmissionIds /\ v1 \in AdmissionIds
        /\ \A a \in AdmissionIds : admission[a] # NoRecord => a \in {v1, v2}
        /\ admission[v1].source = NoRecord /\ admission[v1].schema = 1
        /\ admission[v2].source.id = v1 /\ admission[v2].schema = 2
    BY <1>2 DEF EarlierChain, Admission, AdmissionIds
  <2>2. admission[v1] # NoRecord
    <3>1. qual \in PythonRuntimeQualification
      BY DEF AdmissionsInit, PythonRuntimeQualification, RuntimeCapsule
    <3> QED BY <1>2, <3>1, FirstRecordAssumption DEF EarlierChain, AdmissionIds
  <2>3. \A p \in Sessions : admission[p] = NoRecord
    BY <1>2, AdmissionAssumption DEF EarlierChain, AdmissionIds
  <2>4. \A a \in AdmissionIds : admission[a] # NoRecord => Descends(admission, admission[a])
    BY <2>1, <2>2 DEF Descends
  <2> QED BY <2>3, <2>4 DEF AdmissionsInit, TimeInv, Orderly, Unrewritten
<1> QED BY <1>1, <1>2 DEF AdmissionsInit

LEMMA TimeStep == AdmissionInv /\ TimeInv /\ [AdmissionsNext]_admissions => TimeInv'
<1> SUFFICES ASSUME AdmissionInv, TimeInv, [AdmissionsNext]_admissions PROVE TimeInv'
  OBVIOUS
<1>1. CASE Rewrite
  BY <1>1 DEF Rewrite, TimeInv
<1>2. CASE UNCHANGED admissions
  BY <1>2 DEF admissions, store, local, TimeInv, Orderly, Unrewritten
<1>3. ASSUME NEW p \in Sessions,
             \/ Admit(p) \/ Walk(p) \/ Compare(p)
             \/ \E kind \in {"containment", "network", "verify"}, a \in AdmissionIds : Begin(p, kind, a)
             \/ LoadInventory(p) \/ EvaluateProofs(p) \/ Probe(p) \/ PublishAdmission(p)
      PROVE  TimeInv'
  <2>1. rewrites' = rewrites
    BY <1>3 DEF Admit, Walk, Compare, Begin, LoadInventory, EvaluateProofs, Probe,
       PublishAdmission
  <2>2. Orderly => Orderly'
    BY <1>3, OrderlyStart, OrderlyBegin, OrderlyWalk, OrderlyMake, OrderlyPublish
  <2> QED BY <2>1, <2>2 DEF TimeInv
<1> QED BY <1>1, <1>2, <1>3 DEF AdmissionsNext

(* Verification follows citations before it compares them, and has no      *)
(* bound of its own: but only a rewritten record can make it use more than *)
(* the three records that a chain has.                                     *)
THEOREM UnrewrittenVerificationsEnd ==
  AdmissionsSpec => [](\A p \in Sessions : pc[p] = "exhausted" => rewrites > 0)
<1>1. TimeInv => \A p \in Sessions : pc[p] = "exhausted" => rewrites > 0
  BY DEF TimeInv, Orderly, Unrewritten
<1> QED BY <1>1, AdmissionInit, AdmissionStep, TimeInit, TimeStep, PTL DEF AdmissionsSpec
-----------------------------------------------------------------------------
(* What one rewrite can do to that: either it closes a cycle, or there are *)
(* still ranks that a verification descends by.                            *)

(* A command writes its own record once.                                   *)
Own(p) ==
  /\ pc[p] = "write" => stage[p] # "written"
  /\ stage[p] # "written" => admission[p] = NoRecord

(* Only such names are cited that no command will give to a record.        *)
Used(a) == a \in Sessions => stage[a] = "written"
Over(rk, r, n) == r.source # NoRecord => Used(r.source.id) /\ rk[r.source.id] < n

RankedCommand(rk, p) ==
  /\ pc[p] \in {"walk", "compare", "probe"} /\ stage[p] = "source" =>
       Used(asked[p].admission) /\ rk[asked[p].admission] <= held[p].schema + 3
  /\ pc[p] = "write" => Over(rk, made[p], made[p].schema + 3)
  /\ pc[p] = "walk" => Over(rk, cursor[p], 6 - Len(citing[p]))
  /\ pc[p] # "exhausted"

Ranked(rk) ==
  /\ rk \in [AdmissionIds -> 1..6]
  /\ \A a \in AdmissionIds : admission[a] # NoRecord =>
       rk[a] <= admission[a].schema + 3 /\ Over(rk, admission[a], rk[a])
  /\ \A p \in Sessions : RankedCommand(rk, p)

Cyclic ==
  \E cycle \in SUBSET {a \in AdmissionIds : admission[a] # NoRecord} :
    /\ cycle # {}
    /\ \A a \in cycle : admission[a].source # NoRecord /\ admission[a].source.id \in cycle

RewrittenInv ==
  /\ \A p \in Sessions : Own(p)
  /\ rewrites = 1 => Cyclic \/ \E rk \in [AdmissionIds -> 1..6] : Ranked(rk)

(* Whoever else writes, a command publishes under its own name alone.      *)
LEMMA OwnStep ==
  ASSUME AdmissionInv, \A p \in Sessions : Own(p), [AdmissionsNext]_admissions
  PROVE  \A p \in Sessions : Own(p)'
<1> USE DEF LocalTypes, Proceed, Check
<1>1. CASE Rewrite
  <2>1. ASSUME NEW p \in Sessions, admission[p] = NoRecord PROVE admission'[p] = NoRecord
    <3>1. CASE admission' = admission
      BY <2>1, <3>1
    <3>2. ASSUME NEW a \in AdmissionIds, admission[a] # NoRecord, NEW r, admission' = [admission EXCEPT ![a] = r]
          PROVE  admission'[p] = NoRecord
      BY <2>1, <3>2
    <3> QED BY <1>1, <3>1, <3>2 DEF Rewrite
  <2>2. pc' = pc /\ stage' = stage
    BY <1>1 DEF Rewrite, local
  <2> QED BY <2>1, <2>2 DEF Own
<1>2. CASE UNCHANGED admissions
  BY <1>2 DEF admissions, store, local, Own
<1>3. ASSUME NEW p \in Sessions,
             \/ Admit(p) \/ Walk(p) \/ Compare(p)
             \/ \E kind \in {"containment", "network", "verify"}, a \in AdmissionIds : Begin(p, kind, a)
             \/ LoadInventory(p) \/ EvaluateProofs(p) \/ Probe(p) \/ PublishAdmission(p)
      PROVE  \A q \in Sessions : Own(q)'
  <2>1. /\ LocalTypes /\ StageInv(p) /\ Own(p)
        /\ DOMAIN admission = AdmissionIds /\ p \in AdmissionIds
    BY DEF AdmissionInv, RegistryInv, CommandInv, AdmissionIds
  <2>2. \A a \in AdmissionIds \ {p} : admission'[a] = admission[a]
    BY <1>3, <2>1 DEF Admit, Walk, Compare, Begin, LoadInventory, EvaluateProofs, Probe,
       PublishAdmission, store
  <2>3. Own(p)'
    <3>1. CASE Admit(p) \/ LoadInventory(p) \/ EvaluateProofs(p) \/ Probe(p)
      <4>1. /\ admission' = admission /\ stage' = stage
            /\ stage[p] # "written"
        BY <2>1, <3>1 DEF Admit, LoadInventory, EvaluateProofs, Probe, store, StageInv
      <4> QED BY <2>1, <4>1 DEF Own
    <3>2. CASE Walk(p) \/ Compare(p)
      <4>1. admission' = admission /\ stage' = stage /\ pc'[p] # "write"
        <5>1. CASE Walk(p)
          BY <2>1, <5>1 DEF Walk, store
        <5>2. CASE Compare(p)
          BY <2>1, <5>2 DEF Compare, store
        <5> QED BY <3>2, <5>1, <5>2
      <4> QED BY <2>1, <4>1 DEF Own
    <3>3. ASSUME NEW kind \in {"containment", "network", "verify"}, NEW a \in AdmissionIds, Begin(p, kind, a)
          PROVE  Own(p)'
      <4>1. admission' = admission /\ stage[p] # "written" /\ pc'[p] # "write"
        BY <2>1, <3>3 DEF Begin, store, StageInv, Load
      <4> QED BY <2>1, <4>1 DEF Own
    <3>4. CASE PublishAdmission(p)
      BY <2>1, <3>4 DEF PublishAdmission, Own
    <3> QED BY <1>3, <3>1, <3>2, <3>3, <3>4
  <2>4. ASSUME NEW q \in Sessions \ {p} PROVE Own(q)'
    <3>1. Same(q) /\ admission'[q] = admission[q] /\ Own(q)
      BY <1>3, <2>1, <2>2, OthersSame DEF AdmissionIds
    <3> QED BY <3>1 DEF Same, Own
  <2> QED BY <2>3, <2>4
<1> QED BY <1>1, <1>2, <1>3 DEF AdmissionsNext

(* No command breaks a cycle: it publishes where there was no record.      *)
LEMMA CyclesStay ==
  ASSUME Cyclic, \A a \in AdmissionIds : admission[a] # NoRecord => admission'[a] = admission[a]
  PROVE  Cyclic'
<1>1. PICK cycle \in SUBSET {a \in AdmissionIds : admission[a] # NoRecord} :
        /\ cycle # {}
        /\ \A a \in cycle : admission[a].source # NoRecord /\ admission[a].source.id \in cycle
  BY DEF Cyclic
<1>2. cycle \in SUBSET {a \in AdmissionIds : admission'[a] # NoRecord}
  BY <1>1
<1>3. \A a \in cycle : admission'[a].source # NoRecord /\ admission'[a].source.id \in cycle
  BY <1>1
<1> QED BY <1>1, <1>2, <1>3 DEF Cyclic

(* A step of a command keeps the ranks that suit what it does.             *)
LEMMA RankedFrame ==
  ASSUME AdmissionInv, NEW rk, Ranked(rk), NEW p \in Sessions, \A q \in Sessions \ {p} : Same(q),
         admission' = admission, \A a \in AdmissionIds : Used(a) => Used(a)',
         RankedCommand(rk, p)'
  PROVE  Ranked(rk)'
<1>1. ASSUME NEW r, IsRecord(r), NEW n, Over(rk, r, n) PROVE Over(rk, r, n)'
  BY <1>1 DEF Over, IsRecord
<1>2. ASSUME NEW a \in AdmissionIds, admission[a] # NoRecord
      PROVE  Over(rk, admission[a], rk[a])'
  <2>1. IsRecord(admission[a]) /\ Over(rk, admission[a], rk[a])
    BY <1>2 DEF AdmissionInv, RegistryInv, Ranked
  <2> QED BY <1>1, <2>1 DEF Over
<1>3. ASSUME NEW q \in Sessions \ {p} PROVE RankedCommand(rk, q)'
  <2>1. Same(q) /\ RankedCommand(rk, q) /\ CommandInv(q)
    BY DEF AdmissionInv, Ranked
  <2>2. pc[q] \in {"walk", "compare", "probe"} /\ stage[q] = "source" =>
          Used(asked[q].admission)' /\ rk[asked[q].admission] <= held[q].schema + 3
    BY <2>1 DEF RankedCommand, CommandInv, StageInv, Same, Used
  <2>3. pc[q] = "write" => Over(rk, made[q], made[q].schema + 3)'
    BY <2>1, <1>1 DEF RankedCommand, CommandInv, MadeInv, Over, IsRecord, Same
  <2>4. pc[q] = "walk" => Over(rk, cursor[q], 6 - Len(citing[q]))'
    BY <2>1 DEF RankedCommand, CommandInv, WalkInv, Over, IsRecord, Same
  <2> QED BY <2>1, <2>2, <2>3, <2>4 DEF RankedCommand, Same
<1> QED BY <1>2, <1>3 DEF Ranked

(* Commands that only begin or compare.                                    *)
LEMMA RankedStart ==
  ASSUME AdmissionInv, NEW rk, Ranked(rk), NEW p \in Sessions,
         Admit(p) \/ LoadInventory(p) \/ Compare(p)
  PROVE  Ranked(rk)'
<1> USE DEF LocalTypes, Proceed, Check
<1>1. \A q \in Sessions \ {p} : Same(q)
  BY OthersSame DEF AdmissionInv
<1>2. RankedCommand(rk, p) /\ LocalTypes /\ StageInv(p)
  BY DEF Ranked, AdmissionInv, CommandInv
<1>3. admission' = admission /\ stage' = stage
  BY DEF Admit, LoadInventory, Compare, store
<1>4. RankedCommand(rk, p)'
  <2>1. CASE Admit(p) \/ LoadInventory(p)
    <3>1. stage[p] # "source" /\ pc'[p] \in {"inventory", "prove", "refused"}
      BY <1>2, <2>1 DEF Admit, LoadInventory, StageInv
    <3> QED BY <1>3, <3>1 DEF RankedCommand
  <2>2. CASE Compare(p)
    <3>1. /\ pc[p] = "compare" /\ pc'[p] \in {"probe", "done", "refused", "compare"}
          /\ held' = held /\ asked' = asked
      BY <1>2, <2>2 DEF Compare
    <3> QED BY <1>2, <1>3, <3>1 DEF RankedCommand, Used
  <2> QED BY <2>1, <2>2
<1>5. \A a \in AdmissionIds : Used(a) => Used(a)'
  BY <1>3 DEF Used
<1> QED BY <1>1, <1>3, <1>4, <1>5, RankedFrame

(* What a command loads ranks high enough for the walk that follows.       *)
LEMMA RankedBegin ==
  ASSUME AdmissionInv, \A q \in Sessions : Own(q), NEW rk, Ranked(rk), NEW p \in Sessions,
         NEW kind \in {"containment", "network", "verify"}, NEW a \in AdmissionIds, Begin(p, kind, a)
  PROVE  Ranked(rk)'
<1> USE DEF LocalTypes, Proceed, Check, Load
<1>1. \A q \in Sessions \ {p} : Same(q)
  BY OthersSame DEF AdmissionInv
<1>2. LocalTypes /\ StageInv(p) /\ admission' = admission
  BY DEF AdmissionInv, CommandInv, Begin, store
<1>3. /\ pc[p] = "idle" /\ pc'[p] = IF admission[a] # NoRecord THEN "walk" ELSE "refused"
      /\ asked'[p].admission = a /\ stage'[p] \in {"verify", "source"}
      /\ stage' = [stage EXCEPT ![p] = stage'[p]]
      /\ held'[p] = admission[a] /\ cursor'[p] = admission[a] /\ citing'[p] = <<>>
  BY <1>2 DEF Begin
<1>4. stage[p] = "none"
  BY <1>2, <1>3 DEF StageInv
<1>5. \A b \in AdmissionIds : Used(b) => Used(b)' /\ b # p
  BY <1>2, <1>3, <1>4 DEF Used
<1>6. RankedCommand(rk, p)'
  <2>1. CASE admission[a] = NoRecord
    BY <1>3, <2>1 DEF RankedCommand
  <2>2. CASE admission[a] # NoRecord
    <3>1. /\ rk \in [AdmissionIds -> 1..6] /\ rk[a] <= admission[a].schema + 3
          /\ Over(rk, admission[a], rk[a]) /\ IsRecord(admission[a])
      BY <2>2 DEF Ranked, AdmissionInv, RegistryInv
    <3>2. Used(a)'
      <4>1. Used(a)
        BY <2>2 DEF Used, Own
      <4> QED BY <1>5, <4>1
    <3>3. Over(rk, admission[a], 6)'
      <4>1. ASSUME admission[a].source # NoRecord
            PROVE  Used(admission[a].source.id)' /\ rk[admission[a].source.id] < 6
        <5>1. /\ admission[a].source.id \in AdmissionIds /\ Used(admission[a].source.id)
              /\ rk[admission[a].source.id] < rk[a] /\ rk[a] \in 1..6
              /\ rk[admission[a].source.id] \in 1..6
          BY <3>1, <4>1 DEF Over, IsRecord
        <5> QED BY <1>2, <1>5, <5>1 DEF Used
      <4> QED BY <1>2, <4>1 DEF Over
    <3>4. Over(rk, cursor[p], 6 - Len(citing[p]))'
      <4>1. 6 - Len(<<>>) = 6
        OBVIOUS
      <4> QED BY <1>2, <1>3, <3>3, <4>1 DEF Over
    <3> QED BY <1>3, <2>2, <3>1, <3>2, <3>4 DEF RankedCommand, Used
  <2> QED BY <2>1, <2>2
<1> QED BY <1>1, <1>2, <1>5, <1>6, RankedFrame

(* There is room on the stack for as many records as there are ranks.      *)
LEMMA RankedWalk ==
  ASSUME AdmissionInv, MaxDepth >= 5, NEW rk, Ranked(rk), NEW p \in Sessions, Walk(p)
  PROVE  Ranked(rk)'
<1> USE DEF LocalTypes, Proceed
<1>0. PICK r, s : r = cursor[p] /\ s = cursor[p].source.id
  OBVIOUS
<1>1. \A q \in Sessions \ {p} : Same(q)
  BY OthersSame DEF AdmissionInv
<1>2. admission' = admission /\ pc[p] = "walk"
      /\ stage' = stage /\ held' = held /\ asked' = asked
  BY DEF Walk, store
<1>3. /\ RankedCommand(rk, p) /\ LocalTypes /\ IsRecord(r) /\ IsSequence(citing[p])
      /\ Over(rk, r, 6 - Len(citing[p])) /\ rk \in [AdmissionIds -> 1..6]
  BY <1>0, <1>2 DEF Ranked, AdmissionInv, CommandInv, WalkInv, RankedCommand
<1>4. Len(citing[p]) \in Nat /\ Len(Append(citing[p], r)) = Len(citing[p]) + 1
  BY <1>3, Appended
<1>5. \/ pc'[p] \in {"refused", "compare"}
      \/ /\ r.source # NoRecord
         /\ cursor'[p] = admission[s] /\ citing'[p] = Append(citing[p], r)
         /\ admission[s] # NoRecord
         /\ pc'[p] = IF Len(citing[p]) = MaxDepth THEN "exhausted" ELSE "walk"
  BY <1>0, <1>3 DEF Walk
<1>6. \A a \in AdmissionIds : Used(a) => Used(a)'
  BY <1>2 DEF Used
<1>7. RankedCommand(rk, p)'
  <2>1. CASE pc'[p] \in {"refused", "compare"}
    BY <1>2, <1>3, <2>1 DEF RankedCommand, Used
  <2>2. CASE /\ r.source # NoRecord
             /\ cursor'[p] = admission[s] /\ citing'[p] = Append(citing[p], r)
             /\ admission[s] # NoRecord
             /\ pc'[p] = IF Len(citing[p]) = MaxDepth THEN "exhausted" ELSE "walk"
    <3>1. s \in AdmissionIds /\ rk[s] \in 1..6 /\ rk[s] < 6 - Len(citing[p])
      BY <1>0, <1>3, <2>2 DEF Over, IsRecord
    <3>2. Len(citing[p]) # MaxDepth
      BY <1>4, <3>1, AdmissionAssumption
    <3>3. Over(rk, admission[s], rk[s]) /\ IsRecord(admission[s])
      BY <2>2, <3>1 DEF Ranked, AdmissionInv, RegistryInv
    <3>4. Over(rk, cursor[p], 6 - Len(citing[p]))'
      <4>1. ASSUME admission[s].source # NoRecord
            PROVE  /\ Used(admission[s].source.id)'
                   /\ rk[admission[s].source.id] < 6 - (Len(citing[p]) + 1)
        <5>1. /\ admission[s].source.id \in AdmissionIds /\ Used(admission[s].source.id)
              /\ rk[admission[s].source.id] < rk[s] /\ rk[admission[s].source.id] \in 1..6
          BY <1>3, <3>3, <4>1 DEF Over, IsRecord
        <5>2. Used(admission[s].source.id)'
          BY <1>2, <1>6, <5>1 DEF Used
        <5>3. rk[admission[s].source.id] < 6 - (Len(citing[p]) + 1)
          <6>1. \A i, k \in 1..6, l \in Nat : i < k /\ k < 6 - l => i < 6 - (l + 1)
            OBVIOUS
          <6> QED BY <1>4, <3>1, <5>1, <6>1
        <5> QED BY <5>2, <5>3
      <4> QED BY <1>2, <1>4, <2>2, <4>1 DEF Over, Used
    <3> QED BY <1>2, <1>3, <2>2, <3>2, <3>4 DEF RankedCommand, Used
  <2> QED BY <1>5, <2>1, <2>2
<1> QED BY <1>1, <1>2, <1>6, <1>7, RankedFrame

(* What a command makes cites a record that was there.                     *)
LEMMA RankedMake ==
  ASSUME AdmissionInv, NEW rk, Ranked(rk), NEW p \in Sessions, EvaluateProofs(p) \/ Probe(p)
  PROVE  Ranked(rk)'
<1> USE DEF LocalTypes, Proceed, Check
<1>1. \A q \in Sessions \ {p} : Same(q)
  BY OthersSame DEF AdmissionInv
<1>2. admission' = admission /\ stage' = stage /\ held' = held /\ asked' = asked
      /\ pc[p] \in {"prove", "probe"} /\ pc'[p] \in {"write", "refused"}
  BY DEF EvaluateProofs, Probe, store, AdmissionInv
<1>3. /\ RankedCommand(rk, p) /\ LocalTypes /\ StageInv(p) /\ HeldInv(p)
      /\ rk \in [AdmissionIds -> 1..6]
  BY DEF Ranked, AdmissionInv, CommandInv
<1>4. pc'[p] = "write" => Over(rk, made[p], made[p].schema + 3)'
  <2>1. CASE EvaluateProofs(p)
    <3>1. made'[p].source = NoRecord
      BY <1>3, <2>1 DEF EvaluateProofs, Admission
    <3> QED BY <3>1 DEF Over
  <2>2. CASE Probe(p)
    <3>1. pc[p] = "probe" /\ stage[p] = "source" /\ asked[p].admission \in AdmissionIds
      BY <1>3, <2>2 DEF Probe, StageInv
    <3>2. /\ Used(asked[p].admission) /\ rk[asked[p].admission] <= held[p].schema + 3
          /\ rk[asked[p].admission] \in 1..6 /\ held[p].schema \in 1..3
      BY <1>3, <3>1 DEF RankedCommand, HeldInv, IsRecord
    <3>3. /\ made'[p].source.id = asked[p].admission
          /\ made'[p].schema = IF asked[p].kind = "network" THEN 3 ELSE 2
          /\ pc'[p] = "write" => held[p].schema = IF asked[p].kind = "network" THEN 2 ELSE 1
      BY <1>3, <2>2 DEF Probe, Admission, SourceRef
    <3>4. pc'[p] = "write" => rk[asked[p].admission] < made'[p].schema + 3
      BY <3>2, <3>3
    <3> QED BY <1>2, <3>2, <3>3, <3>4 DEF Over, Used
  <2> QED BY <2>1, <2>2
<1>5. RankedCommand(rk, p)'
  BY <1>2, <1>4 DEF RankedCommand
<1>6. \A a \in AdmissionIds : Used(a) => Used(a)'
  BY <1>2 DEF Used
<1> QED BY <1>1, <1>2, <1>5, <1>6, RankedFrame

(* A new record ranks just above what it cites.  Nothing cites it yet.     *)
LEMMA RankedPublish ==
  ASSUME AdmissionInv, \A q \in Sessions : Own(q), NEW rk, Ranked(rk), NEW p \in Sessions,
         PublishAdmission(p)
  PROVE  \E rk2 \in [AdmissionIds -> 1..6] : Ranked(rk2)'
<1> USE DEF LocalTypes, Proceed
<1>0. PICK m : m = made[p]
  OBVIOUS
<1> DEFINE rank == IF m.source = NoRecord THEN 1 ELSE rk[m.source.id] + 1
           rk2 == [rk EXCEPT ![p] = rank]
<1>1. \A q \in Sessions \ {p} : Same(q)
  BY OthersSame DEF AdmissionInv
<1>2. DOMAIN admission = AdmissionIds /\ p \in AdmissionIds
  BY DEF AdmissionInv, RegistryInv, AdmissionIds
<1>3. /\ RankedCommand(rk, p) /\ LocalTypes /\ MadeInv(p) /\ Own(p)
      /\ rk \in [AdmissionIds -> 1..6]
  BY DEF Ranked, AdmissionInv, CommandInv
<1>4. /\ pc[p] = "write" /\ pc'[p] = "walk" /\ stage'[p] = "written"
      /\ stage' = [stage EXCEPT ![p] = "written"]
      /\ cursor'[p] = m /\ citing'[p] = <<>>
      /\ admission' = [admission EXCEPT ![p] = m]
  BY <1>0, <1>3 DEF PublishAdmission
<1>5. IsRecord(m) /\ Over(rk, m, m.schema + 3) /\ m.schema \in 1..3
  BY <1>0, <1>3, <1>4 DEF RankedCommand, MadeInv, IsRecord
<1>6. stage[p] # "written" /\ admission[p] = NoRecord
  BY <1>3, <1>4 DEF Own
<1>7. \A a \in AdmissionIds : Used(a) => Used(a)' /\ a # p
  BY <1>3, <1>4, <1>6 DEF Used
<1>8. rank \in 1..6 /\ rank <= m.schema + 3
  <2>1. CASE m.source = NoRecord
    BY <1>5, <2>1
  <2>2. CASE m.source # NoRecord
    <3>1. m.source.id \in AdmissionIds /\ rk[m.source.id] < m.schema + 3
      BY <1>5, <2>2 DEF Over, IsRecord
    <3>2. rk[m.source.id] \in 1..6
      BY <1>3, <3>1
    <3> QED BY <1>5, <2>2, <3>1, <3>2
  <2> QED BY <2>1, <2>2
<1>9. rk2 \in [AdmissionIds -> 1..6] /\ rk2[p] = rank /\ \A a \in AdmissionIds \ {p} : rk2[a] = rk[a]
  <2> HIDE DEF rank
  <2> QED BY <1>2, <1>3, <1>8
<1>10. Over(rk2, m, rank)
  <2>1. ASSUME m.source # NoRecord PROVE Used(m.source.id) /\ rk2[m.source.id] < rank
    <3>1. m.source.id \in AdmissionIds /\ Used(m.source.id)
      BY <1>5, <2>1 DEF Over, IsRecord
    <3>2. rk2[m.source.id] = rk[m.source.id] /\ rk[m.source.id] \in 1..6
      BY <1>3, <1>7, <1>9, <3>1
    <3>3. rank = rk[m.source.id] + 1
      BY <2>1
    <3> HIDE DEF rank, rk2
    <3> QED BY <3>1, <3>2, <3>3
  <2> HIDE DEF rank, rk2
  <2> QED BY <2>1 DEF Over
<1> HIDE DEF rank, rk2
<1>11. ASSUME NEW r, IsRecord(r), NEW n, Over(rk, r, n)
       PROVE  Over(rk2, r, n) /\ (r.source # NoRecord => Used(r.source.id)')
  BY <1>7, <1>9, <1>11 DEF Over, IsRecord
<1>12. ASSUME NEW a \in AdmissionIds, admission'[a] # NoRecord
       PROVE  (rk2[a] <= admission[a].schema + 3 /\ Over(rk2, admission[a], rk2[a]))'
  <2>1. CASE a = p
    BY <1>2, <1>4, <1>7, <1>8, <1>9, <1>10, <1>5, <2>1 DEF Over, IsRecord
  <2>2. CASE a # p
    <3>1. admission'[a] = admission[a] /\ admission[a] # NoRecord
      BY <1>2, <1>4, <1>12, <2>2
    <3>2. IsRecord(admission[a]) /\ rk[a] <= admission[a].schema + 3 /\ Over(rk, admission[a], rk[a])
      BY <3>1 DEF AdmissionInv, RegistryInv, Ranked
    <3> QED BY <1>9, <1>11, <2>2, <3>1, <3>2 DEF Over
  <2> QED BY <2>1, <2>2
<1>13. RankedCommand(rk2, p)'
  <2>1. Over(rk2, m, 6 - Len(<<>>))
    <3>1. 6 - Len(<<>>) = 6
      OBVIOUS
    <3>2. ASSUME m.source # NoRecord PROVE Used(m.source.id) /\ rk2[m.source.id] < 6
      <4>1. /\ m.source.id \in AdmissionIds /\ Used(m.source.id) /\ rk2[m.source.id] < rank
            /\ rk2[m.source.id] \in 1..6
        BY <1>5, <1>9, <1>10, <3>2 DEF Over, IsRecord
      <4> QED BY <1>8, <4>1
    <3> QED BY <3>1, <3>2 DEF Over
  <2>2. Over(rk2, cursor[p], 6 - Len(citing[p]))'
    BY <1>4, <1>5, <1>7, <2>1 DEF Over, IsRecord
  <2> QED BY <1>4, <2>2 DEF RankedCommand
<1>14. ASSUME NEW q \in Sessions \ {p} PROVE RankedCommand(rk2, q)'
  <2>1. Same(q) /\ RankedCommand(rk, q) /\ CommandInv(q)
    BY <1>1 DEF AdmissionInv, Ranked
  <2>2. pc[q] \in {"walk", "compare", "probe"} /\ stage[q] = "source" =>
          Used(asked[q].admission)' /\ rk2[asked[q].admission] <= held[q].schema + 3
    <3>1. SUFFICES ASSUME pc[q] \in {"walk", "compare", "probe"}, stage[q] = "source"
                   PROVE  Used(asked[q].admission)' /\ rk2[asked[q].admission] <= held[q].schema + 3
      OBVIOUS
    <3>2. /\ asked[q].admission \in AdmissionIds /\ Used(asked[q].admission)
          /\ rk[asked[q].admission] <= held[q].schema + 3
      BY <2>1, <3>1 DEF RankedCommand, CommandInv, StageInv
    <3>3. asked'[q] = asked[q] /\ asked[q].admission # p
      BY <1>7, <2>1, <3>2 DEF Same
    <3> QED BY <1>7, <1>9, <3>2, <3>3 DEF Used
  <2>3. pc[q] = "write" => Over(rk2, made[q], made[q].schema + 3)'
    <3>1. SUFFICES ASSUME pc[q] = "write" PROVE Over(rk2, made[q], made[q].schema + 3)'
      OBVIOUS
    <3>2. IsRecord(made[q]) /\ Over(rk, made[q], made[q].schema + 3)
      BY <2>1, <3>1 DEF RankedCommand, CommandInv, MadeInv
    <3> QED BY <1>11, <2>1, <3>2 DEF Over, Used, Same
  <2>4. pc[q] = "walk" => Over(rk2, cursor[q], 6 - Len(citing[q]))'
    <3>1. SUFFICES ASSUME pc[q] = "walk" PROVE Over(rk2, cursor[q], 6 - Len(citing[q]))'
      OBVIOUS
    <3>2. IsRecord(cursor[q]) /\ Over(rk, cursor[q], 6 - Len(citing[q]))
      BY <2>1, <3>1 DEF RankedCommand, CommandInv, WalkInv
    <3> QED BY <1>11, <2>1, <3>2 DEF Over, Used, Same
  <2> QED BY <2>1, <2>2, <2>3, <2>4 DEF RankedCommand, Same
<1> QED BY <1>9, <1>12, <1>13, <1>14 DEF Ranked

(* A variant of a record cites what the record cites, unless that is what  *)
(* was rewritten.                                                          *)
LEMMA VariantsCite ==
  ASSUME RegistryInv, NEW a \in AdmissionIds, admission[a] # NoRecord, NEW r \in Variants(admission[a])
  PROVE  \/ r.source = admission[a].source
         \/ /\ r.schema = admission[a].schema
            /\ \E b \in AdmissionIds : admission[b] # NoRecord /\ r.source.id = b
<1>0. PICK o : o = admission[a]
  OBVIOUS
<1>1. IsRecord(o)
  BY <1>0 DEF RegistryInv
<1>2. \/ \E s \in 1..3 : r = [o EXCEPT !.schema = s]
      \/ \E c \in {[o.checks EXCEPT !["egress"] = "satisfied"],
                 [o.checks EXCEPT !["job"] = "not_implemented"]} :
           r = [o EXCEPT !.checks = c, !.blockers = Blockers(c)]
      \/ r = [o EXCEPT !.blockers = {}]
      \/ \E b \in AdmissionIds : /\ admission[b] # NoRecord
                                 /\ r = [o EXCEPT !.source = [id |-> b, digest |-> admission[b]]]
  <2> DEFINE schemas == {[o EXCEPT !.schema = s] : s \in 1..3}
             checked == {[o EXCEPT !.checks = c, !.blockers = Blockers(c)] :
                           c \in {[o.checks EXCEPT !["egress"] = "satisfied"],
                                  [o.checks EXCEPT !["job"] = "not_implemented"]}}
             unblocked == {[o EXCEPT !.blockers = {}]}
             citing_ == {[o EXCEPT !.source = [id |-> b, digest |-> admission[b]]] :
                          b \in {x \in AdmissionIds : admission[x] # NoRecord}}
  <2>1. r \in schemas \cup checked \cup unblocked \cup citing_
    BY <1>0 DEF Variants
  <2>2. r \in schemas \/ r \in checked \/ r \in unblocked \/ r \in citing_
    <3> HIDE DEF schemas, checked, unblocked, citing_
    <3> QED BY <2>1
  <2> QED BY <2>2, Zenon
<1>3. ASSUME NEW s, r = [o EXCEPT !.schema = s] PROVE r.source = o.source
  BY <1>1, <1>3 DEF IsRecord
<1>4. ASSUME NEW c, r = [o EXCEPT !.checks = c, !.blockers = Blockers(c)] PROVE r.source = o.source
  BY <1>1, <1>4 DEF IsRecord
<1>5. ASSUME r = [o EXCEPT !.blockers = {}] PROVE r.source = o.source
  BY <1>1, <1>5 DEF IsRecord
<1>6. ASSUME NEW b, NEW d, r = [o EXCEPT !.source = [id |-> b, digest |-> d]]
      PROVE  r.schema = o.schema /\ r.source.id = b
  BY <1>1, <1>6 DEF IsRecord
<1>7. CASE \E s \in 1..3 : r = [o EXCEPT !.schema = s]
  BY <1>0, <1>3, <1>7, Zenon
<1>8. CASE \E c \in {[o.checks EXCEPT !["egress"] = "satisfied"],
                    [o.checks EXCEPT !["job"] = "not_implemented"]} :
              r = [o EXCEPT !.checks = c, !.blockers = Blockers(c)]
  BY <1>0, <1>4, <1>8, Zenon
<1>9. CASE \E b \in AdmissionIds : /\ admission[b] # NoRecord
                                    /\ r = [o EXCEPT !.source = [id |-> b, digest |-> admission[b]]]
  BY <1>0, <1>6, <1>9, Zenon
<1> QED BY <1>0, <1>2, <1>5, <1>7, <1>8, <1>9, Zenon

(* Ranks that suit the rewritten registry suit the commands, too: what     *)
(* they hold was read when the schemas were ranks.                         *)
LEMMA RankedRegistry ==
  ASSUME AdmissionInv, Orderly, UNCHANGED local, NEW rk \in [AdmissionIds -> 1..6],
         \A a \in AdmissionIds : admission[a] # NoRecord => rk[a] <= admission[a].schema + 3,
         \A a \in AdmissionIds : admission'[a] # NoRecord =>
           (rk[a] <= admission[a].schema + 3 /\ Over(rk, admission[a], rk[a]))'
  PROVE  Ranked(rk)'
<1>1. \A p \in Sessions : Same(p) /\ \A a \in AdmissionIds : Used(a)' = Used(a)
  BY DEF local, Same, Used
<1>2. ASSUME NEW a \in AdmissionIds, admission[a] # NoRecord
      PROVE  Used(a) /\ rk[a] \in 1..6 /\ rk[a] <= admission[a].schema + 3
  BY <1>2 DEF Orderly, Unrewritten, Used
<1>3. ASSUME NEW r, IsRecord(r), Descends(admission, r)
      PROVE  Over(rk, r, r.schema + 3)
  <2>1. SUFFICES ASSUME r.source # NoRecord
                 PROVE  Used(r.source.id) /\ rk[r.source.id] < r.schema + 3
    BY DEF Over
  <2>2. r.source.id \in AdmissionIds /\ admission[r.source.id] # NoRecord
        /\ admission[r.source.id].schema < r.schema /\ r.schema \in 1..3
        /\ admission[r.source.id].schema \in 1..3
    BY <1>3, <2>1 DEF IsRecord, Descends, AdmissionInv, RegistryInv
  <2> QED BY <1>2, <2>2
<1>4. ASSUME NEW p \in Sessions PROVE RankedCommand(rk, p)'
  <2>1. Unrewritten(p) /\ CommandInv(p) /\ Same(p)
    BY <1>1 DEF Orderly, AdmissionInv
  <2>2. pc[p] \in {"walk", "compare", "probe"} /\ stage[p] = "source" =>
          Used(asked[p].admission) /\ rk[asked[p].admission] <= held[p].schema + 3
    BY <1>2, <2>1 DEF Unrewritten, CommandInv, StageInv
  <2>3. pc[p] = "write" => Over(rk, made[p], made[p].schema + 3)
    BY <1>3, <2>1 DEF Unrewritten, CommandInv, MadeInv
  <2>4. ASSUME pc[p] = "walk" PROVE Over(rk, cursor[p], 6 - Len(citing[p]))
    <3>0. PICK r, l : r = cursor[p] /\ l = Len(citing[p])
      OBVIOUS
    <3>1. /\ IsRecord(r) /\ Descends(admission, r) /\ r.schema + l <= 3 /\ l \in Nat
          /\ r.schema \in 1..3
      <4>1. IsSequence(citing[p])
        BY <2>1, <2>4 DEF CommandInv, WalkInv
      <4>2. Len(citing[p]) \in Nat
        BY <4>1, Appended
      <4> QED BY <2>1, <2>4, <3>0, <4>2 DEF CommandInv, WalkInv, Unrewritten, IsRecord
    <3>2. Over(rk, r, r.schema + 3)
      BY <1>3, <3>1
    <3>3. ASSUME r.source # NoRecord PROVE rk[r.source.id] < 6 - l
      <4>1. r.source.id \in AdmissionIds /\ rk[r.source.id] < r.schema + 3
        BY <3>1, <3>2, <3>3 DEF Over, IsRecord
      <4>2. rk[r.source.id] \in 1..6
        BY <4>1
      <4>3. \A i \in 1..6, k \in 1..3, n \in Nat : i < k + 3 /\ k + n <= 3 => i < 6 - n
        OBVIOUS
      <4> QED BY <3>1, <4>1, <4>2, <4>3
    <3> QED BY <3>0, <3>2, <3>3 DEF Over
  <2>5. pc[p] # "exhausted"
    BY <2>1 DEF Unrewritten
  <2> QED BY <2>1, <2>2, <2>3, <2>4, <2>5 DEF RankedCommand, Over, Used, local
<1> QED BY <1>4 DEF Ranked

(* Who cites the record a, however indirectly: no set of records that is   *)
(* closed under citing leaves a out.                                       *)
Closed(S) == \A x \in S : admission[x].source # NoRecord => admission[x].source.id \in S
Citers(a) ==
  {x \in AdmissionIds :
     /\ admission[x] # NoRecord
     /\ \A S \in SUBSET {y \in AdmissionIds : admission[y] # NoRecord} :
          x \in S /\ Closed(S) => a \in S}

(* Who cites the record a cites on, up to a itself; and who cites a citer  *)
(* is one.                                                                 *)
LEMMA CitersCite ==
  ASSUME AdmissionInv, Orderly, NEW a \in AdmissionIds, admission[a] # NoRecord
  PROVE  /\ a \in Citers(a)
         /\ \A x \in Citers(a) \ {a} : admission[x].source # NoRecord /\ admission[x].source.id \in Citers(a)
         /\ \A x \in AdmissionIds : /\ admission[x] # NoRecord /\ admission[x].source # NoRecord
                                    /\ admission[x].source.id \in Citers(a)
                                    => x \in Citers(a)
<1> DEFINE P == {y \in AdmissionIds : admission[y] # NoRecord}
<1>1. \A x \in P : admission[x].source # NoRecord => admission[x].source.id \in P
  BY DEF AdmissionInv, RegistryInv, IsRecord, Orderly, Descends
<1>2. a \in Citers(a)
  BY DEF Citers
<1>3. ASSUME NEW x \in Citers(a) \ {a}
      PROVE  admission[x].source # NoRecord /\ admission[x].source.id \in Citers(a)
  <2>1. x \in P /\ \A S \in SUBSET P : x \in S /\ Closed(S) => a \in S
    BY DEF Citers
  <2>2. admission[x].source # NoRecord
    <3>1. SUFFICES ASSUME admission[x].source = NoRecord PROVE FALSE
      OBVIOUS
    <3>2. Closed({x}) /\ {x} \in SUBSET P
      BY <2>1, <3>1 DEF Closed
    <3> QED BY <2>1, <3>2
  <2>3. ASSUME NEW S \in SUBSET P, admission[x].source.id \in S, Closed(S)
        PROVE  a \in S
    <3>1. Closed(S \cup {x}) /\ S \cup {x} \in SUBSET P
      BY <2>1, <2>3 DEF Closed
    <3> QED BY <2>1, <3>1
  <2> QED BY <1>1, <2>1, <2>2, <2>3 DEF Citers
<1>4. ASSUME NEW x \in P, admission[x].source # NoRecord, admission[x].source.id \in Citers(a)
      PROVE  x \in Citers(a)
  <2>1. ASSUME NEW S \in SUBSET P, x \in S, Closed(S) PROVE a \in S
    <3>1. admission[x].source.id \in S
      BY <1>4, <2>1 DEF Closed
    <3> QED BY <1>4, <2>1, <3>1 DEF Citers
  <2> QED BY <2>1 DEF Citers
<1> QED BY <1>2, <1>3, <1>4

(* A record that is made to cite another one either is cited by that one,  *)
(* which closes a cycle, or ranks above it, together with its citers.      *)
LEMMA RankedRewrite ==
  ASSUME AdmissionInv, Orderly, Rewrite
  PROVE  Cyclic' \/ \E rk \in [AdmissionIds -> 1..6] : Ranked(rk)'
<1>0. PICK low : low = [x \in AdmissionIds |-> IF admission[x] # NoRecord THEN admission[x].schema ELSE 1]
  OBVIOUS
<1>1. \A x \in AdmissionIds : admission[x] # NoRecord =>
        IsRecord(admission[x]) /\ admission[x].schema \in 1..3 /\ Descends(admission, admission[x])
  BY DEF AdmissionInv, RegistryInv, IsRecord, Orderly
<1>2. DOMAIN admission = AdmissionIds /\ UNCHANGED local
  BY DEF AdmissionInv, RegistryInv, Rewrite
<1>3. \A x \in AdmissionIds : /\ admission[x] # NoRecord => Used(x)
                              /\ Used(x)' = Used(x)
  BY <1>2 DEF Orderly, Unrewritten, Used, local
<1>4. ASSUME \A x \in AdmissionIds : admission'[x] # NoRecord =>
               /\ admission[x] # NoRecord /\ admission'[x].schema \in 1..3
               /\ admission'[x].source \in {admission[x].source, NoRecord}
      PROVE  \E rk \in [AdmissionIds -> 1..6] : Ranked(rk)'
  <2>1. low \in [AdmissionIds -> 1..6] /\ \A x \in AdmissionIds : low[x] \in 1..3
    BY <1>0, <1>1
  <2>2. \A x \in AdmissionIds : admission[x] # NoRecord => low[x] = admission[x].schema
    BY <1>0
  <2>3. ASSUME NEW x \in AdmissionIds, admission'[x] # NoRecord
        PROVE  (low[x] <= admission[x].schema + 3 /\ Over(low, admission[x], low[x]))'
    <3>1. ASSUME admission'[x].source # NoRecord
          PROVE  Used(admission[x].source.id)' /\ low[admission'[x].source.id] < low[x]
      <4>1. PICK s \in AdmissionIds : /\ s = admission[x].source.id /\ s = admission'[x].source.id
                                      /\ admission[s] # NoRecord
                                      /\ admission[s].schema < admission[x].schema
        BY <1>1, <1>4, <2>3, <3>1 DEF IsRecord, Descends
      <4> QED BY <1>3, <1>4, <2>2, <2>3, <4>1 DEF Used
    <3>2. low[x] <= admission'[x].schema + 3
      BY <1>4, <2>1, <2>3
    <3> QED BY <3>1, <3>2 DEF Over
  <2>4. \A x \in AdmissionIds : admission[x] # NoRecord => low[x] <= admission[x].schema + 3
    BY <1>1, <2>2
  <2> QED BY <1>2, <2>1, <2>3, <2>4, RankedRegistry
<1>5. CASE admission' = admission
  BY <1>1, <1>4, <1>5
<1>6. ASSUME NEW a \in AdmissionIds, admission[a] # NoRecord, NEW r \in Variants(admission[a]),
             admission' = [admission EXCEPT ![a] = r]
      PROVE  Cyclic' \/ \E rk \in [AdmissionIds -> 1..6] : Ranked(rk)'
  <2>1. IsRecord(r) /\ r.schema \in 1..3
    BY <1>6, VariantsAreRecords DEF AdmissionInv, IsRecord
  <2>2. admission'[a] = r /\ \A x \in AdmissionIds \ {a} : admission'[x] = admission[x]
    BY <1>2, <1>6
  <2>3. CASE r = NoRecord \/ r.source \in {admission[a].source, NoRecord}
    BY <1>1, <1>4, <1>6, <2>1, <2>2, <2>3
  <2>4. CASE r # NoRecord /\ r.source \notin {admission[a].source, NoRecord}
    <3>1. PICK b \in AdmissionIds : admission[b] # NoRecord /\ r.source.id = b /\ r.schema = admission[a].schema
      BY <1>6, <2>4, VariantsCite DEF AdmissionInv
    <3>2. PICK U : /\ U = Citers(a) /\ a \in U
                   /\ \A x \in U \ {a} : admission[x].source # NoRecord /\ admission[x].source.id \in U
                   /\ \A x \in AdmissionIds : /\ admission[x] # NoRecord /\ admission[x].source # NoRecord
                                              /\ admission[x].source.id \in U
                                              => x \in U
      BY <1>6, CitersCite
    <3>3. CASE b \in U
      <4>1. U \in SUBSET {x \in AdmissionIds : admission'[x] # NoRecord} /\ U # {}
        BY <2>2, <2>4, <3>2 DEF Citers
      <4>2. \A x \in U : admission'[x].source # NoRecord /\ admission'[x].source.id \in U
        BY <2>2, <2>4, <3>1, <3>2, <3>3, <4>1
      <4> QED BY <4>1, <4>2 DEF Cyclic
    <3>4. CASE b \notin U
      <4>0. PICK rk : rk = [x \in AdmissionIds |-> IF x \in U THEN low[x] + 3 ELSE low[x]]
        OBVIOUS
      <4>1. /\ rk \in [AdmissionIds -> 1..6]
            /\ \A x \in AdmissionIds : low[x] \in 1..3 /\ rk[x] <= low[x] + 3
            /\ \A x \in AdmissionIds : rk[x] = IF x \in U THEN low[x] + 3 ELSE low[x]
        <5>1. \A x \in AdmissionIds : low[x] \in 1..3
          BY <1>0, <1>1
        <5> QED BY <4>0, <5>1
      <4>2. \A x \in AdmissionIds : admission[x] # NoRecord => low[x] = admission[x].schema
        BY <1>0
      <4>3. ASSUME NEW x \in AdmissionIds, admission'[x] # NoRecord
            PROVE  (rk[x] <= admission[x].schema + 3 /\ Over(rk, admission[x], rk[x]))'
        <5>1. admission[x] # NoRecord /\ admission'[x].schema = admission[x].schema
          BY <1>6, <2>2, <3>1, <4>3
        <5>2. ASSUME admission'[x].source # NoRecord
              PROVE  Used(admission[x].source.id)' /\ rk[admission'[x].source.id] < rk[x]
          <6>1. CASE x = a
            <7>1. rk[a] = low[a] + 3 /\ rk[b] = low[b] /\ low[a] \in 1..3 /\ low[b] \in 1..3
              BY <3>2, <3>4, <4>1
            <7>2. admission'[x].source.id = b
              BY <2>2, <3>1, <6>1
            <7> QED BY <1>3, <3>1, <6>1, <7>1, <7>2 DEF Used
          <6>2. CASE x # a
            <7>1. PICK s \in AdmissionIds : /\ s = admission[x].source.id /\ s = admission'[x].source.id
                                            /\ admission[s] # NoRecord
                                            /\ admission[s].schema < admission[x].schema
              BY <1>1, <2>2, <5>1, <5>2, <6>2 DEF IsRecord, Descends
            <7>2. s \in U => x \in U
              BY <2>2, <3>2, <5>1, <5>2, <6>2, <7>1
            <7>3. rk[s] < rk[x]
              BY <4>1, <4>2, <5>1, <7>1, <7>2
            <7> QED BY <1>3, <7>1, <7>3 DEF Used
          <6> QED BY <6>1, <6>2
        <5>3. rk[x] <= admission'[x].schema + 3
          BY <4>1, <4>2, <5>1
        <5> QED BY <5>2, <5>3 DEF Over
      <4>4. \A x \in AdmissionIds : admission[x] # NoRecord => rk[x] <= admission[x].schema + 3
        BY <4>1, <4>2
      <4> QED BY <1>2, <4>1, <4>3, <4>4, RankedRegistry
    <3> QED BY <3>3, <3>4
  <2> QED BY <2>3, <2>4
<1> QED BY <1>5, <1>6 DEF Rewrite

(* At first nothing has been rewritten.                                    *)
LEMMA RewrittenInit == AdmissionsInit => RewrittenInv
<1> SUFFICES ASSUME AdmissionsInit PROVE RewrittenInv
  OBVIOUS
<1>1. rewrites = 0 /\ \A p \in Sessions : pc[p] = "idle"
  BY DEF AdmissionsInit
<1>2. Orderly
  BY <1>1, TimeInit DEF TimeInv
<1> QED BY <1>1, <1>2 DEF RewrittenInv, Own, Orderly, Unrewritten

(* Each step keeps the ranks, or the cycle.                                *)
LEMMA RewrittenStep ==
  ASSUME MaxDepth >= 5, AdmissionInv, TimeInv, RewrittenInv, [AdmissionsNext]_admissions
  PROVE  RewrittenInv'
<1>1. \A p \in Sessions : Own(p)'
  BY OwnStep DEF RewrittenInv
<1>2. CASE Rewrite
  <2>1. rewrites' = 1 => rewrites = 0
    BY <1>2 DEF Rewrite, TimeInv
  <2> QED BY <1>1, <1>2, <2>1, RankedRewrite DEF RewrittenInv, TimeInv
<1>3. CASE UNCHANGED admissions
  <2>1. Cyclic' = Cyclic /\ rewrites' = rewrites /\ UNCHANGED <<admission, local>>
    BY <1>3 DEF admissions, store, Cyclic
  <2>2. ASSUME NEW rk, Ranked(rk) PROVE Ranked(rk)'
    BY <2>1, <2>2 DEF Ranked, RankedCommand, Over, Used, local
  <2> QED BY <1>1, <2>1, <2>2 DEF RewrittenInv
<1>4. ASSUME NEW p \in Sessions,
             \/ Admit(p) \/ Walk(p) \/ Compare(p)
             \/ \E kind \in {"containment", "network", "verify"}, a \in AdmissionIds : Begin(p, kind, a)
             \/ LoadInventory(p) \/ EvaluateProofs(p) \/ Probe(p) \/ PublishAdmission(p)
      PROVE  RewrittenInv'
  <2>1. rewrites' = rewrites
    BY <1>4 DEF Admit, Walk, Compare, Begin, LoadInventory, EvaluateProofs, Probe,
       PublishAdmission
  <2>2. \A a \in AdmissionIds : admission[a] # NoRecord => admission'[a] = admission[a]
    <3>1. DOMAIN admission = AdmissionIds /\ Own(p)
      BY DEF AdmissionInv, RegistryInv, RewrittenInv
    <3>2. CASE PublishAdmission(p)
      <4>1. admission[p] = NoRecord /\ admission' = [admission EXCEPT ![p] = made[p]]
        BY <3>1, <3>2 DEF PublishAdmission, Own
      <4> QED BY <3>1, <4>1
    <3>3. CASE ~PublishAdmission(p)
      BY <1>4, <3>3 DEF Admit, Walk, Compare, Begin, LoadInventory, EvaluateProofs, Probe, store
    <3> QED BY <3>2, <3>3
  <2>3. ASSUME NEW rk \in [AdmissionIds -> 1..6], Ranked(rk)
        PROVE  \E rk2 \in [AdmissionIds -> 1..6] : Ranked(rk2)'
    BY <1>4, <2>3, RankedStart, RankedBegin, RankedWalk, RankedMake, RankedPublish DEF RewrittenInv
  <2>4. Cyclic => Cyclic'
    BY <2>2, CyclesStay
  <2> QED BY <1>1, <2>1, <2>3, <2>4 DEF RewrittenInv
<1> QED BY <1>2, <1>3, <1>4 DEF AdmissionsNext

(* However many sessions and records there are: a verification that does   *)
(* not end after one rewrite goes round a cycle which that rewrite closed, *)
(* on a stack that has room for the six records there can be otherwise.    *)
THEOREM OneRewriteClosesACycle ==
  ASSUME MaxDepth >= 5
  PROVE  AdmissionsSpec => [](rewrites <= 1 => OnlyCyclesNeverEnd)
<1> DEFINE Inv == AdmissionInv /\ TimeInv /\ RewrittenInv
<1>1. AdmissionsInit => Inv
  BY AdmissionInit, TimeInit, RewrittenInit
<1>2. Inv /\ [AdmissionsNext]_admissions => Inv'
  BY AdmissionStep, TimeStep, RewrittenStep
<1>3. Inv => (rewrites <= 1 => OnlyCyclesNeverEnd)
  <2> SUFFICES ASSUME Inv, rewrites <= 1, NEW p \in Sessions, pc[p] = "exhausted"
               PROVE  rewrites > 0 /\ Cyclic
    BY DEF OnlyCyclesNeverEnd, Cyclic
  <2>1. rewrites # 0
    BY DEF TimeInv, Orderly, Unrewritten
  <2>2. rewrites = 1
    BY <2>1 DEF TimeInv
  <2> QED BY <2>2 DEF RewrittenInv, Ranked, RankedCommand
<1> QED BY <1>1, <1>2, <1>3, PTL DEF AdmissionsSpec

(* So where others rewrite one record at most, only cycles never end.  (A  *)
(* second rewrite could break the cycle before the walk ends.)             *)
THEOREM CyclesAreNeeded ==
  ASSUME MaxDepth >= 5, MaxRewrites <= 1
  PROVE  AdmissionsSpec => []OnlyCyclesNeverEnd
<1>1. AdmissionsInit => rewrites \in Nat /\ rewrites <= MaxRewrites
  BY AdmissionAssumption DEF AdmissionsInit
<1>2. rewrites \in Nat /\ rewrites <= MaxRewrites /\ [AdmissionsNext]_admissions =>
        (rewrites \in Nat /\ rewrites <= MaxRewrites)'
  <2> SUFFICES ASSUME rewrites \in Nat, rewrites <= MaxRewrites, [AdmissionsNext]_admissions
               PROVE  (rewrites \in Nat /\ rewrites <= MaxRewrites)'
    OBVIOUS
  <2>1. CASE Rewrite
    BY <2>1, AdmissionAssumption DEF Rewrite
  <2>2. CASE UNCHANGED admissions
    BY <2>2 DEF admissions
  <2>3. CASE ~Rewrite /\ AdmissionsNext
    BY <2>3 DEF AdmissionsNext, Admit, Walk, Compare, Begin, LoadInventory, EvaluateProofs, Probe,
       PublishAdmission
  <2> QED BY <2>1, <2>2, <2>3
<1>3. rewrites \in Nat /\ rewrites <= MaxRewrites => rewrites <= 1
  BY AdmissionAssumption
<1> QED BY <1>1, <1>2, <1>3, OneRewriteClosesACycle, PTL DEF AdmissionsSpec
=============================================================================
