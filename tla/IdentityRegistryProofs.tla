----------------------- MODULE IdentityRegistryProofs -----------------------
(***************************************************************************)
(* Theorems about IdentityRegistry, for every set of requests, every set   *)
(* of inputs and both values of CommitFirst.                               *)
(*                                                                         *)
(* Uniqueness of the active identifiers is not inductive on committed rows *)
(* alone: two open transactions that hold one key would both be free to    *)
(* commit.  The inductive invariant says it of every row that can still    *)
(* become visible (HeldOnce), and adds where in a handler identifiers can  *)
(* be pending or inserted at all (IdentifiersLast) and in which order they *)
(* move from the session to the table (PassportFirst).  What is committed  *)
(* and answered, and the refinement of GoldenRegistry, follow from DInv.   *)
(***************************************************************************)
EXTENDS IdentityRegistry, TLAPS

\* No two transactions that are open or committed hold the same key.
HeldOnce ==
    \A q, r \in Requests, t \in IdentifierTypes :
        q # r /\ Holds(q, t) /\ Holds(r, t) => ~SameKey(q, r, t)

\* Identifiers are added to the session by the creation of a person, and
\* inserted once the handler has returned.
IdentifiersLast ==
    \A r \in Requests, t \in IdentifierTypes :
        /\ pc[r] \notin {"record", "finish", "done"} => t \notin pending[r]
        /\ pc[r] \notin {"finish", "done"} => t \notin rows[r]

\* An inserted identifier is not pending any more, and once the Emirates ID is
\* inserted neither is the passport.
PassportFirst ==
    \A r \in Requests :
        /\ \A t \in IdentifierTypes : t \in rows[r] => t \notin pending[r]
        /\ "emirates" \in rows[r] => "passport" \notin pending[r]

IInv == TypeOK /\ HeldOnce /\ IdentifiersLast /\ PassportFirst

-----------------------------------------------------------------------------
(* Every action of a request, once for all the step proofs.                *)

LEMMA NextCases ==
    ASSUME Next
    PROVE  \/ \E r \in Requests : Begin(r) \/ Step(r) \/ Fault(r)
           \/ UNCHANGED vars
  BY DEF Next, Terminated

-----------------------------------------------------------------------------
(* Type correctness.                                                       *)

LEMMA InitTypeOK == Init => TypeOK
  BY DEF Init, TypeOK, PCs, Results, Result, NoResult, Statuses, Actions

LEMMA NextTypeOK == TypeOK /\ [Next]_vars => TypeOK'
  <1> SUFFICES ASSUME TypeOK, [Next]_vars
               PROVE  TypeOK'
    OBVIOUS
  <1> USE DEF TypeOK, PCs, Results, Result, NoResult, Statuses, Actions, Rows, IdentifierTypes
  <1>1. ASSUME NEW r \in Requests, Begin(r) PROVE TypeOK'
    BY <1>1 DEF Begin
  <1>2. ASSUME NEW r \in Requests, ExtractRejects(r) PROVE TypeOK'
    BY <1>2 DEF ExtractRejects, Return
  <1>3. ASSUME NEW r \in Requests, ExtractFails(r) PROVE TypeOK'
    BY <1>3 DEF ExtractFails, Return
  <1>4. ASSUME NEW r \in Requests, ExtractRaises(r) PROVE TypeOK'
    BY <1>4 DEF ExtractRaises, Rollback
  <1>5. ASSUME NEW r \in Requests, ExtractSucceeds(r) PROVE TypeOK'
    BY <1>5 DEF ExtractSucceeds, Return
  <1>6. ASSUME NEW r \in Requests, MatchEmirates(r) PROVE TypeOK'
    BY <1>6 DEF MatchEmirates, FindActive
  <1>7. ASSUME NEW r \in Requests, MatchPassport(r) PROVE TypeOK'
    BY <1>7 DEF MatchPassport, FindActive
  <1>8. ASSUME NEW r \in Requests, GetPerson(r) PROVE TypeOK'
    BY <1>8 DEF GetPerson
  <1>9. ASSUME NEW r \in Requests, RefuseDuplicate(r) PROVE TypeOK'
    BY <1>9 DEF RefuseDuplicate, Return
  <1>10. ASSUME NEW r \in Requests, CreatePerson(r) PROVE TypeOK'
    <2>1. rows' \in [Requests -> SUBSET Rows]
      BY <1>10 DEF CreatePerson
    <2>2. pending' \in [Requests -> SUBSET Rows]
      BY <1>10 DEF CreatePerson, Identifiers
    <2>3. result' \in [Requests -> Results]
      BY <1>10 DEF CreatePerson, Return
    <2>4. pc' \in [Requests -> PCs]
      BY <1>10 DEF CreatePerson, Return
    <2>5. QED
      BY <1>10, <2>1, <2>2, <2>3, <2>4 DEF CreatePerson
  <1>11. ASSUME NEW r \in Requests, KeepVerdict(r) PROVE TypeOK'
    BY <1>11 DEF KeepVerdict
  <1>12. ASSUME NEW r \in Requests, RecordDecision(r) PROVE TypeOK'
    BY <1>12 DEF RecordDecision, Return
  <1>13. ASSUME NEW r \in Requests, NEW t \in IdentifierTypes, InsertIdentifier(r, t) PROVE TypeOK'
    BY <1>13 DEF InsertIdentifier
  <1>14. ASSUME NEW r \in Requests, NEW t \in IdentifierTypes, UniqueViolation(r, t) PROVE TypeOK'
    BY <1>14 DEF UniqueViolation, Rollback
  <1>15. ASSUME NEW r \in Requests, FlushRest(r) PROVE TypeOK'
    BY <1>15 DEF FlushRest
  <1>16. ASSUME NEW r \in Requests, Commit(r) PROVE TypeOK'
    BY <1>16 DEF Commit, MayCommit
  <1>17. ASSUME NEW r \in Requests, Respond(r) PROVE TypeOK'
    BY <1>17 DEF Respond
  <1>18. ASSUME NEW r \in Requests, DatabaseFault(r) PROVE TypeOK'
    BY <1>18 DEF DatabaseFault, Rollback
  <1>19. ASSUME NEW r \in Requests, CommitReplyLost(r) PROVE TypeOK'
    BY <1>19 DEF CommitReplyLost, MayCommit
  <1>20. ASSUME NEW r \in Requests, WorkerDies(r) PROVE TypeOK'
    BY <1>20 DEF WorkerDies, Rollback
  <1>21. CASE UNCHANGED vars
    BY <1>21 DEF vars
  <1>22. QED
    BY <1>1, <1>2, <1>3, <1>4, <1>5, <1>6, <1>7, <1>8, <1>9, <1>10, <1>11, <1>12, <1>13, <1>14, <1>15, <1>16, <1>17, <1>18, <1>19, <1>20, <1>21, NextCases
       DEF Step, Fault, Extract, Match, Apply, Finish

-----------------------------------------------------------------------------
(* Where identifiers are, and in which order they move.                    *)

LEMMA InitPlacement == Init => IdentifiersLast /\ PassportFirst
  BY DEF Init, IdentifiersLast, PassportFirst

LEMMA NextIdentifiersLast ==
    TypeOK /\ IdentifiersLast /\ [Next]_vars => IdentifiersLast'
  <1> SUFFICES ASSUME TypeOK, IdentifiersLast, [Next]_vars
               PROVE  IdentifiersLast'
    OBVIOUS
  <1> USE DEF TypeOK, IdentifiersLast, IdentifierTypes
  <1>1. ASSUME NEW r \in Requests, Begin(r) PROVE IdentifiersLast'
    BY <1>1 DEF Begin
  <1>2. ASSUME NEW r \in Requests, ExtractRejects(r) PROVE IdentifiersLast'
    BY <1>2 DEF ExtractRejects, Return
  <1>3. ASSUME NEW r \in Requests, ExtractFails(r) PROVE IdentifiersLast'
    BY <1>3 DEF ExtractFails, Return
  <1>4. ASSUME NEW r \in Requests, ExtractRaises(r) PROVE IdentifiersLast'
    BY <1>4 DEF ExtractRaises, Rollback
  <1>5. ASSUME NEW r \in Requests, ExtractSucceeds(r) PROVE IdentifiersLast'
    BY <1>5 DEF ExtractSucceeds, Return
  <1>6. ASSUME NEW r \in Requests, MatchEmirates(r) PROVE IdentifiersLast'
    BY <1>6 DEF MatchEmirates
  <1>7. ASSUME NEW r \in Requests, MatchPassport(r) PROVE IdentifiersLast'
    BY <1>7 DEF MatchPassport
  <1>8. ASSUME NEW r \in Requests, GetPerson(r) PROVE IdentifiersLast'
    BY <1>8 DEF GetPerson
  <1>9. ASSUME NEW r \in Requests, RefuseDuplicate(r) PROVE IdentifiersLast'
    BY <1>9 DEF RefuseDuplicate, Return
  <1>10. ASSUME NEW r \in Requests, CreatePerson(r) PROVE IdentifiersLast'
    BY <1>10 DEF CreatePerson, Return, Identifiers
  <1>11. ASSUME NEW r \in Requests, KeepVerdict(r) PROVE IdentifiersLast'
    BY <1>11 DEF KeepVerdict
  <1>12. ASSUME NEW r \in Requests, RecordDecision(r) PROVE IdentifiersLast'
    BY <1>12 DEF RecordDecision, Return
  <1>13. ASSUME NEW r \in Requests, NEW t \in IdentifierTypes, InsertIdentifier(r, t) PROVE IdentifiersLast'
    BY <1>13 DEF InsertIdentifier, NextIdentifier
  <1>14. ASSUME NEW r \in Requests, NEW t \in IdentifierTypes, UniqueViolation(r, t) PROVE IdentifiersLast'
    BY <1>14 DEF UniqueViolation, Rollback
  <1>15. ASSUME NEW r \in Requests, FlushRest(r) PROVE IdentifiersLast'
    BY <1>15 DEF FlushRest
  <1>16. ASSUME NEW r \in Requests, Commit(r) PROVE IdentifiersLast'
    BY <1>16 DEF Commit, MayCommit
  <1>17. ASSUME NEW r \in Requests, Respond(r) PROVE IdentifiersLast'
    BY <1>17 DEF Respond
  <1>18. ASSUME NEW r \in Requests, DatabaseFault(r) PROVE IdentifiersLast'
    BY <1>18 DEF DatabaseFault, Rollback
  <1>19. ASSUME NEW r \in Requests, CommitReplyLost(r) PROVE IdentifiersLast'
    BY <1>19 DEF CommitReplyLost, MayCommit
  <1>20. ASSUME NEW r \in Requests, WorkerDies(r) PROVE IdentifiersLast'
    BY <1>20 DEF WorkerDies, Rollback
  <1>21. CASE UNCHANGED vars
    BY <1>21 DEF vars
  <1>22. QED
    BY <1>1, <1>2, <1>3, <1>4, <1>5, <1>6, <1>7, <1>8, <1>9, <1>10, <1>11, <1>12, <1>13, <1>14, <1>15, <1>16, <1>17, <1>18, <1>19, <1>20, <1>21, NextCases
       DEF Step, Fault, Extract, Match, Apply, Finish

LEMMA NextPassportFirst ==
    TypeOK /\ IdentifiersLast /\ PassportFirst /\ [Next]_vars => PassportFirst'
  <1> SUFFICES ASSUME TypeOK, IdentifiersLast, PassportFirst, [Next]_vars
               PROVE  PassportFirst'
    OBVIOUS
  <1> USE DEF TypeOK, IdentifiersLast, PassportFirst, IdentifierTypes
  <1>1. ASSUME NEW r \in Requests, Begin(r) PROVE PassportFirst'
    BY <1>1 DEF Begin
  <1>2. ASSUME NEW r \in Requests, ExtractRejects(r) PROVE PassportFirst'
    BY <1>2 DEF ExtractRejects, Return
  <1>3. ASSUME NEW r \in Requests, ExtractFails(r) PROVE PassportFirst'
    BY <1>3 DEF ExtractFails, Return
  <1>4. ASSUME NEW r \in Requests, ExtractRaises(r) PROVE PassportFirst'
    BY <1>4 DEF ExtractRaises, Rollback
  <1>5. ASSUME NEW r \in Requests, ExtractSucceeds(r) PROVE PassportFirst'
    BY <1>5 DEF ExtractSucceeds, Return
  <1>6. ASSUME NEW r \in Requests, MatchEmirates(r) PROVE PassportFirst'
    BY <1>6 DEF MatchEmirates
  <1>7. ASSUME NEW r \in Requests, MatchPassport(r) PROVE PassportFirst'
    BY <1>7 DEF MatchPassport
  <1>8. ASSUME NEW r \in Requests, GetPerson(r) PROVE PassportFirst'
    BY <1>8 DEF GetPerson
  <1>9. ASSUME NEW r \in Requests, RefuseDuplicate(r) PROVE PassportFirst'
    BY <1>9 DEF RefuseDuplicate, Return
  <1>10. ASSUME NEW r \in Requests, CreatePerson(r) PROVE PassportFirst'
    BY <1>10 DEF CreatePerson, Return, Identifiers
  <1>11. ASSUME NEW r \in Requests, KeepVerdict(r) PROVE PassportFirst'
    BY <1>11 DEF KeepVerdict
  <1>12. ASSUME NEW r \in Requests, RecordDecision(r) PROVE PassportFirst'
    BY <1>12 DEF RecordDecision, Return
  <1>13. ASSUME NEW r \in Requests, NEW t \in IdentifierTypes, InsertIdentifier(r, t) PROVE PassportFirst'
    BY <1>13 DEF InsertIdentifier, NextIdentifier
  <1>14. ASSUME NEW r \in Requests, NEW t \in IdentifierTypes, UniqueViolation(r, t) PROVE PassportFirst'
    BY <1>14 DEF UniqueViolation, Rollback
  <1>15. ASSUME NEW r \in Requests, FlushRest(r) PROVE PassportFirst'
    BY <1>15 DEF FlushRest
  <1>16. ASSUME NEW r \in Requests, Commit(r) PROVE PassportFirst'
    BY <1>16 DEF Commit, MayCommit
  <1>17. ASSUME NEW r \in Requests, Respond(r) PROVE PassportFirst'
    BY <1>17 DEF Respond
  <1>18. ASSUME NEW r \in Requests, DatabaseFault(r) PROVE PassportFirst'
    BY <1>18 DEF DatabaseFault, Rollback
  <1>19. ASSUME NEW r \in Requests, CommitReplyLost(r) PROVE PassportFirst'
    BY <1>19 DEF CommitReplyLost, MayCommit
  <1>20. ASSUME NEW r \in Requests, WorkerDies(r) PROVE PassportFirst'
    BY <1>20 DEF WorkerDies, Rollback
  <1>21. CASE UNCHANGED vars
    BY <1>21 DEF vars
  <1>22. QED
    BY <1>1, <1>2, <1>3, <1>4, <1>5, <1>6, <1>7, <1>8, <1>9, <1>10, <1>11, <1>12, <1>13, <1>14, <1>15, <1>16, <1>17, <1>18, <1>19, <1>20, <1>21, NextCases
       DEF Step, Fault, Extract, Match, Apply, Finish

-----------------------------------------------------------------------------
(* The keys held by transactions that can still become visible.            *)

\* Where no identifier row is inserted, no key is held twice afterwards.
LEMMA NothingNewHeld ==
    ASSUME HeldOnce, req' = req,
           \A q \in Requests, t \in IdentifierTypes : Holds(q, t)' => Holds(q, t)
    PROVE  HeldOnce'
  BY DEF HeldOnce, SameKey, Identifier

LEMMA InitHeldOnce == Init => HeldOnce
  BY DEF Init, HeldOnce, Holds

LEMMA NextHeldOnce ==
    TypeOK /\ IdentifiersLast /\ HeldOnce /\ [Next]_vars => HeldOnce'
  <1> SUFFICES ASSUME TypeOK, IdentifiersLast, HeldOnce, [Next]_vars
               PROVE  HeldOnce'
    OBVIOUS
  <1> USE DEF TypeOK, IdentifiersLast, IdentifierTypes
  <1>1. ASSUME NEW r \in Requests, Begin(r) PROVE HeldOnce'
    BY <1>1, NothingNewHeld DEF Begin, Holds
  <1>2. ASSUME NEW r \in Requests, ExtractRejects(r) PROVE HeldOnce'
    BY <1>2, NothingNewHeld DEF ExtractRejects, Return, Holds
  <1>3. ASSUME NEW r \in Requests, ExtractFails(r) PROVE HeldOnce'
    BY <1>3, NothingNewHeld DEF ExtractFails, Return, Holds
  <1>4. ASSUME NEW r \in Requests, ExtractRaises(r) PROVE HeldOnce'
    BY <1>4, NothingNewHeld DEF ExtractRaises, Rollback, Holds
  <1>5. ASSUME NEW r \in Requests, ExtractSucceeds(r) PROVE HeldOnce'
    BY <1>5, NothingNewHeld DEF ExtractSucceeds, Return, Holds
  <1>6. ASSUME NEW r \in Requests, MatchEmirates(r) PROVE HeldOnce'
    BY <1>6, NothingNewHeld DEF MatchEmirates, Holds
  <1>7. ASSUME NEW r \in Requests, MatchPassport(r) PROVE HeldOnce'
    BY <1>7, NothingNewHeld DEF MatchPassport, Holds
  <1>8. ASSUME NEW r \in Requests, GetPerson(r) PROVE HeldOnce'
    BY <1>8, NothingNewHeld DEF GetPerson, Holds
  <1>9. ASSUME NEW r \in Requests, RefuseDuplicate(r) PROVE HeldOnce'
    BY <1>9, NothingNewHeld DEF RefuseDuplicate, Return, Holds
  <1>10. ASSUME NEW r \in Requests, CreatePerson(r) PROVE HeldOnce'
    BY <1>10, NothingNewHeld DEF CreatePerson, Return, Identifiers, Holds
  <1>11. ASSUME NEW r \in Requests, KeepVerdict(r) PROVE HeldOnce'
    BY <1>11, NothingNewHeld DEF KeepVerdict, Holds
  <1>12. ASSUME NEW r \in Requests, RecordDecision(r) PROVE HeldOnce'
    BY <1>12, NothingNewHeld DEF RecordDecision, Return, Holds
  <1>13. ASSUME NEW r \in Requests, NEW t \in IdentifierTypes, InsertIdentifier(r, t)
        PROVE  HeldOnce'
    <2>1. SUFFICES ASSUME NEW p \in Requests, NEW q \in Requests,
                          NEW u \in IdentifierTypes,
                          p # q, Holds(p, u)', Holds(q, u)', SameKey(p, q, u)'
                   PROVE  FALSE
      BY DEF HeldOnce
    <2>2. SameKey(p, q, u) /\ SameKey(q, p, u)
      BY <1>13, <2>1 DEF InsertIdentifier, SameKey, Identifier
    <2>3. ASSUME NEW x \in Requests, Holds(x, u)', ~(x = r /\ u = t)
          PROVE  Holds(x, u)
      BY <1>13, <2>3 DEF InsertIdentifier, Holds
    <2>4. ASSUME NEW x \in Requests, x # r, Holds(x, t)
          PROVE  ~SameKey(x, r, t)
      BY <1>13, <2>4 DEF InsertIdentifier, Rivals
    <2>5. QED
      BY <2>1, <2>2, <2>3, <2>4 DEF HeldOnce
  <1>14. ASSUME NEW r \in Requests, NEW t \in IdentifierTypes, UniqueViolation(r, t) PROVE HeldOnce'
    BY <1>14, NothingNewHeld DEF UniqueViolation, Rollback, Holds
  <1>15. ASSUME NEW r \in Requests, FlushRest(r) PROVE HeldOnce'
    BY <1>15, NothingNewHeld DEF FlushRest, Holds
  <1>16. ASSUME NEW r \in Requests, Commit(r) PROVE HeldOnce'
    BY <1>16, NothingNewHeld DEF Commit, MayCommit, Holds
  <1>17. ASSUME NEW r \in Requests, Respond(r) PROVE HeldOnce'
    BY <1>17, NothingNewHeld DEF Respond, Holds
  <1>18. ASSUME NEW r \in Requests, DatabaseFault(r) PROVE HeldOnce'
    BY <1>18, NothingNewHeld DEF DatabaseFault, Rollback, Holds
  <1>19. ASSUME NEW r \in Requests, CommitReplyLost(r) PROVE HeldOnce'
    BY <1>19, NothingNewHeld DEF CommitReplyLost, MayCommit, Holds
  <1>20. ASSUME NEW r \in Requests, WorkerDies(r) PROVE HeldOnce'
    BY <1>20, NothingNewHeld DEF WorkerDies, Rollback, Holds
  <1>21. CASE UNCHANGED vars
    BY <1>21, NothingNewHeld DEF vars, Holds
  <1>22. QED
    BY <1>1, <1>2, <1>3, <1>4, <1>5, <1>6, <1>7, <1>8, <1>9, <1>10, <1>11, <1>12, <1>13, <1>14, <1>15, <1>16, <1>17, <1>18, <1>19, <1>20, <1>21, NextCases
       DEF Step, Fault, Extract, Match, Apply, Finish

-----------------------------------------------------------------------------
(* The theorems.                                                           *)

LEMMA Invariance == Spec => []IInv
  <1>1. Init => IInv
    BY InitTypeOK, InitPlacement, InitHeldOnce DEF IInv
  <1>2. IInv /\ [Next]_vars => IInv'
    BY NextTypeOK, NextIdentifiersLast, NextPassportFirst, NextHeldOnce DEF IInv
  <1>3. QED
    BY <1>1, <1>2, PTL DEF Spec

\* Every variable keeps its type (TypeOK), whatever requests are sent.
THEOREM TypeCorrectness == Spec => []TypeOK
  <1>1. IInv => TypeOK
    BY DEF IInv
  <1>2. QED
    BY <1>1, Invariance, PTL

\* No interleaving of any number of requests, with faults and crashes, commits
\* one active identifier to two persons of a tenant.
THEOREM Uniqueness == Spec => []UniqueActiveIdentifier
  <1>1. IInv => UniqueActiveIdentifier
    BY DEF IInv, HeldOnce, Holds, UniqueActiveIdentifier, Committed, TypeOK
  <1>2. QED
    BY <1>1, Invariance, PTL

\* No two transactions ever wait for each other's identifier rows, so the
\* database never has to break a deadlock by failing one of them.
THEOREM LockOrder == Spec => []NoLockCycle
  <1>1. ASSUME IInv, NEW q \in Requests, NEW r \in Requests,
               WaitsFor(q, r), WaitsFor(r, q)
        PROVE  FALSE
    <2>1. PICK t \in IdentifierTypes : NextIdentifier(q, t) /\ r \in Rivals(q, t)
      BY <1>1 DEF WaitsFor
    <2>2. PICK u \in IdentifierTypes : NextIdentifier(r, u) /\ q \in Rivals(r, u)
      BY <1>1 DEF WaitsFor
    <2>3. t \in rows[r] /\ t \in pending[q] /\ u \in rows[q] /\ u \in pending[r]
      BY <2>1, <2>2 DEF NextIdentifier, Rivals, Holds
    <2>4. t # u
      BY <1>1, <2>3 DEF IInv, PassportFirst
    <2>5. QED
      BY <1>1, <2>3, <2>4 DEF IInv, PassportFirst, IdentifierTypes
  <1>2. IInv => NoLockCycle
    BY <1>1 DEF NoLockCycle
  <1>3. QED
    BY <1>2, Invariance, PTL

-----------------------------------------------------------------------------
(***************************************************************************)
(* An automatic match rests on sufficient evidence: AutoMatchSound holds   *)
(* in every reachable state of IdentityRegistry.                           *)
(*                                                                         *)
(* The verdict is reached in several SELECTs, so what the first of them    *)
(* found has to be carried to the last (Candidate), and what they saw must *)
(* still be there when the verdict is used: the person whose identifier    *)
(* was found is visible with it (PersonFirst), and a visible person stays  *)
(* visible (VisibleStays).                                                 *)
(***************************************************************************)

\* An identifier is only added once the person it names is inserted.
PersonFirst ==
    \A r \in Requests, t \in IdentifierTypes :
        t \in rows[r] \/ t \in pending[r] => "person" \in rows[r]

\* A request has no transaction before its handler starts.
FreshWhenIdle == \A r \in Requests : pc[r] = "idle" => tx[r] = "none"

\* Before the matcher returns there is no verdict, and between its last two
\* SELECTs it has a person with the request's passport.
Candidate ==
    \A r \in Requests :
        /\ pc[r] \in {"idle", "extract", "matchEmirates", "matchPassport", "getPerson"}
             => result[r].action = "none"
        /\ pc[r] = "getPerson"
             => result[r].person \in Requests /\ SameKey(result[r].person, r, "passport")
        /\ result[r].action = "auto_matched" => result[r].person \in Requests

\* What AutoMatchSound asks of the person p that request r was matched to.
Sufficient(r, p) ==
    /\ PersonVisible(p)
    /\ \/ SameKey(p, r, "emirates")
       \/ /\ SameKey(p, r, "passport")
          /\ req[p].nationality = req[r].nationality
          /\ req[p].birthDate = req[r].birthDate
          /\ NoValue \notin {req[r].nationality, req[r].birthDate}

SufficientMatches ==
    \A r \in Requests :
        result[r].action = "auto_matched" => Sufficient(r, result[r].person)

VInv == FreshWhenIdle /\ PersonFirst /\ Candidate /\ SufficientMatches

-----------------------------------------------------------------------------
(* What a step does to the rows another request has seen.                  *)

LEMMA NextFreshWhenIdle ==
    TypeOK /\ FreshWhenIdle /\ [Next]_vars => FreshWhenIdle'
  <1> SUFFICES ASSUME TypeOK, FreshWhenIdle, [Next]_vars
               PROVE  FreshWhenIdle'
    OBVIOUS
  <1> USE DEF TypeOK, FreshWhenIdle
  <1>1. ASSUME NEW r \in Requests, Begin(r) PROVE FreshWhenIdle'
    BY <1>1 DEF Begin
  <1>2. ASSUME NEW r \in Requests, ExtractRejects(r) PROVE FreshWhenIdle'
    BY <1>2 DEF ExtractRejects, Return
  <1>3. ASSUME NEW r \in Requests, ExtractFails(r) PROVE FreshWhenIdle'
    BY <1>3 DEF ExtractFails, Return
  <1>4. ASSUME NEW r \in Requests, ExtractRaises(r) PROVE FreshWhenIdle'
    BY <1>4 DEF ExtractRaises, Rollback
  <1>5. ASSUME NEW r \in Requests, ExtractSucceeds(r) PROVE FreshWhenIdle'
    BY <1>5 DEF ExtractSucceeds, Return
  <1>6. ASSUME NEW r \in Requests, MatchEmirates(r) PROVE FreshWhenIdle'
    BY <1>6 DEF MatchEmirates
  <1>7. ASSUME NEW r \in Requests, MatchPassport(r) PROVE FreshWhenIdle'
    BY <1>7 DEF MatchPassport
  <1>8. ASSUME NEW r \in Requests, GetPerson(r) PROVE FreshWhenIdle'
    BY <1>8 DEF GetPerson
  <1>9. ASSUME NEW r \in Requests, RefuseDuplicate(r) PROVE FreshWhenIdle'
    BY <1>9 DEF RefuseDuplicate, Return
  <1>10. ASSUME NEW r \in Requests, CreatePerson(r) PROVE FreshWhenIdle'
    BY <1>10 DEF CreatePerson, Return, Identifiers
  <1>11. ASSUME NEW r \in Requests, KeepVerdict(r) PROVE FreshWhenIdle'
    BY <1>11 DEF KeepVerdict
  <1>12. ASSUME NEW r \in Requests, RecordDecision(r) PROVE FreshWhenIdle'
    BY <1>12 DEF RecordDecision, Return
  <1>13. ASSUME NEW r \in Requests, NEW t \in IdentifierTypes, InsertIdentifier(r, t) PROVE FreshWhenIdle'
    BY <1>13 DEF InsertIdentifier, NextIdentifier
  <1>14. ASSUME NEW r \in Requests, NEW t \in IdentifierTypes, UniqueViolation(r, t) PROVE FreshWhenIdle'
    BY <1>14 DEF UniqueViolation, Rollback
  <1>15. ASSUME NEW r \in Requests, FlushRest(r) PROVE FreshWhenIdle'
    BY <1>15 DEF FlushRest
  <1>16. ASSUME NEW r \in Requests, Commit(r) PROVE FreshWhenIdle'
    BY <1>16 DEF Commit, MayCommit
  <1>17. ASSUME NEW r \in Requests, Respond(r) PROVE FreshWhenIdle'
    BY <1>17 DEF Respond
  <1>18. ASSUME NEW r \in Requests, DatabaseFault(r) PROVE FreshWhenIdle'
    BY <1>18 DEF DatabaseFault, Rollback
  <1>19. ASSUME NEW r \in Requests, CommitReplyLost(r) PROVE FreshWhenIdle'
    BY <1>19 DEF CommitReplyLost, MayCommit
  <1>20. ASSUME NEW r \in Requests, WorkerDies(r) PROVE FreshWhenIdle'
    BY <1>20 DEF WorkerDies, Rollback
  <1>21. CASE UNCHANGED vars
    BY <1>21 DEF vars
  <1>22. QED
    BY <1>1, <1>2, <1>3, <1>4, <1>5, <1>6, <1>7, <1>8, <1>9, <1>10, <1>11, <1>12, <1>13, <1>14, <1>15, <1>16, <1>17, <1>18, <1>19, <1>20, <1>21, NextCases
       DEF Step, Fault, Extract, Match, Apply, Finish

LEMMA VisibleStays ==
    TypeOK /\ FreshWhenIdle /\ [Next]_vars
        => req' = req /\ \A p \in Requests : PersonVisible(p) => PersonVisible(p)'
  <1> DEFINE Stays == req' = req /\ \A p \in Requests : PersonVisible(p) => PersonVisible(p)'
  <1> SUFFICES ASSUME TypeOK, FreshWhenIdle, [Next]_vars
               PROVE  Stays
    OBVIOUS
  <1> USE DEF TypeOK, FreshWhenIdle, PersonVisible
  <1>1. ASSUME NEW r \in Requests, Begin(r) PROVE Stays
    BY <1>1 DEF Begin
  <1>2. ASSUME NEW r \in Requests, ExtractRejects(r) PROVE Stays
    BY <1>2 DEF ExtractRejects, Return
  <1>3. ASSUME NEW r \in Requests, ExtractFails(r) PROVE Stays
    BY <1>3 DEF ExtractFails, Return
  <1>4. ASSUME NEW r \in Requests, ExtractRaises(r) PROVE Stays
    BY <1>4 DEF ExtractRaises, Rollback
  <1>5. ASSUME NEW r \in Requests, ExtractSucceeds(r) PROVE Stays
    BY <1>5 DEF ExtractSucceeds, Return
  <1>6. ASSUME NEW r \in Requests, MatchEmirates(r) PROVE Stays
    BY <1>6 DEF MatchEmirates
  <1>7. ASSUME NEW r \in Requests, MatchPassport(r) PROVE Stays
    BY <1>7 DEF MatchPassport
  <1>8. ASSUME NEW r \in Requests, GetPerson(r) PROVE Stays
    BY <1>8 DEF GetPerson
  <1>9. ASSUME NEW r \in Requests, RefuseDuplicate(r) PROVE Stays
    BY <1>9 DEF RefuseDuplicate, Return
  <1>10. ASSUME NEW r \in Requests, CreatePerson(r) PROVE Stays
    BY <1>10 DEF CreatePerson, Return, Identifiers
  <1>11. ASSUME NEW r \in Requests, KeepVerdict(r) PROVE Stays
    BY <1>11 DEF KeepVerdict
  <1>12. ASSUME NEW r \in Requests, RecordDecision(r) PROVE Stays
    BY <1>12 DEF RecordDecision, Return
  <1>13. ASSUME NEW r \in Requests, NEW t \in IdentifierTypes, InsertIdentifier(r, t) PROVE Stays
    BY <1>13 DEF InsertIdentifier, NextIdentifier
  <1>14. ASSUME NEW r \in Requests, NEW t \in IdentifierTypes, UniqueViolation(r, t) PROVE Stays
    BY <1>14 DEF UniqueViolation, Rollback
  <1>15. ASSUME NEW r \in Requests, FlushRest(r) PROVE Stays
    BY <1>15 DEF FlushRest
  <1>16. ASSUME NEW r \in Requests, Commit(r) PROVE Stays
    BY <1>16 DEF Commit, MayCommit
  <1>17. ASSUME NEW r \in Requests, Respond(r) PROVE Stays
    BY <1>17 DEF Respond
  <1>18. ASSUME NEW r \in Requests, DatabaseFault(r) PROVE Stays
    BY <1>18 DEF DatabaseFault, Rollback
  <1>19. ASSUME NEW r \in Requests, CommitReplyLost(r) PROVE Stays
    BY <1>19 DEF CommitReplyLost, MayCommit
  <1>20. ASSUME NEW r \in Requests, WorkerDies(r) PROVE Stays
    BY <1>20 DEF WorkerDies, Rollback
  <1>21. CASE UNCHANGED vars
    BY <1>21 DEF vars
  <1>22. QED
    BY <1>1, <1>2, <1>3, <1>4, <1>5, <1>6, <1>7, <1>8, <1>9, <1>10, <1>11, <1>12, <1>13, <1>14, <1>15, <1>16, <1>17, <1>18, <1>19, <1>20, <1>21, NextCases
       DEF Step, Fault, Extract, Match, Apply, Finish

LEMMA NextPersonFirst ==
    TypeOK /\ PersonFirst /\ [Next]_vars => PersonFirst'
  <1> SUFFICES ASSUME TypeOK, PersonFirst, [Next]_vars
               PROVE  PersonFirst'
    OBVIOUS
  <1> USE DEF TypeOK, PersonFirst, IdentifierTypes
  <1>1. ASSUME NEW r \in Requests, Begin(r) PROVE PersonFirst'
    BY <1>1 DEF Begin
  <1>2. ASSUME NEW r \in Requests, ExtractRejects(r) PROVE PersonFirst'
    BY <1>2 DEF ExtractRejects, Return
  <1>3. ASSUME NEW r \in Requests, ExtractFails(r) PROVE PersonFirst'
    BY <1>3 DEF ExtractFails, Return
  <1>4. ASSUME NEW r \in Requests, ExtractRaises(r) PROVE PersonFirst'
    BY <1>4 DEF ExtractRaises, Rollback
  <1>5. ASSUME NEW r \in Requests, ExtractSucceeds(r) PROVE PersonFirst'
    BY <1>5 DEF ExtractSucceeds, Return
  <1>6. ASSUME NEW r \in Requests, MatchEmirates(r) PROVE PersonFirst'
    BY <1>6 DEF MatchEmirates
  <1>7. ASSUME NEW r \in Requests, MatchPassport(r) PROVE PersonFirst'
    BY <1>7 DEF MatchPassport
  <1>8. ASSUME NEW r \in Requests, GetPerson(r) PROVE PersonFirst'
    BY <1>8 DEF GetPerson
  <1>9. ASSUME NEW r \in Requests, RefuseDuplicate(r) PROVE PersonFirst'
    BY <1>9 DEF RefuseDuplicate, Return
  <1>10. ASSUME NEW r \in Requests, CreatePerson(r) PROVE PersonFirst'
    BY <1>10 DEF CreatePerson, Return, Identifiers
  <1>11. ASSUME NEW r \in Requests, KeepVerdict(r) PROVE PersonFirst'
    BY <1>11 DEF KeepVerdict
  <1>12. ASSUME NEW r \in Requests, RecordDecision(r) PROVE PersonFirst'
    BY <1>12 DEF RecordDecision, Return
  <1>13. ASSUME NEW r \in Requests, NEW t \in IdentifierTypes, InsertIdentifier(r, t) PROVE PersonFirst'
    BY <1>13 DEF InsertIdentifier, NextIdentifier
  <1>14. ASSUME NEW r \in Requests, NEW t \in IdentifierTypes, UniqueViolation(r, t) PROVE PersonFirst'
    BY <1>14 DEF UniqueViolation, Rollback
  <1>15. ASSUME NEW r \in Requests, FlushRest(r) PROVE PersonFirst'
    BY <1>15 DEF FlushRest
  <1>16. ASSUME NEW r \in Requests, Commit(r) PROVE PersonFirst'
    BY <1>16 DEF Commit, MayCommit
  <1>17. ASSUME NEW r \in Requests, Respond(r) PROVE PersonFirst'
    BY <1>17 DEF Respond
  <1>18. ASSUME NEW r \in Requests, DatabaseFault(r) PROVE PersonFirst'
    BY <1>18 DEF DatabaseFault, Rollback
  <1>19. ASSUME NEW r \in Requests, CommitReplyLost(r) PROVE PersonFirst'
    BY <1>19 DEF CommitReplyLost, MayCommit
  <1>20. ASSUME NEW r \in Requests, WorkerDies(r) PROVE PersonFirst'
    BY <1>20 DEF WorkerDies, Rollback
  <1>21. CASE UNCHANGED vars
    BY <1>21 DEF vars
  <1>22. QED
    BY <1>1, <1>2, <1>3, <1>4, <1>5, <1>6, <1>7, <1>8, <1>9, <1>10, <1>11, <1>12, <1>13, <1>14, <1>15, <1>16, <1>17, <1>18, <1>19, <1>20, <1>21, NextCases
       DEF Step, Fault, Extract, Match, Apply, Finish

-----------------------------------------------------------------------------
(* The verdict.                                                            *)

LEMMA NextCandidate ==
    TypeOK /\ Candidate /\ [Next]_vars => Candidate'
  <1> SUFFICES ASSUME TypeOK, Candidate, [Next]_vars
               PROVE  Candidate'
    OBVIOUS
  <1> USE DEF TypeOK, Candidate, SameKey, Identifier, Results, Result, NoResult
  <1>1. ASSUME NEW r \in Requests, Begin(r) PROVE Candidate'
    BY <1>1 DEF Begin
  <1>2. ASSUME NEW r \in Requests, ExtractRejects(r) PROVE Candidate'
    BY <1>2 DEF ExtractRejects, Return
  <1>3. ASSUME NEW r \in Requests, ExtractFails(r) PROVE Candidate'
    BY <1>3 DEF ExtractFails, Return
  <1>4. ASSUME NEW r \in Requests, ExtractRaises(r) PROVE Candidate'
    BY <1>4 DEF ExtractRaises, Rollback
  <1>5. ASSUME NEW r \in Requests, ExtractSucceeds(r) PROVE Candidate'
    BY <1>5 DEF ExtractSucceeds, Return
  <1>6. ASSUME NEW r \in Requests, MatchEmirates(r) PROVE Candidate'
    BY <1>6 DEF MatchEmirates, FindActive
  <1>7. ASSUME NEW r \in Requests, MatchPassport(r) PROVE Candidate'
    BY <1>7 DEF MatchPassport, FindActive
  <1>8. ASSUME NEW r \in Requests, GetPerson(r) PROVE Candidate'
    BY <1>8 DEF GetPerson
  <1>9. ASSUME NEW r \in Requests, RefuseDuplicate(r) PROVE Candidate'
    BY <1>9 DEF RefuseDuplicate, Return
  <1>10. ASSUME NEW r \in Requests, CreatePerson(r) PROVE Candidate'
    BY <1>10 DEF CreatePerson, Return, Identifiers
  <1>11. ASSUME NEW r \in Requests, KeepVerdict(r) PROVE Candidate'
    BY <1>11 DEF KeepVerdict
  <1>12. ASSUME NEW r \in Requests, RecordDecision(r) PROVE Candidate'
    BY <1>12 DEF RecordDecision, Return
  <1>13. ASSUME NEW r \in Requests, NEW t \in IdentifierTypes, InsertIdentifier(r, t) PROVE Candidate'
    BY <1>13 DEF InsertIdentifier, NextIdentifier
  <1>14. ASSUME NEW r \in Requests, NEW t \in IdentifierTypes, UniqueViolation(r, t) PROVE Candidate'
    BY <1>14 DEF UniqueViolation, Rollback
  <1>15. ASSUME NEW r \in Requests, FlushRest(r) PROVE Candidate'
    BY <1>15 DEF FlushRest
  <1>16. ASSUME NEW r \in Requests, Commit(r) PROVE Candidate'
    BY <1>16 DEF Commit, MayCommit
  <1>17. ASSUME NEW r \in Requests, Respond(r) PROVE Candidate'
    BY <1>17 DEF Respond
  <1>18. ASSUME NEW r \in Requests, DatabaseFault(r) PROVE Candidate'
    BY <1>18 DEF DatabaseFault, Rollback
  <1>19. ASSUME NEW r \in Requests, CommitReplyLost(r) PROVE Candidate'
    BY <1>19 DEF CommitReplyLost, MayCommit
  <1>20. ASSUME NEW r \in Requests, WorkerDies(r) PROVE Candidate'
    BY <1>20 DEF WorkerDies, Rollback
  <1>21. CASE UNCHANGED vars
    BY <1>21 DEF vars
  <1>22. QED
    BY <1>1, <1>2, <1>3, <1>4, <1>5, <1>6, <1>7, <1>8, <1>9, <1>10, <1>11, <1>12, <1>13, <1>14, <1>15, <1>16, <1>17, <1>18, <1>19, <1>20, <1>21, NextCases
       DEF Step, Fault, Extract, Match, Apply, Finish

\* What suffices for a match goes on to suffice.
LEMMA EvidenceStays ==
    ASSUME TypeOK, FreshWhenIdle, [Next]_vars,
           NEW r \in Requests, NEW p \in Requests, Sufficient(r, p)
    PROVE  Sufficient(r, p)'
  BY VisibleStays DEF Sufficient, SameKey, Identifier

\* A step that gives no request a new verdict keeps every verdict sound.
LEMMA NoNewVerdict ==
    ASSUME TypeOK, VInv, [Next]_vars,
           \A r \in Requests : result'[r].action = "auto_matched"
               => result[r].action = "auto_matched" /\ result'[r].person = result[r].person
    PROVE  SufficientMatches'
  BY EvidenceStays DEF VInv, Candidate, SufficientMatches

LEMMA NextSufficientMatches ==
    TypeOK /\ VInv /\ [Next]_vars => SufficientMatches'
  <1> SUFFICES ASSUME TypeOK, VInv, [Next]_vars
               PROVE  SufficientMatches'
    OBVIOUS
  <1> USE DEF TypeOK, Results, Result, NoResult
  <1>1. ASSUME NEW r \in Requests, Begin(r) PROVE SufficientMatches'
    BY <1>1, NoNewVerdict DEF Begin
  <1>2. ASSUME NEW r \in Requests, ExtractRejects(r) PROVE SufficientMatches'
    BY <1>2, NoNewVerdict DEF ExtractRejects, Return
  <1>3. ASSUME NEW r \in Requests, ExtractFails(r) PROVE SufficientMatches'
    BY <1>3, NoNewVerdict DEF ExtractFails, Return
  <1>4. ASSUME NEW r \in Requests, ExtractRaises(r) PROVE SufficientMatches'
    BY <1>4, NoNewVerdict DEF ExtractRaises, Rollback
  <1>5. ASSUME NEW r \in Requests, ExtractSucceeds(r) PROVE SufficientMatches'
    BY <1>5, NoNewVerdict DEF ExtractSucceeds, Return
  <1>6. ASSUME NEW r \in Requests, MatchEmirates(r) PROVE SufficientMatches'
    <2>1. CASE FindActive(r, "emirates") # {}
      <3>1. PICK p \in FindActive(r, "emirates") :
                result' = [result EXCEPT ![r] = Result("none", "auto_matched", p)]
        BY <1>6, <2>1 DEF MatchEmirates
      <3>2. p \in Requests /\ Sufficient(r, p)
        BY DEF FindActive, Sufficient, PersonVisible, VInv, PersonFirst, IdentifierTypes
      <3>3. Sufficient(r, p)'
        BY <3>2, EvidenceStays DEF VInv
      <3>4. \A x \in Requests \ {r} : result'[x] = result[x]
        BY <3>1
      <3>5. ASSUME NEW x \in Requests, x # r, result'[x].action = "auto_matched"
            PROVE  Sufficient(x, result[x].person)'
        BY <3>4, <3>5, EvidenceStays DEF VInv, Candidate, SufficientMatches
      <3>6. result'[r].person = p
        BY <3>1
      <3>7. QED
        BY <3>3, <3>5, <3>6 DEF SufficientMatches
    <2>2. CASE FindActive(r, "emirates") = {}
      BY <1>6, <2>2, NoNewVerdict DEF MatchEmirates
    <2>3. QED
      BY <2>1, <2>2
  <1>7. ASSUME NEW r \in Requests, MatchPassport(r) PROVE SufficientMatches'
    BY <1>7, NoNewVerdict DEF MatchPassport, VInv, Candidate
  <1>8. ASSUME NEW r \in Requests, GetPerson(r) PROVE SufficientMatches'
    <2>1. PICK p \in Requests : p = result[r].person /\ SameKey(p, r, "passport")
      BY <1>8 DEF GetPerson, VInv, Candidate
    <2>2. result'[r].person = p /\ \A x \in Requests \ {r} : result'[x] = result[x]
      BY <1>8, <2>1 DEF GetPerson
    <2>3. ASSUME result'[r].action = "auto_matched"
          PROVE  Sufficient(r, p)
      <3>1. /\ PersonVisible(p)
            /\ Agrees(req[p].nationality, req[r].nationality)
            /\ Agrees(req[p].birthDate, req[r].birthDate)
        BY <1>8, <2>1, <2>3 DEF GetPerson
      <3>2. QED
        BY <2>1, <3>1 DEF Sufficient, Agrees
    <2>4. ASSUME result'[r].action = "auto_matched"
          PROVE  Sufficient(r, p)'
      BY <2>1, <2>3, <2>4, EvidenceStays DEF VInv
    <2>5. ASSUME NEW x \in Requests \ {r}, result'[x].action = "auto_matched"
          PROVE  Sufficient(x, result[x].person)'
      BY <2>2, <2>5, EvidenceStays DEF VInv, Candidate, SufficientMatches
    <2>6. QED
      BY <2>2, <2>4, <2>5 DEF SufficientMatches
  <1>9. ASSUME NEW r \in Requests, RefuseDuplicate(r) PROVE SufficientMatches'
    BY <1>9, NoNewVerdict DEF RefuseDuplicate, Return
  <1>10. ASSUME NEW r \in Requests, CreatePerson(r) PROVE SufficientMatches'
    BY <1>10, NoNewVerdict DEF CreatePerson, Return, Identifiers, Matched
  <1>11. ASSUME NEW r \in Requests, KeepVerdict(r) PROVE SufficientMatches'
    BY <1>11, NoNewVerdict DEF KeepVerdict
  <1>12. ASSUME NEW r \in Requests, RecordDecision(r) PROVE SufficientMatches'
    BY <1>12, NoNewVerdict DEF RecordDecision, Return
  <1>13. ASSUME NEW r \in Requests, NEW t \in IdentifierTypes, InsertIdentifier(r, t) PROVE SufficientMatches'
    BY <1>13, NoNewVerdict DEF InsertIdentifier, NextIdentifier
  <1>14. ASSUME NEW r \in Requests, NEW t \in IdentifierTypes, UniqueViolation(r, t) PROVE SufficientMatches'
    BY <1>14, NoNewVerdict DEF UniqueViolation, Rollback
  <1>15. ASSUME NEW r \in Requests, FlushRest(r) PROVE SufficientMatches'
    BY <1>15, NoNewVerdict DEF FlushRest
  <1>16. ASSUME NEW r \in Requests, Commit(r) PROVE SufficientMatches'
    BY <1>16, NoNewVerdict DEF Commit, MayCommit
  <1>17. ASSUME NEW r \in Requests, Respond(r) PROVE SufficientMatches'
    BY <1>17, NoNewVerdict DEF Respond
  <1>18. ASSUME NEW r \in Requests, DatabaseFault(r) PROVE SufficientMatches'
    BY <1>18, NoNewVerdict DEF DatabaseFault, Rollback
  <1>19. ASSUME NEW r \in Requests, CommitReplyLost(r) PROVE SufficientMatches'
    BY <1>19, NoNewVerdict DEF CommitReplyLost, MayCommit
  <1>20. ASSUME NEW r \in Requests, WorkerDies(r) PROVE SufficientMatches'
    BY <1>20, NoNewVerdict DEF WorkerDies, Rollback
  <1>21. CASE UNCHANGED vars
    BY <1>21, NoNewVerdict DEF vars
  <1>22. QED
    BY <1>1, <1>2, <1>3, <1>4, <1>5, <1>6, <1>7, <1>8, <1>9, <1>10, <1>11, <1>12, <1>13, <1>14, <1>15, <1>16, <1>17, <1>18, <1>19, <1>20, <1>21, NextCases
       DEF Step, Fault, Extract, Match, Apply, Finish

LEMMA VerdictInvariance == Spec => [](TypeOK /\ VInv)
  <1>1. Init => VInv
    BY DEF Init, VInv, FreshWhenIdle, PersonFirst, Candidate, SufficientMatches, NoResult, Result, IdentifierTypes
  <1>2. TypeOK /\ VInv /\ [Next]_vars => VInv'
    BY NextFreshWhenIdle, NextPersonFirst, NextCandidate, NextSufficientMatches DEF VInv
  <1>3. QED
    BY <1>1, <1>2, TypeCorrectness, PTL DEF Spec

\* No request is matched automatically on less than an Emirates ID, or a
\* passport with nationality and birth date, of a person that is there:
\* whatever other requests commit between the matcher's SELECTs.
THEOREM MatchSoundness == Spec => []AutoMatchSound
  <1>1. VInv => AutoMatchSound
    BY DEF VInv, SufficientMatches, Sufficient, AutoMatchSound
  <1>2. QED
    BY <1>1, VerdictInvariance, PTL

-----------------------------------------------------------------------------
(***************************************************************************)
(* The second half: what IdentityRegistry commits.  Every committed        *)
(* transaction is whole (CommittedWhole), for both values of CommitFirst,  *)
(* and with the commit before the answer every answer is backed by its     *)
(* audit rows (AnswerIsAudited).                                           *)
(*                                                                         *)
(* Neither is inductive: a transaction is whole when it commits because    *)
(* all that its handler added to the session is either still pending or    *)
(* inserted, and a commit waits for the session to be empty.  So the       *)
(* invariant speaks of pending and inserted rows together (Work), says     *)
(* what they are at each place of a handler (Written), and ties the        *)
(* transaction's state to the handler's (Lifecycle).                       *)
(***************************************************************************)

\* What r's handler has added to its session so far.
Work(r) == rows[r] \cup pending[r]

Extracted == {"extraction", "audit_extract"}

PersonRows(r) == {"person"} \cup Identifiers(r)

\* Where a request is, which kind it is and how far its transaction has come.
Lifecycle(r) ==
    /\ pc[r] = "idle" => tx[r] = "none"
    /\ pc[r] \notin {"idle", "finish", "done"} => tx[r] = "open"
    /\ pc[r] = "finish" => tx[r] \in {"open", "committed"}
    /\ pc[r] = "done" => tx[r] \in {"committed", "aborted"}
    /\ pc[r] \notin {"finish", "done"} => answer[r] = "none"
    /\ pc[r] = "finish" /\ tx[r] = "committed" => answer[r] = "none"
    /\ CommitFirst /\ pc[r] = "finish" => answer[r] = "none"
    /\ CommitFirst /\ answer[r] = "sent" => tx[r] = "committed"
    /\ pc[r] = "extract" => req[r].kind # "create"
    /\ pc[r] = "matchEmirates" => req[r].kind = "create"
    /\ pc[r] \in {"matchPassport", "getPerson", "apply"} => req[r].kind # "extract"
    /\ pc[r] = "record" => req[r].kind = "resolve"

\* The rows that go with the result of a handler that has returned.
RowsOfResult(r) ==
    \/ result[r].status \in {"rejected", "duplicate"} /\ Work(r) = {}
    \/ /\ result[r].status = "unreadable" /\ req[r].kind # "create"
       /\ Work(r) = {"audit_failed"}
    \/ /\ result[r].status = "ok" /\ req[r].kind = "extract"
       /\ Work(r) = Extracted
    \/ /\ result[r].status = "ok" /\ req[r].kind = "resolve"
       /\ Work(r) = Extracted \cup {"match_decision", "audit_resolve"} \cup
                    IF result[r].person = r THEN PersonRows(r) ELSE {}
       /\ result[r].person = r => link[r] = r
    \/ /\ result[r].status = "created" /\ req[r].kind = "create"
       /\ Work(r) = {"audit_create"} \cup PersonRows(r)

\* The rows of a request, by where it is.  The extraction is in the table, and
\* can be linked, once a person has been created and flushed.
Written(r) ==
    /\ tx[r] = "committed" => pending[r] = {}
    /\ tx[r] \in {"none", "aborted"} => Work(r) = {}
    /\ pc[r] \in {"extract", "matchEmirates"} => Work(r) = {}
    /\ pc[r] \in {"matchPassport", "getPerson", "apply"} =>
         rows[r] = {} /\ pending[r] = IF req[r].kind = "create" THEN {} ELSE Extracted
    /\ pc[r] = "record" =>
         /\ Work(r) = Extracted \cup IF result[r].person = r THEN PersonRows(r) ELSE {}
         /\ result[r].person = r => "extraction" \in rows[r]
    /\ pc[r] = "finish" => RowsOfResult(r)
    /\ tx[r] = "committed" /\ answer[r] = "sent" => RowsOfResult(r)

\* Before it has created a person, a request is not its own match.
NotItself(r) ==
    pc[r] \in {"idle", "extract", "matchEmirates", "matchPassport", "getPerson", "apply"}
        => result[r].person # r

\* What a transaction may have come to, whoever is still waiting for its
\* result.
Outcome(r) ==
    \/ Work(r) = {}
    \/ req[r].kind # "create" /\ Work(r) = {"audit_failed"}
    \/ req[r].kind = "extract" /\ Work(r) = Extracted
    \/ /\ req[r].kind = "resolve"
       /\ \/ Work(r) = Extracted \cup {"match_decision", "audit_resolve"}
          \/ /\ Work(r) = Extracted \cup {"match_decision", "audit_resolve"} \cup PersonRows(r)
             /\ link[r] = r
    \/ req[r].kind = "create" /\ Work(r) = {"audit_create"} \cup PersonRows(r)

Whole(r) == Committed(r) => Outcome(r)

DInv == \A r \in Requests : Lifecycle(r) /\ NotItself(r) /\ Written(r) /\ Whole(r)

-----------------------------------------------------------------------------
(* What a step does to one request.                                        *)

LeftAlone(r) ==
    UNCHANGED <<req[r], pc[r], tx[r], pending[r], rows[r], link[r], result[r], answer[r]>>

LEMMA RequestCases ==
    ASSUME TypeOK, [Next]_vars, NEW r \in Requests
    PROVE  \/ Begin(r)
           \/ ExtractRejects(r) \/ ExtractFails(r) \/ ExtractRaises(r) \/ ExtractSucceeds(r)
           \/ MatchEmirates(r) \/ MatchPassport(r) \/ GetPerson(r)
           \/ RefuseDuplicate(r) \/ CreatePerson(r) \/ KeepVerdict(r) \/ RecordDecision(r)
           \/ \E t \in IdentifierTypes : InsertIdentifier(r, t) \/ UniqueViolation(r, t)
           \/ FlushRest(r) \/ Commit(r) \/ Respond(r)
           \/ DatabaseFault(r) \/ CommitReplyLost(r) \/ WorkerDies(r)
           \/ LeftAlone(r)
  <1> USE DEF TypeOK
  <1>1. ASSUME NEW q \in Requests \ {r}, Begin(q) PROVE LeftAlone(r)
    BY <1>1 DEF Begin, LeftAlone
  <1>2. ASSUME NEW q \in Requests \ {r}, Extract(q) PROVE LeftAlone(r)
    BY <1>2 DEF Extract, ExtractRejects, ExtractFails, ExtractRaises, ExtractSucceeds,
                Return, Rollback, LeftAlone
  <1>3. ASSUME NEW q \in Requests \ {r}, Match(q) PROVE LeftAlone(r)
    BY <1>3 DEF Match, MatchEmirates, MatchPassport, GetPerson, LeftAlone
  <1>4. ASSUME NEW q \in Requests \ {r}, Apply(q) PROVE LeftAlone(r)
    BY <1>4 DEF Apply, RefuseDuplicate, CreatePerson, KeepVerdict, RecordDecision, Return, LeftAlone
  <1>5. ASSUME NEW q \in Requests \ {r}, Finish(q) PROVE LeftAlone(r)
    BY <1>5 DEF Finish, InsertIdentifier, UniqueViolation, FlushRest, Commit, Respond,
                Rollback, LeftAlone
  <1>6. ASSUME NEW q \in Requests \ {r}, Fault(q) PROVE LeftAlone(r)
    BY <1>6 DEF Fault, DatabaseFault, CommitReplyLost, WorkerDies, Rollback, LeftAlone
  <1>7. CASE UNCHANGED vars
    BY <1>7 DEF vars, LeftAlone
  <1>8. QED
    BY <1>1, <1>2, <1>3, <1>4, <1>5, <1>6, <1>7, NextCases
       DEF Step, Extract, Match, Apply, Finish, Fault

-----------------------------------------------------------------------------
(* The invariant, request by request.                                      *)

LEMMA NextLifecycle ==
    ASSUME TypeOK, [Next]_vars, NEW r \in Requests, Lifecycle(r)
    PROVE  Lifecycle(r)'
  <1> USE InputAssumption DEF TypeOK, Lifecycle, LeftAlone, InputType, Kinds
  <1>1. CASE Begin(r)
    BY <1>1 DEF Begin
  <1>2. CASE ExtractRejects(r)
    BY <1>2 DEF ExtractRejects, Return
  <1>3. CASE ExtractFails(r)
    BY <1>3 DEF ExtractFails, Return
  <1>4. CASE ExtractRaises(r)
    BY <1>4 DEF ExtractRaises, Rollback, Answered
  <1>5. CASE ExtractSucceeds(r)
    BY <1>5 DEF ExtractSucceeds, Return
  <1>6. CASE MatchEmirates(r)
    BY <1>6 DEF MatchEmirates
  <1>7. CASE MatchPassport(r)
    BY <1>7 DEF MatchPassport
  <1>8. CASE GetPerson(r)
    BY <1>8 DEF GetPerson
  <1>9. CASE RefuseDuplicate(r)
    BY <1>9 DEF RefuseDuplicate, Return
  <1>10. CASE CreatePerson(r)
    BY <1>10 DEF CreatePerson, Return
  <1>11. CASE KeepVerdict(r)
    BY <1>11 DEF KeepVerdict
  <1>12. CASE RecordDecision(r)
    BY <1>12 DEF RecordDecision, Return
  <1>13. ASSUME NEW t \in IdentifierTypes, InsertIdentifier(r, t) PROVE Lifecycle(r)'
    BY <1>13 DEF InsertIdentifier, NextIdentifier
  <1>14. ASSUME NEW t \in IdentifierTypes, UniqueViolation(r, t) PROVE Lifecycle(r)'
    BY <1>14 DEF UniqueViolation, Rollback, Answered
  <1>15. CASE FlushRest(r)
    BY <1>15 DEF FlushRest
  <1>16. CASE Commit(r)
    BY <1>16 DEF Commit, MayCommit, Answered
  <1>17. CASE Respond(r)
    BY <1>17 DEF Respond, MayRespond, Answered
  <1>18. CASE DatabaseFault(r)
    BY <1>18 DEF DatabaseFault, Rollback, Answered
  <1>19. CASE CommitReplyLost(r)
    BY <1>19 DEF CommitReplyLost, MayCommit, Answered
  <1>20. CASE WorkerDies(r)
    BY <1>20 DEF WorkerDies, Rollback, Answered
  <1>21. CASE LeftAlone(r)
    BY <1>21
  <1>22. QED
    BY <1>1, <1>2, <1>3, <1>4, <1>5, <1>6, <1>7, <1>8, <1>9, <1>10, <1>11,
       <1>12, <1>13, <1>14, <1>15, <1>16, <1>17, <1>18, <1>19, <1>20, <1>21, RequestCases

\* The transaction of a request that still matches is open: no SELECT sees it.
LEMMA NextNotItself ==
    ASSUME TypeOK, [Next]_vars, NEW r \in Requests, Lifecycle(r), NotItself(r), Candidate
    PROVE  NotItself(r)'
  <1> USE InputAssumption DEF TypeOK, Lifecycle, NotItself, LeftAlone, Results, Result, NoResult
  <1>1. CASE Begin(r)
    BY <1>1 DEF Begin
  <1>2. CASE ExtractRejects(r)
    BY <1>2 DEF ExtractRejects, Return
  <1>3. CASE ExtractFails(r)
    BY <1>3 DEF ExtractFails, Return
  <1>4. CASE ExtractRaises(r)
    BY <1>4 DEF ExtractRaises, Rollback, Answered
  <1>5. CASE ExtractSucceeds(r)
    BY <1>5 DEF ExtractSucceeds, Return
  <1>6. CASE MatchEmirates(r)
    BY <1>6 DEF MatchEmirates, FindActive
  <1>7. CASE MatchPassport(r)
    BY <1>7 DEF MatchPassport, FindActive
  <1>8. CASE GetPerson(r)
    BY <1>8 DEF GetPerson
  <1>9. CASE RefuseDuplicate(r)
    BY <1>9 DEF RefuseDuplicate, Return
  <1>10. CASE CreatePerson(r)
    BY <1>10 DEF CreatePerson, Return
  <1>11. CASE KeepVerdict(r)
    BY <1>11 DEF KeepVerdict
  <1>12. CASE RecordDecision(r)
    BY <1>12 DEF RecordDecision, Return
  <1>13. ASSUME NEW t \in IdentifierTypes, InsertIdentifier(r, t) PROVE NotItself(r)'
    BY <1>13 DEF InsertIdentifier, NextIdentifier
  <1>14. ASSUME NEW t \in IdentifierTypes, UniqueViolation(r, t) PROVE NotItself(r)'
    BY <1>14 DEF UniqueViolation, Rollback, Answered
  <1>15. CASE FlushRest(r)
    BY <1>15 DEF FlushRest
  <1>16. CASE Commit(r)
    BY <1>16 DEF Commit, MayCommit, Answered
  <1>17. CASE Respond(r)
    BY <1>17 DEF Respond, MayRespond, Answered
  <1>18. CASE DatabaseFault(r)
    BY <1>18 DEF DatabaseFault, Rollback, Answered
  <1>19. CASE CommitReplyLost(r)
    BY <1>19 DEF CommitReplyLost, MayCommit, Answered
  <1>20. CASE WorkerDies(r)
    BY <1>20 DEF WorkerDies, Rollback, Answered
  <1>21. CASE LeftAlone(r)
    BY <1>21
  <1>22. QED
    BY <1>1, <1>2, <1>3, <1>4, <1>5, <1>6, <1>7, <1>8, <1>9, <1>10, <1>11,
       <1>12, <1>13, <1>14, <1>15, <1>16, <1>17, <1>18, <1>19, <1>20, <1>21, RequestCases

\* The identifiers of a request do not change.
LEMMA RowsStay ==
    ASSUME TypeOK, FreshWhenIdle, [Next]_vars, NEW r \in Requests
    PROVE  UNCHANGED <<req, PersonRows(r)>>
  BY VisibleStays DEF PersonRows, Identifiers, Identifier

LEMMA NextWritten ==
    ASSUME TypeOK, [Next]_vars, NEW r \in Requests, Lifecycle(r), NotItself(r), FreshWhenIdle, Written(r)
    PROVE  Written(r)'
  <1> USE InputAssumption DEF TypeOK, Lifecycle, NotItself, Written, Work, LeftAlone, Results, Result, NoResult
  <1>0. UNCHANGED <<req, PersonRows(r)>>
    BY RowsStay
  <1>1. CASE Begin(r)
    BY <1>1 DEF Begin
  <1>2. CASE ExtractRejects(r)
    BY <1>2 DEF ExtractRejects, Return, RowsOfResult
  <1>3. CASE ExtractFails(r)
    BY <1>3 DEF ExtractFails, Return, RowsOfResult
  <1>4. CASE ExtractRaises(r)
    BY <1>4 DEF ExtractRaises, Rollback, Answered
  <1>5. CASE ExtractSucceeds(r)
    <2>1. Work(r) = {} /\ tx[r] = "open" /\ req[r].kind # "create"
      BY <1>5 DEF ExtractSucceeds
    <2>2. rows'[r] = {} /\ pending'[r] = Extracted
      BY <1>5, <2>1 DEF ExtractSucceeds, Extracted
    <2>3. QED
      BY <1>5, <2>1, <2>2 DEF ExtractSucceeds, Return, RowsOfResult
  <1>6. CASE MatchEmirates(r)
    BY <1>6 DEF MatchEmirates
  <1>7. CASE MatchPassport(r)
    BY <1>7 DEF MatchPassport
  <1>8. CASE GetPerson(r)
    BY <1>8 DEF GetPerson
  <1>9. CASE RefuseDuplicate(r)
    BY <1>9 DEF RefuseDuplicate, Return, RowsOfResult
  <1>10. CASE CreatePerson(r)
    <2>1. /\ rows[r] = {} /\ tx[r] = "open" /\ req[r].kind \in {"create", "resolve"}
          /\ pending[r] = IF req[r].kind = "create" THEN {} ELSE Extracted
      BY <1>10 DEF CreatePerson, InputType, Kinds
    <2>2. CASE req[r].kind = "create"
      <3>1. Work(r)' = {"audit_create"} \cup PersonRows(r)
        BY <1>10, <2>1, <2>2 DEF CreatePerson, PersonRows
      <3>2. result'[r].status = "created" /\ pc'[r] = "finish" /\ tx'[r] = "open"
        BY <1>10, <2>1, <2>2 DEF CreatePerson, Return
      <3>3. QED
        BY <3>1, <3>2, <2>2, <1>0 DEF RowsOfResult
    <2>3. CASE req[r].kind = "resolve"
      <3>1. Work(r)' = Extracted \cup PersonRows(r) /\ "extraction" \in rows'[r]
        BY <1>10, <2>1, <2>3 DEF CreatePerson, PersonRows, Extracted
      <3>2. result'[r].person = r /\ pc'[r] = "record" /\ tx'[r] = "open"
        BY <1>10, <2>1, <2>3 DEF CreatePerson
      <3>3. QED
        BY <3>1, <3>2, <2>3, <1>0 DEF RowsOfResult
    <2>4. QED
      BY <2>1, <2>2, <2>3
  <1>11. CASE KeepVerdict(r)
    BY <1>11 DEF KeepVerdict
  <1>12. CASE RecordDecision(r)
    <2>1. /\ tx[r] = "open" /\ req[r].kind = "resolve"
          /\ Work(r) = Extracted \cup IF result[r].person = r THEN PersonRows(r) ELSE {}
          /\ result[r].person = r => "extraction" \in rows[r]
      BY <1>12 DEF RecordDecision
    <2>2. /\ result'[r].status = "ok" /\ result'[r].person = result[r].person
          /\ pc'[r] = "finish" /\ tx'[r] = "open"
          /\ result[r].person = r => link'[r] = r
      BY <1>12, <2>1 DEF RecordDecision, Return
    <2>3. Work(r)' = Work(r) \cup {"match_decision", "audit_resolve"}
      BY <1>12 DEF RecordDecision
    <2>4. QED
      BY <2>1, <2>2, <2>3, <1>0 DEF RowsOfResult
  <1>13. ASSUME NEW t \in IdentifierTypes, InsertIdentifier(r, t) PROVE Written(r)'
    <2>1. Work(r)' = Work(r) /\ UNCHANGED <<pc, tx, result, link, answer>>
      BY <1>13 DEF InsertIdentifier, NextIdentifier
    <2>2. pc[r] = "finish" /\ (tx[r] = "committed" => pending'[r] = {})
      BY <1>13 DEF InsertIdentifier, NextIdentifier
    <2>3. RowsOfResult(r)'
      BY <1>0, <2>1, <2>2 DEF RowsOfResult
    <2>4. QED
      BY <2>1, <2>2, <2>3
  <1>14. ASSUME NEW t \in IdentifierTypes, UniqueViolation(r, t) PROVE Written(r)'
    BY <1>14 DEF UniqueViolation, Rollback, Answered
  <1>15. CASE FlushRest(r)
    <2>1. Work(r)' = Work(r) /\ UNCHANGED <<pc, tx, result, link, answer>>
      BY <1>15 DEF FlushRest
    <2>2. pc[r] = "finish" /\ (tx[r] = "committed" => pending'[r] = {})
      BY <1>15 DEF FlushRest
    <2>3. RowsOfResult(r)'
      BY <1>0, <2>1, <2>2 DEF RowsOfResult
    <2>4. QED
      BY <2>1, <2>2, <2>3
  <1>16. CASE Commit(r)
    <2>1. Work(r)' = Work(r) /\ UNCHANGED <<pending, result, link>>
      BY <1>16 DEF Commit, MayCommit, Answered
    <2>2. pc[r] = "finish"
      BY <1>16 DEF Commit, MayCommit, Answered
    <2>3. RowsOfResult(r)'
      BY <1>0, <2>1, <2>2 DEF RowsOfResult
    <2>4. tx'[r] \in {"open", "committed"} /\ pc'[r] \in {"finish", "done"} /\ (tx'[r] = "committed" => pending'[r] = {})
      BY <1>16, <2>1 DEF Commit, MayCommit, Answered
    <2>5. QED
      BY <2>3, <2>4
  <1>17. CASE Respond(r)
    <2>1. Work(r)' = Work(r) /\ UNCHANGED <<pending, result, link>>
      BY <1>17 DEF Respond, MayRespond, Answered
    <2>2. pc[r] = "finish"
      BY <1>17 DEF Respond, MayRespond, Answered
    <2>3. RowsOfResult(r)'
      BY <1>0, <2>1, <2>2 DEF RowsOfResult
    <2>4. tx'[r] \in {"open", "committed"} /\ pc'[r] \in {"finish", "done"} /\ (tx'[r] = "committed" => pending'[r] = {})
      BY <1>17, <2>1 DEF Respond, MayRespond, Answered
    <2>5. QED
      BY <2>3, <2>4
  <1>18. CASE DatabaseFault(r)
    BY <1>18 DEF DatabaseFault, Rollback, Answered
  <1>19. CASE CommitReplyLost(r)
    <2>1. Work(r)' = Work(r) /\ UNCHANGED <<pending, result, link>>
      BY <1>19 DEF CommitReplyLost, MayCommit, Answered
    <2>2. pc[r] = "finish"
      BY <1>19 DEF CommitReplyLost, MayCommit, Answered
    <2>3. RowsOfResult(r)'
      BY <1>0, <2>1, <2>2 DEF RowsOfResult
    <2>4. tx'[r] \in {"open", "committed"} /\ pc'[r] \in {"finish", "done"} /\ (tx'[r] = "committed" => pending'[r] = {})
      BY <1>19, <2>1 DEF CommitReplyLost, MayCommit, Answered
    <2>5. QED
      BY <2>3, <2>4
  <1>20. CASE WorkerDies(r)
    BY <1>20 DEF WorkerDies, Rollback, Answered
  <1>21. CASE LeftAlone(r)
    BY <1>21, <1>0 DEF RowsOfResult
  <1>22. QED
    BY <1>1, <1>2, <1>3, <1>4, <1>5, <1>6, <1>7, <1>8, <1>9, <1>10, <1>11,
       <1>12, <1>13, <1>14, <1>15, <1>16, <1>17, <1>18, <1>19, <1>20, <1>21, RequestCases

\* What is committed is not touched again.
LEMMA CommittedStays ==
    ASSUME TypeOK, [Next]_vars, NEW r \in Requests, FreshWhenIdle, Lifecycle(r), Written(r), Committed(r)
    PROVE  UNCHANGED <<tx[r], rows[r], pending[r], link[r]>>
  <1> USE DEF TypeOK, FreshWhenIdle, Lifecycle, Written, LeftAlone, Committed
  <1>1. CASE Begin(r)
    BY <1>1 DEF Begin
  <1>2. CASE ExtractRejects(r)
    BY <1>2 DEF ExtractRejects, Return
  <1>3. CASE ExtractFails(r)
    BY <1>3 DEF ExtractFails, Return
  <1>4. CASE ExtractRaises(r)
    BY <1>4 DEF ExtractRaises, Rollback, Answered
  <1>5. CASE ExtractSucceeds(r)
    BY <1>5 DEF ExtractSucceeds, Return
  <1>6. CASE MatchEmirates(r)
    BY <1>6 DEF MatchEmirates
  <1>7. CASE MatchPassport(r)
    BY <1>7 DEF MatchPassport
  <1>8. CASE GetPerson(r)
    BY <1>8 DEF GetPerson
  <1>9. CASE RefuseDuplicate(r)
    BY <1>9 DEF RefuseDuplicate, Return
  <1>10. CASE CreatePerson(r)
    BY <1>10 DEF CreatePerson, Return
  <1>11. CASE KeepVerdict(r)
    BY <1>11 DEF KeepVerdict
  <1>12. CASE RecordDecision(r)
    BY <1>12 DEF RecordDecision, Return
  <1>13. ASSUME NEW t \in IdentifierTypes, InsertIdentifier(r, t) PROVE UNCHANGED <<tx[r], rows[r], pending[r], link[r]>>
    BY <1>13 DEF InsertIdentifier, NextIdentifier
  <1>14. ASSUME NEW t \in IdentifierTypes, UniqueViolation(r, t) PROVE UNCHANGED <<tx[r], rows[r], pending[r], link[r]>>
    BY <1>14 DEF UniqueViolation, Rollback, Answered
  <1>15. CASE FlushRest(r)
    BY <1>15 DEF FlushRest
  <1>16. CASE Commit(r)
    BY <1>16 DEF Commit, MayCommit, Answered
  <1>17. CASE Respond(r)
    BY <1>17 DEF Respond, MayRespond, Answered
  <1>18. CASE DatabaseFault(r)
    BY <1>18 DEF DatabaseFault, Rollback, Answered
  <1>19. CASE CommitReplyLost(r)
    BY <1>19 DEF CommitReplyLost, MayCommit, Answered
  <1>20. CASE WorkerDies(r)
    BY <1>20 DEF WorkerDies, Rollback, Answered
  <1>21. CASE LeftAlone(r)
    BY <1>21
  <1>22. QED
    BY <1>1, <1>2, <1>3, <1>4, <1>5, <1>6, <1>7, <1>8, <1>9, <1>10, <1>11,
       <1>12, <1>13, <1>14, <1>15, <1>16, <1>17, <1>18, <1>19, <1>20, <1>21, RequestCases

LEMMA CommitsOnce ==
    ASSUME TypeOK, [Next]_vars, NEW r \in Requests, FreshWhenIdle, Committed(r)', ~Committed(r), ~Commit(r), ~CommitReplyLost(r)
    PROVE  FALSE
  <1> USE DEF TypeOK, LeftAlone, Committed
  <1>1. CASE Begin(r)
    BY <1>1 DEF Begin
  <1>2. CASE ExtractRejects(r)
    BY <1>2 DEF ExtractRejects, Return
  <1>3. CASE ExtractFails(r)
    BY <1>3 DEF ExtractFails, Return
  <1>4. CASE ExtractRaises(r)
    BY <1>4 DEF ExtractRaises, Rollback, Answered
  <1>5. CASE ExtractSucceeds(r)
    BY <1>5 DEF ExtractSucceeds, Return
  <1>6. CASE MatchEmirates(r)
    BY <1>6 DEF MatchEmirates
  <1>7. CASE MatchPassport(r)
    BY <1>7 DEF MatchPassport
  <1>8. CASE GetPerson(r)
    BY <1>8 DEF GetPerson
  <1>9. CASE RefuseDuplicate(r)
    BY <1>9 DEF RefuseDuplicate, Return
  <1>10. CASE CreatePerson(r)
    BY <1>10 DEF CreatePerson, Return
  <1>11. CASE KeepVerdict(r)
    BY <1>11 DEF KeepVerdict
  <1>12. CASE RecordDecision(r)
    BY <1>12 DEF RecordDecision, Return
  <1>13. ASSUME NEW t \in IdentifierTypes, InsertIdentifier(r, t) PROVE FALSE
    BY <1>13 DEF InsertIdentifier, NextIdentifier
  <1>14. ASSUME NEW t \in IdentifierTypes, UniqueViolation(r, t) PROVE FALSE
    BY <1>14 DEF UniqueViolation, Rollback, Answered
  <1>15. CASE FlushRest(r)
    BY <1>15 DEF FlushRest
  <1>16. CASE Commit(r)
    BY <1>16 DEF Commit, MayCommit, Answered
  <1>17. CASE Respond(r)
    BY <1>17 DEF Respond, MayRespond, Answered
  <1>18. CASE DatabaseFault(r)
    BY <1>18 DEF DatabaseFault, Rollback, Answered
  <1>19. CASE CommitReplyLost(r)
    BY <1>19 DEF CommitReplyLost, MayCommit, Answered
  <1>20. CASE WorkerDies(r)
    BY <1>20 DEF WorkerDies, Rollback, Answered
  <1>21. CASE LeftAlone(r)
    BY <1>21
  <1>22. QED
    BY <1>1, <1>2, <1>3, <1>4, <1>5, <1>6, <1>7, <1>8, <1>9, <1>10, <1>11,
       <1>12, <1>13, <1>14, <1>15, <1>16, <1>17, <1>18, <1>19, <1>20, <1>21, RequestCases

LEMMA ResultHasOutcome ==
    ASSUME NEW r \in Requests, RowsOfResult(r)
    PROVE  Outcome(r)
  BY DEF RowsOfResult, Outcome

\* A transaction commits with the rows of its result, and what is committed
\* is not touched again.
LEMMA NextWhole ==
    ASSUME TypeOK, FreshWhenIdle, [Next]_vars, NEW r \in Requests,
           Lifecycle(r), Written(r), Written(r)', Whole(r)
    PROVE  Whole(r)'
  <1> SUFFICES ASSUME Committed(r)'
               PROVE  Outcome(r)'
    BY DEF Whole
  <1>0. UNCHANGED <<req, PersonRows(r)>>
    BY RowsStay
  <1>1. CASE Committed(r)
    <2>1. UNCHANGED <<rows[r], pending[r], link[r]>>
      BY <1>1, CommittedStays
    <2>2. QED
      BY <1>0, <1>1, <2>1 DEF Whole, Outcome, Work
  <1>2. CASE Commit(r) \/ CommitReplyLost(r)
    <2>1. pc[r] = "finish" /\ UNCHANGED <<rows, pending, link, result>>
      BY <1>2 DEF Commit, CommitReplyLost, MayCommit
    <2>2. Outcome(r)
      BY <2>1, ResultHasOutcome DEF Written
    <2>3. QED
      BY <1>0, <2>1, <2>2 DEF Outcome, Work
  <1>3. QED
    BY <1>1, <1>2, CommitsOnce

LEMMA OutcomeIsWhole == TypeOK /\ (\A r \in Requests : Written(r) /\ Whole(r)) => CommittedWhole
  <1> SUFFICES ASSUME TypeOK, \A r \in Requests : Written(r) /\ Whole(r)
               PROVE  CommittedWhole
    OBVIOUS
  <1>1. ASSUME NEW r \in Requests
        PROVE  req[r].kind = "create" \/ req[r].kind = "resolve" \/ req[r].kind = "extract"
    BY InputAssumption DEF TypeOK, InputType, Kinds
  <1>2. ASSUME NEW r \in Requests, Committed(r)
        PROVE  /\ "person" \in rows[r] => Identifiers(r) \subseteq rows[r]
               /\ rows[r] \cap IdentifierTypes # {} => "person" \in rows[r]
               /\ "extraction" \in rows[r] <=> "audit_extract" \in rows[r]
               /\ req[r].kind = "create" => ("person" \in rows[r] <=> "audit_create" \in rows[r])
               /\ req[r].kind = "resolve" =>
                    /\ "extraction" \in rows[r]
                         => {"match_decision", "audit_resolve"} \subseteq rows[r]
                    /\ "person" \in rows[r] => link[r] = r
               /\ req[r].kind = "extract" =>
                    rows[r] \subseteq {"extraction", "audit_extract", "audit_failed"}
    <2>1. Work(r) = rows[r] /\ Outcome(r)
      BY <1>2 DEF Work, Written, Whole, Committed
    <2>2. Identifiers(r) \subseteq IdentifierTypes /\ IdentifierTypes = {"passport", "emirates"}
      BY DEF Identifiers, IdentifierTypes
    <2>3. QED
      BY <2>1, <2>2 DEF Outcome, PersonRows, Extracted
  <1>3. QED
    BY <1>1, <1>2 DEF CommittedWhole

-----------------------------------------------------------------------------
(* The theorems.                                                           *)

LEMMA InitDInv == Init => DInv
  BY InputAssumption DEF Init, DInv, Lifecycle, NotItself, Written, Whole, Work, Committed,
                         NoResult, Result

LEMMA NextDInv == TypeOK /\ VInv /\ DInv /\ [Next]_vars => DInv'
  BY NextLifecycle, NextNotItself, NextWritten, NextWhole DEF VInv, DInv

LEMMA DurableInvariance == Spec => [](TypeOK /\ VInv /\ DInv)
  BY InitDInv, NextDInv, VerdictInvariance, PTL DEF Spec

\* Whatever is committed is whole, at whatever point a fault, a crash or the
\* unique index ends the other transactions: a Golden Record with all its
\* identifiers and its audit row, an extraction with its own, a resolution
\* with its decision.
THEOREM WholeCommits == Spec => []CommittedWhole
  <1>1. TypeOK /\ DInv => CommittedWhole
    BY OutcomeIsWhole DEF DInv
  <1>2. QED
    BY <1>1, DurableInvariance, PTL

\* When the session is exited before the answer is sent, no client ever holds
\* an outcome whose audit rows are not committed.
THEOREM AuditBeforeAnswer == ASSUME CommitFirst PROVE Spec => []AnswerIsAudited
  <1>1. ASSUME TypeOK, DInv, NEW r \in Requests, answer[r] = "sent"
        PROVE  AuditedIn(r)
    <2>1. Committed(r) /\ RowsOfResult(r) /\ Work(r) = rows[r]
      BY <1>1 DEF DInv, Lifecycle, Written, Work, Committed
    <2>2. Evidence(r) \subseteq rows[r]
      BY <2>1 DEF RowsOfResult, Evidence, Extracted
    <2>3. QED
      BY <2>1, <2>2 DEF AuditedIn
  <1>2. TypeOK /\ DInv => AnswerIsAudited
    BY <1>1 DEF AnswerIsAudited
  <1>3. QED
    BY <1>2, DurableInvariance, PTL

-----------------------------------------------------------------------------
(***************************************************************************)
(* IdentityRegistry implements GoldenRegistry when the session is exited   *)
(* before the answer is sent: the commit of a transaction that created a   *)
(* person registers it, the answer that names a person tells of it, and    *)
(* every other step is a stutter.                                          *)
(*                                                                         *)
(* A commit may register because no other transaction holds its keys       *)
(* (HeldOnce) and a committed person has all of its own (CommittedWhole);  *)
(* an answer may tell because the person it names is its own, or was found *)
(* under an identifier of the request (Named) and is there still.          *)
(***************************************************************************)

\* The person a request names is its own, inserted, or one found under its
\* passport, or for a creation under its Emirates ID.
Named(r) ==
    LET p == result[r].person
    IN  p # NoValue /\ tx[r] # "aborted" =>
          \/ p = r /\ "person" \in rows[r]
          \/ p \in FindActive(r, "passport")
          \/ p \in FindActive(r, "emirates") /\ req[r].kind = "create"

RInv ==
    /\ IInv /\ VInv /\ DInv
    /\ \A r \in Requests : Named(r)

-----------------------------------------------------------------------------
(* Whom a request names.                                                   *)

\* What a SELECT found goes on to be found.
LEMMA FoundStays ==
    ASSUME TypeOK, VInv, DInv, [Next]_vars, NEW r \in Requests, NEW t \in IdentifierTypes,
           NEW p \in FindActive(r, t)
    PROVE  p \in FindActive(r, t)'
  <1>1. p \in Requests /\ Committed(p) /\ t \in rows[p] /\ SameKey(p, r, t)
    BY DEF FindActive, Committed
  <1>2. UNCHANGED <<tx[p], rows[p], req>>
    BY <1>1, CommittedStays, VisibleStays DEF VInv, DInv
  <1>3. QED
    BY <1>1, <1>2 DEF FindActive, Committed, SameKey, Identifier

\* A request that names the person it named, and that has not been rolled
\* back, names it rightly.
LEMMA NamedStays ==
    ASSUME TypeOK, VInv, DInv, [Next]_vars, NEW r \in Requests, Named(r),
           result'[r].person \in {result[r].person, NoValue},
           tx[r] = "aborted" => tx'[r] = "aborted",
           tx'[r] = "aborted" \/ rows[r] \subseteq rows'[r]
    PROVE  Named(r)'
  <1> SUFFICES ASSUME result'[r].person # NoValue, tx'[r] # "aborted"
               PROVE  \/ result'[r].person = r /\ "person" \in rows'[r]
                      \/ result'[r].person \in FindActive(r, "passport")'
                      \/ /\ result'[r].person \in FindActive(r, "emirates")'
                         /\ req'[r].kind = "create"
    BY DEF Named
  <1>1. result'[r].person = result[r].person /\ tx[r] # "aborted" /\ req' = req
    BY VisibleStays DEF VInv
  <1>2. CASE result[r].person = r /\ "person" \in rows[r]
    BY <1>1, <1>2
  <1>3. ASSUME NEW t \in IdentifierTypes, result[r].person \in FindActive(r, t)
        PROVE  result'[r].person \in FindActive(r, t)'
    BY <1>1, <1>3, FoundStays
  <1>4. QED
    BY <1>1, <1>2, <1>3 DEF Named, IdentifierTypes

\* Only the matcher and the creation of a person name someone, and a
\* transaction loses rows only by being rolled back.
LEMMA NamesOnly ==
    ASSUME TypeOK, [Next]_vars, NEW r \in Requests, VInv, DInv,
           ~MatchEmirates(r), ~MatchPassport(r), ~CreatePerson(r)
    PROVE  /\ result'[r].person \in {result[r].person, NoValue}
           /\ tx[r] = "aborted" => tx'[r] = "aborted"
           /\ tx'[r] = "aborted" \/ rows[r] \subseteq rows'[r]
  <1> DEFINE Names == /\ result'[r].person \in {result[r].person, NoValue}
                      /\ tx[r] = "aborted" => tx'[r] = "aborted"
                      /\ tx'[r] = "aborted" \/ rows[r] \subseteq rows'[r]
  <1> SUFFICES Names
    OBVIOUS
  <1> USE DEF TypeOK, LeftAlone, Results, Result, NoResult
  <1>1. CASE Begin(r)
    BY <1>1 DEF Begin, VInv, FreshWhenIdle
  <1>2. CASE ExtractRejects(r)
    BY <1>2 DEF ExtractRejects, Return
  <1>3. CASE ExtractFails(r)
    BY <1>3 DEF ExtractFails, Return
  <1>4. CASE ExtractRaises(r)
    BY <1>4 DEF ExtractRaises, Rollback, Answered
  <1>5. CASE ExtractSucceeds(r)
    BY <1>5 DEF ExtractSucceeds, Return
  <1>6. CASE GetPerson(r)
    BY <1>6 DEF GetPerson
  <1>7. CASE RefuseDuplicate(r)
    BY <1>7 DEF RefuseDuplicate, Return
  <1>8. CASE KeepVerdict(r)
    BY <1>8 DEF KeepVerdict
  <1>9. CASE RecordDecision(r)
    BY <1>9 DEF RecordDecision, Return
  <1>10. ASSUME NEW t \in IdentifierTypes, InsertIdentifier(r, t) PROVE Names
    BY <1>10 DEF InsertIdentifier, NextIdentifier
  <1>11. ASSUME NEW t \in IdentifierTypes, UniqueViolation(r, t) PROVE Names
    BY <1>11 DEF UniqueViolation, Rollback, Answered
  <1>12. CASE FlushRest(r)
    BY <1>12 DEF FlushRest
  <1>13. CASE Commit(r)
    BY <1>13 DEF Commit, MayCommit, Answered
  <1>14. CASE Respond(r)
    BY <1>14 DEF Respond, MayRespond, Answered
  <1>15. CASE DatabaseFault(r)
    BY <1>15 DEF DatabaseFault, Rollback, Answered
  <1>16. CASE CommitReplyLost(r)
    BY <1>16 DEF CommitReplyLost, MayCommit, Answered
  <1>17. CASE WorkerDies(r)
    BY <1>17 DEF WorkerDies, Rollback, Answered
  <1>18. CASE LeftAlone(r)
    BY <1>18
  <1>19. QED
    BY <1>1, <1>2, <1>3, <1>4, <1>5, <1>6, <1>7, <1>8,
       <1>9, <1>10, <1>11, <1>12, <1>13, <1>14, <1>15, <1>16, <1>17, <1>18, RequestCases

LEMMA NextNamed ==
    ASSUME TypeOK, VInv, DInv, [Next]_vars, NEW r \in Requests, Named(r)
    PROVE  Named(r)'
  <1>1. CASE MatchEmirates(r)
    <2>1. CASE result'[r].person = result[r].person
      BY <1>1, <2>1, NamedStays DEF MatchEmirates
    <2>2. CASE result'[r].person # result[r].person
      <3>1. result'[r].person \in FindActive(r, "emirates") /\ req[r].kind = "create"
        BY <1>1, <2>2 DEF MatchEmirates, Result, TypeOK, DInv, Lifecycle
      <3>2. result'[r].person \in FindActive(r, "emirates")' /\ req' = req
        BY <3>1, FoundStays, VisibleStays DEF IdentifierTypes, VInv
      <3>3. QED
        BY <3>1, <3>2 DEF Named
    <2>3. QED
      BY <2>1, <2>2
  <1>2. CASE MatchPassport(r)
    <2>1. CASE result'[r].person = result[r].person
      BY <1>2, <2>1, NamedStays DEF MatchPassport
    <2>2. CASE result'[r].person # result[r].person
      <3>1. result'[r].person \in FindActive(r, "passport")
        BY <1>2, <2>2 DEF MatchPassport, TypeOK, Results
      <3>2. result'[r].person \in FindActive(r, "passport")'
        BY <3>1, FoundStays DEF IdentifierTypes
      <3>3. QED
        BY <3>2 DEF Named
    <2>3. QED
      BY <2>1, <2>2
  <1>3. CASE CreatePerson(r)
    BY <1>3 DEF CreatePerson, Return, Result, Named, TypeOK
  <1>4. CASE ~(MatchEmirates(r) \/ MatchPassport(r) \/ CreatePerson(r))
    <2>1. /\ result'[r].person \in {result[r].person, NoValue}
          /\ tx[r] = "aborted" => tx'[r] = "aborted"
          /\ tx'[r] = "aborted" \/ rows[r] \subseteq rows'[r]
      BY <1>4, NamesOnly
    <2>2. QED
      BY <2>1, NamedStays
  <1>5. QED
    BY <1>1, <1>2, <1>3, <1>4
-----------------------------------------------------------------------------
(* The invariant, and whom a client may be told of.                        *)

LEMMA RefinementInvariance == Spec => []RInv
  <1>1. Init => \A r \in Requests : Named(r)
    BY DEF Init, Named, NoResult, Result
  <1>2. /\ TypeOK /\ VInv /\ DInv /\ [Next]_vars /\ (\A r \in Requests : Named(r))
        => (\A r \in Requests : Named(r))'
    BY NextNamed
  <1>3. QED
    BY <1>1, <1>2, Invariance, DurableInvariance, PTL DEF Spec, RInv

\* The person a committed request names is there, and is its own or carries an
\* identifier of the request: the passport, unless the request is a creation.
LEMMA NamedIsVisible ==
    ASSUME RInv, NEW r \in Requests, Committed(r), result[r].person # NoValue
    PROVE  LET p == result[r].person
           IN  /\ p \in Requests /\ PersonVisible(p)
               /\ \/ p = r
                  \/ p \in FindActive(r, "passport")
                  \/ p \in FindActive(r, "emirates") /\ req[r].kind = "create"
  <1> DEFINE p == result[r].person
  <1>1. \/ p = r /\ "person" \in rows[r]
        \/ p \in FindActive(r, "passport")
        \/ p \in FindActive(r, "emirates") /\ req[r].kind = "create"
    BY DEF RInv, Named, Committed
  <1>2. ASSUME NEW t \in IdentifierTypes, NEW q \in FindActive(r, t)
        PROVE  q \in Requests /\ PersonVisible(q)
    BY DEF FindActive, PersonVisible, RInv, VInv, PersonFirst
  <1>3. QED
    BY <1>1, <1>2 DEF PersonVisible, Committed, IdentifierTypes

\* With the commit first, so is the person a client is told of.
LEMMA ToldOfVisible ==
    ASSUME CommitFirst, RInv, NEW r \in Requests, Told(r) # NoValue
    PROVE  /\ Told(r) \in Requests /\ PersonVisible(Told(r))
           /\ \/ Told(r) = r
              \/ Told(r) \in FindActive(r, "passport")
              \/ Told(r) \in FindActive(r, "emirates") /\ req[r].kind = "create"
  <1>1. answer[r] = "sent" /\ Told(r) = result[r].person
    BY DEF Told
  <1>2. Committed(r)
    BY <1>1 DEF RInv, DInv, Lifecycle, Committed
  <1>3. QED
    BY <1>1, <1>2, NamedIsVisible

\* A visible person has all its identifiers.
LEMMA VisibleIsWhole ==
    ASSUME RInv, NEW p \in Requests, PersonVisible(p), NEW t \in Identifiers(p)
    PROVE  Holds(p, t) /\ t \in IdentifierTypes
  <1>1. CommittedWhole
    BY OutcomeIsWhole DEF RInv, IInv, DInv
  <1>2. QED
    BY <1>1 DEF CommittedWhole, PersonVisible, Committed, Holds, Identifiers

\* Clients that presented one passport to one tenant are told of one person,
\* whatever the order in which their requests match, insert and commit.
THEOREM OnePerson == ASSUME CommitFirst PROVE Spec => []OnePersonPerPassport
  <1>1. ASSUME RInv, NEW r \in Requests, Told(r) # NoValue,
               req[r].kind = "resolve" \/ Told(r) = r, Identifier(r, "passport") # NoValue
        PROVE  /\ Told(r) \in Requests /\ Holds(Told(r), "passport")
               /\ SameKey(Told(r), r, "passport")
    <2>1. CASE Told(r) = r
      <3>1. "passport" \in Identifiers(r)
        BY <1>1 DEF Identifiers, IdentifierTypes
      <3>2. QED
        BY <1>1, <2>1, <3>1, ToldOfVisible, VisibleIsWhole DEF SameKey
    <2>2. CASE Told(r) \in FindActive(r, "passport")
      BY <2>2 DEF FindActive, Holds
    <2>3. QED
      BY <1>1, <2>1, <2>2, ToldOfVisible
  <1>2. RInv => OnePersonPerPassport
    <2> SUFFICES ASSUME RInv, NEW q \in Requests, NEW r \in Requests,
                        \A x \in {q, r} : /\ Told(x) # NoValue
                                          /\ req[x].kind = "resolve" \/ Told(x) = x,
                        SameKey(q, r, "passport"), Told(q) # Told(r)
                 PROVE  FALSE
      BY DEF OnePersonPerPassport
    <2>1. Identifier(q, "passport") # NoValue /\ Identifier(r, "passport") # NoValue
      BY DEF SameKey
    <2>2. /\ Told(q) \in Requests /\ Holds(Told(q), "passport") /\ SameKey(Told(q), q, "passport")
          /\ Told(r) \in Requests /\ Holds(Told(r), "passport") /\ SameKey(Told(r), r, "passport")
      BY <1>1, <2>1
    <2>3. SameKey(Told(q), Told(r), "passport")
      BY <2>2 DEF SameKey
    <2>4. QED
      BY <2>2, <2>3 DEF RInv, IInv, HeldOnce, IdentifierTypes
  <1>3. QED
    BY <1>2, RefinementInvariance, PTL

-----------------------------------------------------------------------------
(* The steps of the registry.                                              *)

\* Only its own answer tells a client of a person, once.
LEMMA TellsOnce ==
    ASSUME TypeOK, [Next]_vars, NEW r \in Requests, CommitFirst, FreshWhenIdle, Lifecycle(r), ~Respond(r)
    PROVE  Told(r)' = Told(r)
  <1> USE DEF TypeOK, Told, LeftAlone, Lifecycle, Results, Result, NoResult
  <1>1. CASE Begin(r)
    BY <1>1 DEF Begin
  <1>2. CASE ExtractRejects(r)
    BY <1>2 DEF ExtractRejects, Return
  <1>3. CASE ExtractFails(r)
    BY <1>3 DEF ExtractFails, Return
  <1>4. CASE ExtractRaises(r)
    BY <1>4 DEF ExtractRaises, Rollback, Answered
  <1>5. CASE ExtractSucceeds(r)
    BY <1>5 DEF ExtractSucceeds, Return
  <1>6. CASE MatchEmirates(r)
    BY <1>6 DEF MatchEmirates
  <1>7. CASE MatchPassport(r)
    BY <1>7 DEF MatchPassport
  <1>8. CASE GetPerson(r)
    BY <1>8 DEF GetPerson
  <1>9. CASE RefuseDuplicate(r)
    BY <1>9 DEF RefuseDuplicate, Return
  <1>10. CASE CreatePerson(r)
    BY <1>10 DEF CreatePerson, Return
  <1>11. CASE KeepVerdict(r)
    BY <1>11 DEF KeepVerdict
  <1>12. CASE RecordDecision(r)
    BY <1>12 DEF RecordDecision, Return
  <1>13. ASSUME NEW t \in IdentifierTypes, InsertIdentifier(r, t) PROVE Told(r)' = Told(r)
    BY <1>13 DEF InsertIdentifier, NextIdentifier
  <1>14. ASSUME NEW t \in IdentifierTypes, UniqueViolation(r, t) PROVE Told(r)' = Told(r)
    BY <1>14 DEF UniqueViolation, Rollback, Answered
  <1>15. CASE FlushRest(r)
    BY <1>15 DEF FlushRest
  <1>16. CASE Commit(r)
    BY <1>16 DEF Commit, MayCommit, Answered
  <1>17. CASE DatabaseFault(r)
    BY <1>17 DEF DatabaseFault, Rollback, Answered
  <1>18. CASE CommitReplyLost(r)
    BY <1>18 DEF CommitReplyLost, MayCommit, Answered
  <1>19. CASE WorkerDies(r)
    BY <1>19 DEF WorkerDies, Rollback, Answered
  <1>20. CASE LeftAlone(r)
    BY <1>20
  <1>21. QED
    BY <1>1, <1>2, <1>3, <1>4, <1>5, <1>6, <1>7, <1>8, <1>9, <1>10, <1>11,
       <1>12, <1>13, <1>14, <1>15, <1>16, <1>17, <1>18, <1>19, <1>20, RequestCases

LEMMA GoldenInit == Init => Golden!Init
  <1> SUFFICES ASSUME Init
               PROVE  Golden!Init
    OBVIOUS
  <1>1. \A r \in Requests : req[r] \in InputType
    BY InputAssumption DEF Init
  <1>2. [r \in Requests |-> req[r].tenant] \in [Requests -> Tenants]
    BY <1>1 DEF InputType
  <1>3. \A r \in Requests : KeysOf(r) \subseteq TenantKeys(req[r].tenant)
    BY <1>1 DEF InputType, KeysOf, TenantKeys, Identifiers, Identifier, IdentifierTypes
  <1>4. \A r \in Requests : ~PersonVisible(r) /\ Told(r) = NoValue
    BY DEF Init, PersonVisible, Told
  <1>5. QED
    BY <1>2, <1>3, <1>4 DEF Golden!Init, Golden!TypeOK

\* The persons and the answers as the registry sees them.
Persons == {r \in Requests : PersonVisible(r)}
ToldAll == [r \in Requests |-> Told(r)]

LEMMA CommitRegisters ==
    ASSUME RInv, [Next]_vars, NEW r \in Requests, Commit(r) \/ CommitReplyLost(r)
    PROVE  \/ UNCHANGED Persons
           \/ /\ r \notin Persons /\ Persons' = Persons \cup {r}
              /\ \A p \in Persons : KeysOf(p) \cap KeysOf(r) = {}
  <1>1. /\ tx[r] = "open" /\ pending[r] = {} /\ pc[r] = "finish"
        /\ UNCHANGED <<rows, req>> /\ tx' = [tx EXCEPT ![r] = "committed"]
    BY DEF Commit, CommitReplyLost, MayCommit
  <1>2. \A p \in Requests \ {r} : PersonVisible(p)' <=> PersonVisible(p)
    BY <1>1 DEF PersonVisible, RInv, IInv, TypeOK
  <1>3. ~PersonVisible(r) /\ (PersonVisible(r)' <=> "person" \in rows[r])
    BY <1>1 DEF PersonVisible, RInv, IInv, TypeOK
  <1>4. CASE "person" \notin rows[r]
    BY <1>2, <1>3, <1>4 DEF Persons
  <1>5. CASE "person" \in rows[r]
    <2>1. Identifiers(r) \subseteq rows[r]
      BY <1>1, <1>5 DEF RInv, DInv, Written, RowsOfResult, Work, PersonRows, Extracted
    <2>2. \A t \in Identifiers(r) : t \in IdentifierTypes /\ Holds(r, t)
      BY <1>1, <2>1 DEF Holds, Identifiers
    <2>3. ASSUME NEW p \in Persons, NEW k \in KeysOf(p) \cap KeysOf(r)
          PROVE  FALSE
      <3>1. p \in Requests /\ p # r /\ PersonVisible(p)
        BY <1>3 DEF Persons
      <3>2. PICK t \in Identifiers(p) : k = <<req[p].tenant, t, Identifier(p, t)>>
        BY DEF KeysOf
      <3>3. /\ t \in Identifiers(r) /\ req[p].tenant = req[r].tenant
            /\ Identifier(p, t) = Identifier(r, t)
        BY <3>2 DEF KeysOf
      <3>4. SameKey(p, r, t)
        BY <3>3 DEF SameKey, Identifiers
      <3>5. Holds(p, t) /\ Holds(r, t) /\ t \in IdentifierTypes
        BY <2>2, <3>1, <3>2, <3>3, VisibleIsWhole
      <3>6. QED
        BY <3>1, <3>4, <3>5 DEF RInv, IInv, HeldOnce
    <2>4. Persons' = Persons \cup {r} /\ r \notin Persons
      BY <1>2, <1>3, <1>5 DEF Persons
    <2>5. QED
      BY <2>3, <2>4
  <1>6. QED
    BY <1>4, <1>5

LEMMA RespondTells ==
    ASSUME CommitFirst, RInv, [Next]_vars, NEW r \in Requests, Respond(r)
    PROVE  /\ UNCHANGED Persons
           /\ \/ UNCHANGED ToldAll
              \/ \E p \in Persons :
                   /\ Told(r) = NoValue /\ ToldAll' = [ToldAll EXCEPT ![r] = p]
                   /\ req[p].tenant = req[r].tenant
                   /\ p = r \/ KeysOf(p) \cap KeysOf(r) # {}
  <1>1. /\ answer[r] = "none" /\ UNCHANGED <<req, tx, rows, result>>
        /\ answer' = [answer EXCEPT ![r] = "sent"]
    BY DEF Respond, Answered
  <1>2. UNCHANGED Persons /\ Told(r) = NoValue /\ Told(r)' = result[r].person
    BY <1>1 DEF Persons, PersonVisible, Told, RInv, IInv, TypeOK
  <1>3. \A q \in Requests \ {r} : Told(q)' = Told(q)
    BY <1>1 DEF Told, RInv, IInv, TypeOK
  <1>4. ToldAll' = [ToldAll EXCEPT ![r] = Told(r)']
    BY <1>3 DEF ToldAll
  <1>5. CASE Told(r)' = NoValue
    BY <1>2, <1>3, <1>5 DEF ToldAll
  <1>6. CASE Told(r)' # NoValue
    <2>1. Committed(r)
      BY DEF Respond, MayRespond, Committed
    <2>2. PICK p \in Requests : p = result[r].person /\ p = Told(r)' /\ PersonVisible(p)
      BY <1>2, <1>6, <2>1, NamedIsVisible
    <2>3. p \in Persons
      BY <2>2 DEF Persons
    <2>4. p = r \/ \E t \in IdentifierTypes : SameKey(p, r, t)
      BY <1>2, <1>6, <2>1, <2>2, NamedIsVisible DEF FindActive, IdentifierTypes
    <2>5. ASSUME NEW t \in IdentifierTypes, SameKey(p, r, t)
          PROVE  /\ req[p].tenant = req[r].tenant
                 /\ <<req[r].tenant, t, Identifier(r, t)>> \in KeysOf(p) \cap KeysOf(r)
      BY <2>5 DEF SameKey, KeysOf, Identifiers
    <2>6. QED
      BY <1>2, <1>4, <2>2, <2>3, <2>4, <2>5
  <1>7. QED
    BY <1>2, <1>5, <1>6

LEMMA GoldenStep ==
    ASSUME CommitFirst, RInv, [Next]_vars
    PROVE  [Golden!Next]_Golden!vars
  <1>0. UNCHANGED req
    BY VisibleStays DEF RInv, IInv, VInv
  <1>1. UNCHANGED <<[r \in Requests |-> req[r].tenant], [r \in Requests |-> KeysOf(r)]>>
    BY <1>0 DEF KeysOf, Identifiers, Identifier
  <1>2. ASSUME NEW r \in Requests, Commit(r) \/ CommitReplyLost(r)
        PROVE  [Golden!Next]_Golden!vars
    <2>1. UNCHANGED ToldAll
      BY <1>2 DEF Commit, CommitReplyLost, MayCommit, ToldAll, Told, RInv, IInv, TypeOK
    <2>2. CASE UNCHANGED Persons
      BY <1>1, <2>1, <2>2 DEF Golden!vars, Persons, ToldAll
    <2>3. CASE ~UNCHANGED Persons
      <3>1. Golden!Register(r)
        BY <1>1, <1>2, <2>1, <2>3, CommitRegisters DEF Golden!Register, Persons, ToldAll
      <3>2. QED
        BY <3>1 DEF Golden!Next
    <2>4. QED
      BY <2>2, <2>3
  <1>3. ASSUME NEW r \in Requests, Respond(r)
        PROVE  [Golden!Next]_Golden!vars
    <2>1. CASE UNCHANGED ToldAll
      BY <1>1, <1>3, <2>1, RespondTells DEF Golden!vars, Persons, ToldAll
    <2>2. CASE ~UNCHANGED ToldAll
      <3>1. PICK p \in Persons :
                /\ Told(r) = NoValue /\ ToldAll' = [ToldAll EXCEPT ![r] = p]
                /\ req[p].tenant = req[r].tenant
                /\ p = r \/ KeysOf(p) \cap KeysOf(r) # {}
        BY <1>3, <2>2, RespondTells
      <3>2. UNCHANGED Persons /\ p \in Requests
        BY <1>3, RespondTells DEF Persons
      <3>3. Golden!Tell(r, p)
        BY <1>1, <3>1, <3>2 DEF Golden!Tell, Persons, ToldAll
      <3>4. QED
        BY <3>2, <3>3 DEF Golden!Next
    <2>3. QED
      BY <2>1, <2>2
  <1>4. CASE \A r \in Requests : ~Commit(r) /\ ~CommitReplyLost(r) /\ ~Respond(r)
    <2>1. ASSUME NEW r \in Requests
          PROVE  Told(r)' = Told(r) /\ (PersonVisible(r)' <=> PersonVisible(r))
      BY <1>4, TellsOnce, CommittedStays, CommitsOnce
         DEF RInv, IInv, VInv, DInv, PersonVisible, Committed
    <2>2. UNCHANGED Persons /\ UNCHANGED ToldAll
      BY <2>1 DEF Persons, ToldAll
    <2>3. QED
      BY <1>1, <2>2 DEF Golden!vars, Persons, ToldAll
  <1>5. QED
    BY <1>2, <1>3, <1>4

\* Through its committed rows and its answers the service is the registry that
\* acts on one request at a time, when it commits before it answers.
THEOREM Refinement == ASSUME CommitFirst PROVE Spec => ImplementsGoldenRegistry
  BY GoldenInit, GoldenStep, RefinementInvariance, PTL DEF Spec, ImplementsGoldenRegistry, Golden!Spec

=============================================================================
