------------------------ MODULE LiveSubmissionProofs ------------------------
(***************************************************************************)
(* Proofs about LiveSubmission, for any number of requests, previews and   *)
(* confirmations.                                                          *)
(***************************************************************************)
EXTENDS LiveSubmission, TLAPS

-----------------------------------------------------------------------------
(* Type correctness.  The transactions keep the tables well typed, so what *)
(* is left of each action is the variables of the requests.                *)

LEMMA NewRowType == ASSUME NEW c \in Nat, NEW h \in Hash PROVE NewRow(c, h) \in Row
  BY DEF NewRow, Row, NULL

LEMMA MarkHashType ==
  ASSUME NEW table \in SUBSET Row, NEW h \in Hash, NEW e \in Nat
  PROVE  MarkHash(table, h, e) \in SUBSET Row
  BY DEF MarkHash, Row

LEMMA AppendConfirmationType ==
  ASSUME TypeOK, NEW h \in Hash, AppendConfirmation(h)
  PROVE  confirmations' \in [Kind -> Seq(Hash)]
  <1>1. KindOf[h] \in Kind
    BY PreviewAssumption
  <1>2. Append(confirmations[KindOf[h]], h) \in Seq(Hash)
    BY <1>1 DEF TypeOK
  <1> QED
    BY <1>1, <1>2 DEF TypeOK, AppendConfirmation

LEMMA FreshConfirmationType ==
  ASSUME TypeOK, NEW r \in Request, NEW from \in Step, UseFreshConfirmation(r, from)
  PROVE  TypeOK'
  <1>1. hash[r] \in Hash /\ KindOf[hash[r]] \in Kind
    BY PreviewAssumption DEF TypeOK
  <1>2. confirmations' \in [Kind -> Seq(Hash)]
    BY <1>1, AppendConfirmationType DEF UseFreshConfirmation
  <1>3. Len(confirmations[KindOf[hash[r]]]) + 1 \in Nat
    BY <1>1 DEF TypeOK
  <1> QED
    BY <1>2, <1>3 DEF UseFreshConfirmation, TypeOK, StoreTypeOK, storeVars, callVars, Move,
        Goto, FirstStep, Step, KindOfRequest

LEMMA LatestConfirmationType ==
  ASSUME TypeOK, NEW r \in Request, UseLatestConfirmation(r)
  PROVE  TypeOK'
  <1>1. hash[r] \in Hash /\ KindOf[hash[r]] \in Kind
    BY PreviewAssumption DEF TypeOK
  <1>2. ConfirmationsOf(hash[r]) \subseteq Nat
    BY <1>1 DEF TypeOK, ConfirmationsOf
  <1> QED
    BY <1>2 DEF UseLatestConfirmation, TypeOK, StoreTypeOK, storeVars, callVars, Move,
        Goto, FirstStep, Step

LEMMA StartCallType ==
  ASSUME TypeOK, NEW r \in Request, StartCall(r)
  PROVE  TypeOK'
  <1>1. "start" \in Step
    BY DEF Step
  <1>2. CASE PartialFillCleanup(r)
    BY <1>2 DEF PartialFillCleanup, TypeOK, StoreTypeOK, storeVars, callVars, Move, Goto, Step
  <1> QED
    BY <1>1, <1>2, FreshConfirmationType, LatestConfirmationType
    DEF StartCall, PairEndpoint, ExtendedEndpoint, HyperliquidEndpoint, ParadexEndpoint,
        GuardedPairEndpoint, CanaryCycle, PairCloseEndpoint, AutoClose, CleanupEndpointOf,
        ParadexCleanupEndpoint, ExtendedCleanupEndpoint, HyperliquidCleanupEndpoint,
        ResolveCleanupConfirmation, AutoCleanup

\* A step that only moves the request, to a known place.
LEMMA MoveType ==
  ASSUME TypeOK, NEW r \in Request, NEW to \in Step \cup End, Goto(r, to),
         StoreTypeOK', UNCHANGED <<confirmations, callVars, conf, entryId, sent>>
  PROVE  TypeOK'
  BY DEF TypeOK, Goto, callVars

LEMMA ContinueType ==
  ASSUME TypeOK, NEW r \in Request, Continue(r)
  PROVE  TypeOK'
  <1> USE DEF Move
  <1>1. hash[r] \in Hash /\ conf[r] \in Nat /\ entryId[r] \in Nat
    BY DEF TypeOK
  <1>2. Row = [conf : Nat, hash : Hash, entry : Nat] /\ NewRow(conf[r], hash[r]) \in Row
    BY <1>1, NewRowType DEF Row
  <1>3. CASE PartialFillLookup(r) \/ PartialFillPendingCheck(r) \/ Lookup(r) \/ Refind(r)
             \/ RefindConfirmation(r) \/ Return(r) \/ RaiseValueError(r)
             \/ RaiseTransportError(r)
    <2>1. StoreTypeOK'
      BY <1>3 DEF PartialFillLookup, PartialFillPendingCheck, Lookup, Refind, RefindConfirmation,
          Return, RaiseValueError, RaiseTransportError, storeVars, TypeOK, StoreTypeOK
    <2> QED
      BY <1>3, <2>1, MoveType
      DEF PartialFillLookup, PartialFillPendingCheck, Lookup, Refind, RefindConfirmation,
          Return, RaiseValueError, RaiseTransportError, Step, End
  <1>4. CASE PartialFillConfirm(r)
    BY <1>4, FreshConfirmationType DEF PartialFillConfirm, Step
  <1>5. CASE ReserveOpen(r)
    <2>1. StoreTypeOK'
      BY <1>2, <1>5 DEF ReserveOpen, ReservePairOpenAndLive, storeVars, TypeOK, StoreTypeOK
    <2> QED
      BY <1>5, <2>1, MoveType DEF ReserveOpen, Step
  <1>6. CASE ReserveClose(r)
    <2>1. StoreTypeOK'
      BY <1>2, <1>6 DEF ReserveClose, ReservePairClose, storeVars, TypeOK, StoreTypeOK
    <2> QED
      BY <1>6, <2>1, MoveType DEF ReserveClose, Step
  <1>7. CASE ReserveCleanupPreview(r)
    <2>1. StoreTypeOK'
      BY <1>2, <1>7 DEF ReserveCleanupPreview, ReserveCleanup, storeVars, TypeOK, StoreTypeOK
    <2> QED
      BY <1>7, <2>1, MoveType DEF ReserveCleanupPreview, Step
  <1>8. CASE ReserveConfirmation(r)
    <2>1. StoreTypeOK'
      BY <1>2, <1>8 DEF ReserveConfirmation, ReserveLive, storeVars, TypeOK, StoreTypeOK
    <2> QED
      BY <1>8, <2>1, MoveType DEF ReserveConfirmation, Step
  <1>9. CASE JournalSubmission(r)
    <2>1. [conf |-> conf[r], hash |-> hash[r]] \in Entry
      BY <1>1 DEF Entry
    <2>2. journal' \in Seq(Entry) /\ Len(journal) + 1 \in Nat
      BY <1>9, <2>1 DEF JournalSubmission, AppendEntry, TypeOK, StoreTypeOK
    <2> QED
      BY <1>9, <2>2 DEF JournalSubmission, AppendEntry, TypeOK, StoreTypeOK, callVars, Goto, Step
  <1>10. CASE MarkConfirmation(r)
    <2>1. StoreTypeOK'
      BY <1>1, <1>2, <1>10 DEF MarkConfirmation, MarkLive, TypeOK, StoreTypeOK
    <2> QED
      BY <1>10, <2>1, MoveType DEF MarkConfirmation, Step, End
  <1>11. CASE MarkPreview(r)
    <2>1. StoreTypeOK'
      BY <1>1, <1>11, MarkHashType
      DEF MarkPreview, MarkPairOpen, MarkPairClose, MarkCleanup, TypeOK, StoreTypeOK
    <2> QED
      BY <1>11, <2>1, MoveType DEF MarkPreview, End
  <1>12. CASE ReleaseConfirmation(r)
    <2>1. StoreTypeOK'
      BY <1>12 DEF ReleaseConfirmation, ReleaseLive, TypeOK, StoreTypeOK
    <2> QED
      BY <1>12, <2>1, MoveType DEF ReleaseConfirmation, Step
  <1>13. CASE ReleasePreview(r)
    <2>1. StoreTypeOK'
      BY <1>13 DEF ReleasePreview, ReleasePairClose, ReleaseCleanup, TypeOK, StoreTypeOK
    <2> QED
      BY <1>13, <2>1, MoveType DEF ReleasePreview, End
  <1> QED
    BY <1>3, <1>4, <1>5, <1>6, <1>7, <1>8, <1>9, <1>10, <1>11, <1>12, <1>13 DEF Continue

\* The variables always have their types.
THEOREM TypeCorrect == Spec => []TypeOK
  <1>1. Init => TypeOK
    BY DEF Init, StoreInit, TypeOK, StoreTypeOK, Step, NULL, Kind
  <1>2. TypeOK /\ [Next]_vars => TypeOK'
    <2> SUFFICES ASSUME TypeOK, [Next]_vars PROVE TypeOK'
      OBVIOUS
    <2>1. ASSUME NEW h \in Hash, Confirm(h) PROVE TypeOK'
      BY <2>1, AppendConfirmationType DEF Confirm, TypeOK, StoreTypeOK, storeVars, callVars
    <2>2. ASSUME NEW r \in Request, Send(r) PROVE TypeOK'
      BY <2>2 DEF Send, TypeOK, StoreTypeOK, storeVars, callVars
    <2>3. ASSUME NEW r \in Request, Abort(r) PROVE TypeOK'
      <3>1. StoreTypeOK'
        BY <2>3 DEF Abort, TypeOK, StoreTypeOK, storeVars
      <3> QED
        BY <2>3, <3>1, MoveType DEF Abort, End
    <2>4. CASE UNCHANGED vars
      BY <2>4 DEF vars, TypeOK, StoreTypeOK, storeVars, callVars
    <2> QED
      BY <2>1, <2>2, <2>3, <2>4, StartCallType, ContinueType DEF Next, RequestStep
  <1> QED
    BY <1>1, <1>2, PTL DEF Spec

-----------------------------------------------------------------------------
(* One submission per preview.                                             *)
(*                                                                         *)
(* OneSubmissionPerPreview is not inductive: it says nothing of requests   *)
(* that are about to send.  The invariant is about the requests that claim *)
(* a preview, because they hold its reservation or because they have sent  *)
(* it and never release after that: a claimed preview has a row in its     *)
(* guard table, so nobody else can reserve it, so nobody else claims it.   *)

Claimed(r) == Holds(r) \/ (ReleasesSafely(r) /\ r \in sent)

ReleaseStep == {"release_live", "release_guard", "release_guard_only"}

\* A request calls an endpoint that submits its kind of preview.
CallsMatch == \A r \in Request : endpoint[r] \in EndpointOf[KindOfRequest(r)]

ClaimedIsReserved == \A r \in Request : Claimed(r) => HasHash(GuardTable(r), hash[r])

OneClaimant ==
    \A r, s \in Request : SameReservation(r, s) => ~(Claimed(r) /\ Claimed(s))

ReleasesUnsent ==
    \A r \in Request : ReleasesSafely(r) /\ pc[r] \in ReleaseStep => r \notin sent

ClaimInv == CallsMatch /\ ClaimedIsReserved /\ OneClaimant /\ ReleasesUnsent

LEMMA MarkHashKeepsHashes ==
  ASSUME NEW table, NEW h, NEW e, NEW g, HasHash(table, g), table \in SUBSET Row
  PROVE  HasHash(MarkHash(table, h, e), g)
  <1>1. PICK row \in table : row.hash = g
    BY DEF HasHash
  <1>2. [row EXCEPT !.entry = e].hash = g
    BY <1>1 DEF Row
  <1> QED
    BY <1>1, <1>2 DEF HasHash, MarkHash

LEMMA InsertAddsHash ==
  ASSUME NEW table, NEW c, NEW h
  PROVE  HasHash(table \cup {NewRow(c, h)}, h)
  <1>1. NewRow(c, h).hash = h
    BY DEF NewRow
  <1> QED
    BY <1>1 DEF HasHash

\* The parts of the invariant that only the endpoints and hashes decide.
LEMMA CallsAreConstant ==
  ASSUME UNCHANGED callVars
  PROVE  /\ CallsMatch => CallsMatch'
         /\ \A r : ReleasesSafely(r)' <=> ReleasesSafely(r)
         /\ \A r : Reserves(r)' <=> Reserves(r)
         /\ \A r : KindOfRequest(r)' = KindOfRequest(r)
  BY DEF callVars, CallsMatch, ReleasesSafely, Reserves, KindOfRequest, Adapter

GuardsKeep(g) ==
    /\ HasHash(pairOpen, g)  => HasHash(pairOpen, g)'
    /\ HasHash(pairClose, g) => HasHash(pairClose, g)'
    /\ HasHash(cleanup, g)   => HasHash(cleanup, g)'

\* A step of r that takes no hash out of the guard tables, that sends nothing
\* unless r holds its reservation, and that makes r hold nothing new.
LEMMA QuietStep ==
  ASSUME TypeOK, ClaimInv, NEW r \in Request, UNCHANGED callVars,
         \A g \in Hash : GuardsKeep(g),
         \A s \in Request : s # r => pc'[s] = pc[s],
         sent' = sent \/ (sent' = sent \cup {r} /\ pc'[r] = pc[r] /\ pc[r] \notin ReleaseStep
                           /\ (Reserves(r) => Holds(r))),
         pc'[r] \in HoldingStep => pc[r] \in HoldingStep \/ ~Reserves(r),
         pc'[r] \in ReleaseStep =>
            pc[r] \in ReleaseStep \/ (ReleasesSafely(r) => r \notin sent)
  PROVE  ClaimInv'
  <1>1. \A s \in Request : Claimed(s)' => Claimed(s)
    BY CallsAreConstant DEF Claimed, Holds, ReleasesSafely
  <1>2. \A s \in Request : HasHash(GuardTable(s), hash[s]) => HasHash(GuardTable(s), hash[s])'
    BY DEF GuardsKeep, GuardTable, HasHash, KindOfRequest, callVars, TypeOK
  <1>3. ClaimedIsReserved'
    BY <1>1, <1>2 DEF ClaimInv, ClaimedIsReserved
  <1>4. OneClaimant'
    BY <1>1, CallsAreConstant DEF ClaimInv, OneClaimant, SameReservation, callVars
  <1>5. ReleasesUnsent'
    BY CallsAreConstant DEF ClaimInv, ReleasesUnsent, ReleaseStep
  <1> QED
    BY <1>3, <1>4, <1>5, CallsAreConstant DEF ClaimInv

\* A step in which r takes the reservation of its preview, which was free.
LEMMA TakingStep ==
  ASSUME TypeOK, ClaimInv, NEW r \in Request, UNCHANGED callVars, UNCHANGED sent,
         ~HasHash(GuardTable(r), hash[r]), HasHash(GuardTable(r), hash[r])',
         \A g \in Hash : GuardsKeep(g),
         \A s \in Request : s # r => pc'[s] = pc[s],
         pc'[r] \notin ReleaseStep
  PROVE  ClaimInv'
  <1>1. \A s \in Request : s # r /\ Claimed(s)' => Claimed(s)
    BY CallsAreConstant DEF Claimed, Holds
  <1>2. \A s \in Request : HasHash(GuardTable(s), hash[s]) => HasHash(GuardTable(s), hash[s])'
    BY DEF GuardsKeep, GuardTable, HasHash, KindOfRequest, callVars, TypeOK
  <1>3. ClaimedIsReserved'
    BY <1>1, <1>2 DEF ClaimInv, ClaimedIsReserved
  <1>4. \A s \in Request : SameReservation(r, s) \/ SameReservation(s, r) => ~Claimed(s)
    BY DEF ClaimInv, ClaimedIsReserved, SameReservation, GuardTable, KindOfRequest
  <1>5. OneClaimant'
    BY <1>1, <1>4, CallsAreConstant DEF ClaimInv, OneClaimant, SameReservation, callVars
  <1>6. ReleasesUnsent'
    BY CallsAreConstant DEF ClaimInv, ReleasesUnsent
  <1> QED
    BY <1>3, <1>5, <1>6, CallsAreConstant DEF ClaimInv

\* A step in which r, which holds the reservation of its preview, gives it up.
LEMMA GivingUpStep ==
  ASSUME TypeOK, ClaimInv, NEW r \in Request, UNCHANGED callVars, UNCHANGED sent,
         Holds(r), pc[r] \in ReleaseStep, pc'[r] \notin HoldingStep,
         \A s \in Request :
            hash[s] # hash[r] /\ HasHash(GuardTable(s), hash[s]) => HasHash(GuardTable(s), hash[s])',
         \A s \in Request : s # r => pc'[s] = pc[s]
  PROVE  ClaimInv'
  <1>1. \A s \in Request : Claimed(s)' => Claimed(s) /\ s # r
    BY CallsAreConstant
    DEF Claimed, Holds, ClaimInv, ReleasesUnsent, HoldingStep, ReleaseStep
  <1>2. \A s \in Request : Claimed(s)' => hash[s] # hash[r]
    BY <1>1 DEF ClaimInv, OneClaimant, SameReservation, Claimed, ReleasesSafely, Holds
  <1>3. ClaimedIsReserved'
    BY <1>1, <1>2 DEF ClaimInv, ClaimedIsReserved
  <1>4. OneClaimant'
    BY <1>1, CallsAreConstant DEF ClaimInv, OneClaimant, SameReservation, callVars
  <1>5. ReleasesUnsent'
    BY CallsAreConstant DEF ClaimInv, ReleasesUnsent, HoldingStep, ReleaseStep
  <1> QED
    BY <1>3, <1>4, <1>5, CallsAreConstant DEF ClaimInv

LEMMA GuardsKeepUnchanged ==
  ASSUME UNCHANGED <<pairOpen, pairClose, cleanup>>, NEW g
  PROVE  GuardsKeep(g)
  BY DEF GuardsKeep, HasHash

\* Starting a call, and a step that leaves the guard tables alone.
LEMMA StartCallClaims ==
  ASSUME TypeOK, ClaimInv, NEW r \in Request, StartCall(r)
  PROVE  ClaimInv'
  <1>1. /\ UNCHANGED <<storeVars, callVars, sent>>
        /\ pc' = [pc EXCEPT ![r] = FirstStep(r)] \/ pc' = [pc EXCEPT ![r] = "preview_lookup"]
    BY DEF StartCall, PairEndpoint, ExtendedEndpoint, HyperliquidEndpoint, ParadexEndpoint,
        GuardedPairEndpoint, CanaryCycle, PairCloseEndpoint, AutoClose, CleanupEndpointOf,
        ParadexCleanupEndpoint, ExtendedCleanupEndpoint, HyperliquidCleanupEndpoint,
        ResolveCleanupConfirmation, AutoCleanup, PartialFillCleanup, UseLatestConfirmation,
        UseFreshConfirmation, Move, Goto, callVars
  <1>2. /\ pc'[r] \in HoldingStep => ~Reserves(r)
        /\ pc'[r] \notin ReleaseStep
        /\ \A s \in Request : s # r => pc'[s] = pc[s]
    BY <1>1 DEF TypeOK, FirstStep, Reserves, HoldingStep, ReleaseStep
  <1>3. \A g \in Hash : GuardsKeep(g)
    BY <1>1, GuardsKeepUnchanged DEF storeVars
  <1> QED
    BY <1>1, <1>2, <1>3, QuietStep

LEMMA ContinueClaims ==
  ASSUME TypeOK, ClaimInv, NEW r \in Request, Continue(r)
  PROVE  ClaimInv'
  <1> USE DEF Move, Goto
  <1>0. \/ KindOfRequest(r) = "open"    /\ endpoint[r] \in PairOpenEndpoint \cup SingleEndpoint
        \/ KindOfRequest(r) = "close"   /\ endpoint[r] \in CloseEndpoint
        \/ KindOfRequest(r) = "cleanup" /\ endpoint[r] \in CleanupEndpoint
    BY PreviewAssumption DEF ClaimInv, CallsMatch, EndpointOf, KindOfRequest, Kind, TypeOK
  <1>1. CASE \/ PartialFillLookup(r) \/ PartialFillPendingCheck(r) \/ PartialFillConfirm(r)
             \/ Lookup(r) \/ Refind(r) \/ ReserveConfirmation(r) \/ RefindConfirmation(r)
             \/ Return(r) \/ JournalSubmission(r) \/ MarkConfirmation(r)
             \/ ReleaseConfirmation(r)
    <2>1. UNCHANGED <<pairOpen, pairClose, cleanup, callVars, sent>>
      BY <1>1 DEF PartialFillLookup, PartialFillPendingCheck, PartialFillConfirm,
          UseFreshConfirmation, Lookup, Refind, ReserveConfirmation, RefindConfirmation, Return,
          JournalSubmission, MarkConfirmation, ReleaseConfirmation, ReserveLive, AppendEntry,
          MarkLive, ReleaseLive, storeVars
    <2>2. /\ \A s \in Request : s # r => pc'[s] = pc[s]
          /\ pc'[r] \in HoldingStep => pc[r] \in HoldingStep \/ ~Reserves(r)
          /\ pc'[r] \in ReleaseStep => pc[r] \in ReleaseStep
      BY <1>1 DEF PartialFillLookup, PartialFillPendingCheck, PartialFillConfirm,
          UseFreshConfirmation, Lookup, Refind, ReserveConfirmation, RefindConfirmation, Return,
          JournalSubmission, MarkConfirmation, ReleaseConfirmation, FirstStep, Reserves,
          HoldingStep, ReleaseStep, TypeOK
    <2> QED
      BY <2>1, <2>2, GuardsKeepUnchanged, QuietStep
  <1>2. CASE RaiseValueError(r) \/ RaiseTransportError(r)
    <2>1. /\ UNCHANGED <<pairOpen, pairClose, cleanup, callVars, sent>>
          /\ \A s \in Request : s # r => pc'[s] = pc[s]
          /\ pc[r] \in HoldingStep
      BY <1>2 DEF RaiseValueError, RaiseTransportError, storeVars, TypeOK, HoldingStep
    \* A request that releases safely raises what makes it release only unsent.
    <2>2. pc'[r] \in ReleaseStep /\ ReleasesSafely(r) => r \notin sent
      BY <1>2 DEF RaiseValueError, RaiseTransportError, MayRaiseValueError, ReleasesSafely,
          ReleaseStep, TypeOK
    <2> QED
      BY <2>1, <2>2, GuardsKeepUnchanged, QuietStep
  <1>3. CASE MarkPreview(r)
    <2>1. /\ UNCHANGED <<callVars, sent>>
          /\ \A s \in Request : s # r => pc'[s] = pc[s]
          /\ pc'[r] \notin HoldingStep \cup ReleaseStep
      BY <1>3 DEF MarkPreview, TypeOK, HoldingStep, ReleaseStep
    <2>2. /\ pairOpen' = pairOpen \/ pairOpen' = MarkHash(pairOpen, hash[r], entryId[r])
          /\ pairClose' = pairClose \/ pairClose' = MarkHash(pairClose, hash[r], entryId[r])
          /\ cleanup' = cleanup \/ cleanup' = MarkHash(cleanup, hash[r], entryId[r])
      BY <1>3 DEF MarkPreview, MarkPairOpen, MarkPairClose, MarkCleanup
    <2>3. /\ pairOpen \in SUBSET Row
          /\ pairClose \in SUBSET Row
          /\ cleanup \in SUBSET Row
      BY DEF TypeOK, StoreTypeOK
    <2>4. ASSUME NEW g \in Hash PROVE GuardsKeep(g)
      <3>1. ASSUME NEW table \in SUBSET Row, HasHash(table, g)
            PROVE  HasHash(MarkHash(table, hash[r], entryId[r]), g)
        BY <3>1, MarkHashKeepsHashes
      <3> QED
        BY <2>2, <2>3, <3>1 DEF GuardsKeep, HasHash
    <2> QED
      BY <2>1, <2>4, QuietStep
  <1>4. CASE ReserveOpen(r) \/ ReserveClose(r) \/ ReserveCleanupPreview(r)
    <2>1. /\ UNCHANGED <<callVars, sent>>
          /\ \A s \in Request : s # r => pc'[s] = pc[s]
          /\ pc'[r] \notin ReleaseStep
          /\ \A g \in Hash : GuardsKeep(g)
      BY <1>4 DEF ReserveOpen, ReserveClose, ReserveCleanupPreview, ReservePairOpenAndLive,
          ReservePairClose, ReserveCleanup, storeVars, GuardsKeep, HasHash, TypeOK, ReleaseStep
    \* The preview or the confirmation was reserved already.
    <2>2. CASE UNCHANGED storeVars /\ pc'[r] \in {"refind", "refind_conf"}
      BY <2>1, <2>2, QuietStep DEF HoldingStep, ReleaseStep
    <2>3. CASE ReserveOpen(r) /\ ReservePairOpenAndLive(conf[r], hash[r])
      <3>1. KindOfRequest(r) = "open"
        BY <1>0, <2>3 DEF ReserveOpen, PairOpenEndpoint, SingleEndpoint, CloseEndpoint, CleanupEndpoint
      <3>2. GuardTable(r) = pairOpen /\ GuardTable(r)' = pairOpen' /\ hash'[r] = hash[r]
        BY <2>1, <3>1 DEF GuardTable, KindOfRequest, callVars
      <3>3. ~HasHash(pairOpen, hash[r]) /\ HasHash(pairOpen', hash[r])
        BY <2>3, InsertAddsHash DEF ReservePairOpenAndLive
      <3>4. ~HasHash(GuardTable(r), hash[r]) /\ HasHash(GuardTable(r), hash[r])'
        BY <2>1, <3>1, <3>3 DEF HasHash, GuardTable, KindOfRequest, callVars
      <3> QED
        BY <2>1, <3>4, TakingStep
    <2>4. CASE ReserveClose(r) /\ ReservePairClose(conf[r], hash[r])
      <3>1. KindOfRequest(r) = "close"
        BY <1>0, <2>4 DEF ReserveClose, PairOpenEndpoint, SingleEndpoint, CloseEndpoint, CleanupEndpoint
      <3>2. GuardTable(r) = pairClose /\ GuardTable(r)' = pairClose' /\ hash'[r] = hash[r]
        BY <2>1, <3>1 DEF GuardTable, KindOfRequest, callVars
      <3>3. ~HasHash(pairClose, hash[r]) /\ HasHash(pairClose', hash[r])
        BY <2>4, InsertAddsHash DEF ReservePairClose
      <3>4. ~HasHash(GuardTable(r), hash[r]) /\ HasHash(GuardTable(r), hash[r])'
        BY <2>1, <3>1, <3>3 DEF HasHash, GuardTable, KindOfRequest, callVars
      <3> QED
        BY <2>1, <3>4, TakingStep
    <2>5. CASE ReserveCleanupPreview(r) /\ ReserveCleanup(conf[r], hash[r])
      <3>1. KindOfRequest(r) = "cleanup"
        BY <1>0, <2>5 DEF ReserveCleanupPreview, PairOpenEndpoint, SingleEndpoint, CloseEndpoint, CleanupEndpoint
      <3>2. GuardTable(r) = cleanup /\ GuardTable(r)' = cleanup' /\ hash'[r] = hash[r]
        BY <2>1, <3>1 DEF GuardTable, KindOfRequest, callVars
      <3>3. ~HasHash(cleanup, hash[r]) /\ HasHash(cleanup', hash[r])
        BY <2>5, InsertAddsHash DEF ReserveCleanup
      <3>4. ~HasHash(GuardTable(r), hash[r]) /\ HasHash(GuardTable(r), hash[r])'
        BY <2>1, <3>1, <3>3 DEF HasHash, GuardTable, KindOfRequest, callVars
      <3> QED
        BY <2>1, <3>4, TakingStep
    <2> QED
      BY <1>4, <2>2, <2>3, <2>4, <2>5 DEF ReserveOpen, ReserveClose, ReserveCleanupPreview, TypeOK
  <1>5. CASE ReleasePreview(r)
    <2>1. /\ UNCHANGED <<callVars, sent>>
          /\ \A s \in Request : s # r => pc'[s] = pc[s]
          /\ pc[r] \in ReleaseStep /\ pc[r] \in HoldingStep /\ pc'[r] \notin HoldingStep
      BY <1>5 DEF ReleasePreview, TypeOK, HoldingStep, ReleaseStep
    <2>2. Holds(r)
      BY <1>0, <1>5, <2>1
      DEF Holds, Reserves, ReleasePreview, SingleEndpoint, CloseEndpoint, CleanupEndpoint
    <2>3. ASSUME NEW g \in Hash, g # hash[r] PROVE GuardsKeep(g)
      BY <1>5, <2>3 DEF ReleasePreview, ReleasePairClose, ReleaseCleanup, Releasable, GuardsKeep,
          HasHash
    <2>4. ASSUME NEW s \in Request, hash[s] # hash[r], HasHash(GuardTable(s), hash[s])
          PROVE  HasHash(GuardTable(s), hash[s])'
      BY <2>1, <2>3, <2>4 DEF GuardsKeep, GuardTable, KindOfRequest, HasHash, callVars, TypeOK
    <2> QED
      BY <2>1, <2>2, <2>4, GivingUpStep
  <1> QED
    BY <1>1, <1>2, <1>3, <1>4, <1>5 DEF Continue

LEMMA ClaimInvStep == TypeOK /\ ClaimInv /\ [Next]_vars => ClaimInv'
  <1> SUFFICES ASSUME TypeOK, ClaimInv, [Next]_vars PROVE ClaimInv'
    OBVIOUS
  <1>1. ASSUME UNCHANGED <<storeVars, callVars, pc, sent>> PROVE ClaimInv'
    BY <1>1 DEF storeVars, callVars, ClaimInv, CallsMatch, ClaimedIsReserved, OneClaimant,
        ReleasesUnsent, Claimed, Holds, Reserves, ReleasesSafely, SameReservation, KindOfRequest,
        Adapter, GuardTable, HasHash
  <1>2. ASSUME NEW h \in Hash, Confirm(h) PROVE ClaimInv'
    BY <1>1, <1>2 DEF Confirm
  <1>3. CASE UNCHANGED vars
    BY <1>1, <1>3 DEF vars
  <1>4. ASSUME NEW r \in Request, Send(r) PROVE ClaimInv'
    <2>1. UNCHANGED <<storeVars, callVars, pc>> /\ sent' = sent \cup {r}
      BY <1>4 DEF Send
    <2>2. pc[r] \in HoldingStep /\ pc[r] \notin ReleaseStep
      BY <1>4 DEF Send, HoldingStep, ReleaseStep
    <2> QED
      BY <2>1, <2>2, GuardsKeepUnchanged, QuietStep DEF storeVars, Holds
  <1>5. ASSUME NEW r \in Request, Abort(r) PROVE ClaimInv'
    <2>1. /\ UNCHANGED <<storeVars, callVars, sent>>
          /\ \A s \in Request : s # r => pc'[s] = pc[s]
          /\ pc'[r] \in HoldingStep => pc[r] \in HoldingStep
          /\ pc'[r] \notin ReleaseStep
      BY <1>5 DEF Abort, Goto, TypeOK, HoldingStep, ReleaseStep
    <2> QED
      BY <2>1, GuardsKeepUnchanged, QuietStep DEF storeVars
  <1> QED
    BY <1>2, <1>3, <1>4, <1>5, StartCallClaims, ContinueClaims DEF Next, RequestStep

\* The claims behave as the invariant says in every reachable state.
THEOREM ClaimsAreExclusive == Spec => []ClaimInv
  <1>1. Init => ClaimInv
    BY DEF Init, ClaimInv, CallsMatch, ClaimedIsReserved, OneClaimant, ReleasesUnsent, Claimed,
        Holds, HoldingStep, ReleaseStep, KindOfRequest
  <1> QED
    BY <1>1, ClaimInvStep, TypeCorrect, PTL DEF Spec

\* No preview is sent to its venues by two requests that release safely.
THEOREM OneSubmission == Spec => []OneSubmissionPerPreview
  <1>1. TypeOK /\ ClaimInv => OneSubmissionPerPreview
    BY DEF TypeOK, ClaimInv, OneClaimant, OneSubmissionPerPreview, Claimed
  <1> QED
    BY <1>1, ClaimsAreExclusive, TypeCorrect, PTL

\* A preview whose order may be at a venue stays reserved.
THEOREM StaysReserved == Spec => []SubmittedStaysReserved
  <1>1. TypeOK /\ ClaimInv => SubmittedStaysReserved
    BY DEF TypeOK, ClaimInv, ClaimedIsReserved, SubmittedStaysReserved, Claimed
  <1> QED
    BY <1>1, ClaimsAreExclusive, TypeCorrect, PTL

-----------------------------------------------------------------------------
(* The requests that release safely implement SubmissionOnce.              *)

\* What a step of r can do to the claims: send what r holds, or move r, which
\* comes to hold a reservation only if the preview was free.
ClaimStep(r) ==
    /\ UNCHANGED callVars
    /\ \A s \in Request : s # r => pc'[s] = pc[s]
    /\ \/ /\ sent' = sent
          /\ (pc'[r] \in HoldingStep /\ Reserves(r) /\ ~Holds(r)) =>
                ~HasHash(GuardTable(r), hash[r])
       \/ /\ r \notin sent
          /\ sent' = sent \cup {r}
          /\ UNCHANGED pc
          /\ Reserves(r) => Holds(r)

LEMMA RequestStepClaims ==
  ASSUME TypeOK, ClaimInv, NEW r \in Request, RequestStep(r)
  PROVE  ClaimStep(r)
  <1> USE DEF Move, Goto
  <1>0. \/ KindOfRequest(r) = "open"    /\ endpoint[r] \in PairOpenEndpoint \cup SingleEndpoint
        \/ KindOfRequest(r) = "close"   /\ endpoint[r] \in CloseEndpoint
        \/ KindOfRequest(r) = "cleanup" /\ endpoint[r] \in CleanupEndpoint
    BY PreviewAssumption DEF ClaimInv, CallsMatch, EndpointOf, KindOfRequest, Kind, TypeOK
  <1>1. CASE Send(r)
    BY <1>1 DEF Send, ClaimStep, Holds, HoldingStep, callVars
  <1>2. CASE ~Send(r)
    <2>1. UNCHANGED <<callVars, sent>> /\ \A s \in Request : s # r => pc'[s] = pc[s]
      BY <1>2 DEF RequestStep, StartCall, PairEndpoint, ExtendedEndpoint, HyperliquidEndpoint,
          ParadexEndpoint, GuardedPairEndpoint, CanaryCycle, PairCloseEndpoint, AutoClose,
          CleanupEndpointOf, ParadexCleanupEndpoint, ExtendedCleanupEndpoint,
          HyperliquidCleanupEndpoint, ResolveCleanupConfirmation, AutoCleanup,
          PartialFillCleanup, UseLatestConfirmation, UseFreshConfirmation, Abort, Continue,
          PartialFillLookup, PartialFillPendingCheck, PartialFillConfirm, Lookup, ReserveOpen,
          ReserveClose, ReserveCleanupPreview, Refind, ReserveConfirmation, RefindConfirmation,
          Return, RaiseValueError, RaiseTransportError, JournalSubmission, MarkConfirmation,
          MarkPreview, ReleaseConfirmation, ReleasePreview, TypeOK
    <2>2. ASSUME pc'[r] \in HoldingStep, Reserves(r), ~Holds(r)
          PROVE  ~HasHash(GuardTable(r), hash[r])
      <3>1. ReserveOpen(r) \/ ReserveClose(r) \/ ReserveCleanupPreview(r)
        BY <1>2, <2>2 DEF Holds, Reserves, HoldingStep, FirstStep, RequestStep, StartCall,
            PairEndpoint, ExtendedEndpoint, HyperliquidEndpoint, ParadexEndpoint,
            GuardedPairEndpoint, CanaryCycle, PairCloseEndpoint, AutoClose,
            CleanupEndpointOf, ParadexCleanupEndpoint, ExtendedCleanupEndpoint,
            HyperliquidCleanupEndpoint, ResolveCleanupConfirmation, AutoCleanup,
            PartialFillCleanup, UseLatestConfirmation, UseFreshConfirmation, Abort, Continue,
            PartialFillLookup, PartialFillPendingCheck, PartialFillConfirm, Lookup, Refind,
            ReserveConfirmation, RefindConfirmation, Return, RaiseValueError,
            RaiseTransportError, JournalSubmission, MarkConfirmation, MarkPreview,
            ReleaseConfirmation, ReleasePreview, TypeOK
      <3> QED
        BY <1>0, <2>2, <3>1 DEF ReserveOpen, ReserveClose, ReserveCleanupPreview,
            ReservePairOpenAndLive, ReservePairClose, ReserveCleanup, GuardTable, PairOpenEndpoint,
            SingleEndpoint, CloseEndpoint, CleanupEndpoint, HoldingStep, TypeOK
    <2> QED
      BY <2>1, <2>2 DEF ClaimStep
  <1> QED
    BY <1>1, <1>2

LEMMA ClaimStepRefines ==
  ASSUME TypeOK, ClaimInv, NEW r \in Request, ClaimStep(r)
  PROVE  [Once!OnceNext]_(Once!once)
  <1>1. /\ UNCHANGED hash
        /\ hash[r] \in Hash
        /\ \A s \in Request : ReleasesSafely(s)' <=> ReleasesSafely(s)
        /\ \A s \in Request : s # r => (Claims(s)' <=> Claims(s))
    BY CallsAreConstant DEF ClaimStep, Claims, Holds, TypeOK, callVars
  <1>2. \A s \in Request : s # r /\ hash[s] = hash[r] /\ Claims(r) => ~Claims(s)
    BY DEF Claims, ClaimInv, OneClaimant, SameReservation, Claimed, ReleasesSafely
  <1>3. \A s \in sent : ReleasesSafely(s) => Claims(s) /\ s \in Request
    BY DEF Claims, TypeOK
  <1>4. CASE sent' = sent /\ (Claims(r)' <=> Claims(r))
    <2>1. claimantsOf' = claimantsOf /\ submittersOf' = submittersOf
      BY <1>1, <1>4 DEF claimantsOf, submittersOf, TypeOK
    <2> QED
      BY <2>1 DEF Once!once
  <1>5. CASE sent' = sent /\ Claims(r)' /\ ~Claims(r)
    <2>1. ~HasHash(GuardTable(r), hash[r])
      BY <1>1, <1>5, CallsAreConstant DEF ClaimStep, Claims, Holds, ReleasesSafely
    <2>2. \A s \in Request : hash[s] = hash[r] => ~Claims(s)
      BY <2>1 DEF Claims, Claimed, ClaimInv, ClaimedIsReserved, GuardTable, KindOfRequest
    <2>3. claimantsOf[hash[r]] = {}
      BY <1>1, <2>2 DEF claimantsOf
    <2>4. claimantsOf' = [claimantsOf EXCEPT ![hash[r]] = {r}]
      BY <1>1, <1>5, <2>2 DEF claimantsOf
    <2>5. submittersOf' = submittersOf
      BY <1>1, <1>5 DEF submittersOf, TypeOK
    <2>6. Once!Claim(hash[r], r)
      BY <2>3, <2>4, <2>5 DEF Once!Claim
    <2> QED
      BY <1>1, <2>6 DEF Once!OnceNext
  <1>6. CASE sent' = sent /\ ~Claims(r)' /\ Claims(r)
    <2>1. r \notin sent
      BY <1>1, <1>6 DEF Claims
    <2>2. claimantsOf[hash[r]] = {r}
      BY <1>1, <1>2, <1>6 DEF claimantsOf
    <2>3. submittersOf[hash[r]] = {}
      BY <1>1, <1>2, <1>3, <1>6, <2>1 DEF submittersOf
    <2>4. claimantsOf' = [claimantsOf EXCEPT ![hash[r]] = {}]
      BY <1>1, <1>2, <1>6 DEF claimantsOf
    <2>5. submittersOf' = submittersOf
      BY <1>1, <1>6 DEF submittersOf, TypeOK
    <2>6. Once!GiveUp(hash[r], r)
      BY <2>2, <2>3, <2>4, <2>5 DEF Once!GiveUp
    <2> QED
      BY <1>1, <2>6 DEF Once!OnceNext
  <1>7. CASE r \notin sent /\ sent' = sent \cup {r} /\ UNCHANGED pc /\ (Reserves(r) => Holds(r))
    <2>1. Claims(r)' <=> Claims(r)
      BY <1>1, <1>7, CallsAreConstant DEF ClaimStep, Claims, Holds, ReleasesSafely
    <2>2. claimantsOf' = claimantsOf
      BY <1>1, <2>1 DEF claimantsOf
    <2>3. CASE ~ReleasesSafely(r)
      <3>1. submittersOf' = submittersOf
        BY <1>1, <1>7, <2>3 DEF submittersOf, TypeOK
      <3> QED
        BY <2>2, <3>1 DEF Once!once
    <2>4. CASE ReleasesSafely(r)
      <3>1. Claims(r)
        BY <1>7, <2>4 DEF Claims, ReleasesSafely
      <3>2. claimantsOf[hash[r]] = {r}
        BY <1>1, <1>2, <3>1 DEF claimantsOf
      <3>3. submittersOf[hash[r]] = {}
        BY <1>1, <1>2, <1>3, <1>7, <3>1 DEF submittersOf
      <3>4. submittersOf' = [submittersOf EXCEPT ![hash[r]] = {r}]
        BY <1>1, <1>2, <1>3, <1>7, <2>4, <3>1 DEF submittersOf, TypeOK
      <3>5. Once!Submit(hash[r], r)
        BY <2>2, <3>2, <3>3, <3>4 DEF Once!Submit
      <3> QED
        BY <1>1, <3>5 DEF Once!OnceNext
    <2> QED
      BY <2>3, <2>4
  <1> QED
    BY <1>4, <1>5, <1>6, <1>7 DEF ClaimStep

\* The reservations implement SubmissionOnce: every step of every request is a
\* step of the abstract specification, or changes nothing it sees.
THEOREM SubmissionRefines == Spec => SubmitsOnce
  <1>1. Init => Once!OnceInit
    BY DEF Init, Once!OnceInit, claimantsOf, submittersOf, Claims, Holds, HoldingStep
  <1>2. TypeOK /\ ClaimInv /\ [Next]_vars => [Once!OnceNext]_(Once!once)
    <2> SUFFICES ASSUME TypeOK, ClaimInv, [Next]_vars PROVE [Once!OnceNext]_(Once!once)
      OBVIOUS
    <2>1. ASSUME UNCHANGED <<callVars, pc, sent>> PROVE UNCHANGED Once!once
      <3>1. \A r \in Request : Claims(r)' <=> Claims(r)
        BY <2>1, CallsAreConstant DEF Claims, Holds
      <3> QED
        BY <2>1, <3>1, CallsAreConstant DEF Once!once, claimantsOf, submittersOf, callVars, TypeOK
    <2>2. ASSUME NEW h \in Hash, Confirm(h) PROVE UNCHANGED Once!once
      BY <2>1, <2>2 DEF Confirm
    <2>3. CASE UNCHANGED vars
      BY <2>1, <2>3 DEF vars
    <2> QED
      BY <2>2, <2>3, RequestStepClaims, ClaimStepRefines DEF Next
  <1> QED
    BY <1>1, <1>2, TypeCorrect, ClaimsAreExclusive, PTL DEF Spec, SubmitsOnce, Once!OnceSpec

-----------------------------------------------------------------------------
(* The rows of the reservation tables: who owns them, and what they and    *)
(* the journal say of each other.  The claims above tell which request     *)
(* holds a preview; here its rows are followed from the reservation to the *)
(* mark or the release.                                                    *)

-----------------------------------------------------------------------------
(* The invariant.                                                          *)

\* The guard table of a kind of preview.
Table(kind) ==
    CASE kind = "open"  -> pairOpen
      [] kind = "close" -> pairClose
      [] OTHER          -> cleanup

SameKey(r, s) == conf[r] = conf[s] /\ hash[r] = hash[s]
Closing(h) == KindOf[h] # "open"

EarlyStep == {"start", "preview_lookup", "pending_check", "confirm", "lookup", "reserve", "refind",
              "reserve_live", "refind_conf"}
LiveStep  == {"submit", "append", "mark_live", "release_live", "failed", "unknown", "lost"}

\* Requests whose confirmation is reserved for them.
LiveClaimed(r) ==
    \/ pc[r] \in LiveStep \cup {"mark_guard"}
    \/ KindOfRequest(r) = "open" /\ r \in sent

\* A request that has sent an order is past its reservations.
SentIsPast == \A r \in sent : pc[r] \notin EarlyStep

\* A claimed confirmation has its row, and one claimant.
LiveOwned ==
    /\ \A r \in Request : LiveClaimed(r) => HasKey(live, conf[r], hash[r])
    /\ \A r, s \in Request : r # s /\ LiveClaimed(r) /\ LiveClaimed(s) => ~SameKey(r, s)

\* Until it is marked the row has no execution.
LiveUnmarked ==
    \A r \in Request : pc[r] \in LiveStep =>
        \A row \in live : row.conf = conf[r] /\ row.hash = hash[r] => row.entry = NULL

\* The row of a held preview is that of its holder, and has no execution.
GuardOwned ==
    \A r \in Request : Holds(r) =>
        \A row \in Table(KindOfRequest(r)) :
            row.hash = hash[r] => row.conf = conf[r] /\ row.entry = NULL

\* The confirmation of a close or cleanup is reserved after its preview and
\* released before it.
LiveInGuard ==
    /\ \A row \in live : Closing(row.hash) => HasHash(Table(KindOf[row.hash]), row.hash)
    /\ \A r \in Request : Holds(r) /\ Closing(hash[r]) =>
          \A row \in live : row.hash = hash[r] =>
              row.conf = conf[r] /\ pc[r] \notin {"reserve_live", "release_guard"}

\* A request that marks reservations names the execution it has journaled.
EntryIsOwn ==
    \A r \in Request : pc[r] \in {"mark_live", "mark_guard"} =>
        /\ entryId[r] \in DOMAIN journal
        /\ journal[entryId[r]] = [conf |-> conf[r], hash |-> hash[r]]

\* A close or cleanup is journaled while its preview is reserved, by its holder.
JournalInGuard ==
    \A i \in DOMAIN journal : Closing(journal[i].hash) =>
        /\ HasHash(Table(KindOf[journal[i].hash]), journal[i].hash)
        /\ \A r \in Request : Holds(r) /\ hash[r] = journal[i].hash =>
              pc[r] \in {"mark_live", "mark_guard"}

\* A reservation without an execution belongs to a request that holds it or died.
GuardWitness ==
    \A kind \in Kind : \A row \in Table(kind) : row.entry = NULL =>
        \E r \in Request :
            /\ Reserves(r) /\ pc[r] \in HoldingStep \cup {"dead"}
            /\ KindOfRequest(r) = kind /\ conf[r] = row.conf /\ hash[r] = row.hash
LiveWitness ==
    \A row \in live : row.entry = NULL =>
        \E r \in Request :
            pc[r] \in LiveStep \cup {"dead"} /\ conf[r] = row.conf /\ hash[r] = row.hash

\* A completed reservation points to the execution of its preview and confirmation.
PointsToOwn(row) ==
    row.entry # NULL =>
        /\ row.entry \in DOMAIN journal
        /\ journal[row.entry] = [conf |-> row.conf, hash |-> row.hash]
RowsPointToOwn ==
    /\ \A row \in live : PointsToOwn(row)
    /\ \A kind \in Kind : \A row \in Table(kind) : PointsToOwn(row)

\* Where a request goes is decided by what it reserves.
PathsMatch ==
    \A r \in Request :
        /\ KindOfRequest(r) = "open" => pc[r] \notin ReleaseStep
        /\ KindOfRequest(r) = "open" /\ Reserves(r) => pc[r] # "reserve_live"
        /\ ~Reserves(r) => pc[r] # "mark_guard"

ResInv ==
    /\ PathsMatch /\ SentIsPast /\ LiveOwned /\ LiveUnmarked /\ GuardOwned /\ LiveInGuard
    /\ EntryIsOwn /\ JournalInGuard /\ GuardWitness /\ LiveWitness
    /\ RowsPointToOwn /\ ReservationsReleaseTogether /\ OneExecutionPerClosePreview

-----------------------------------------------------------------------------
(* What holds of every state.                                              *)

LEMMA TableTypes ==
  ASSUME TypeOK, NEW kind \in Kind
  PROVE  Table(kind) \subseteq Row
  BY DEF TypeOK, StoreTypeOK, Table

LEMMA JournalTypes ==
  ASSUME TypeOK, NEW i \in DOMAIN journal
  PROVE  journal[i].hash \in Hash /\ KindOf[journal[i].hash] \in Kind
  <1>1. journal \in Seq(Entry)
    BY DEF TypeOK, StoreTypeOK
  <1>2. journal[i] \in Entry
    BY <1>1
  <1>3. journal[i].hash \in Hash
    BY <1>2 DEF Entry
  <1> QED
    BY <1>3, PreviewAssumption

LEMMA Kinds ==
  ASSUME TypeOK, ClaimInv, NEW r \in Request
  PROVE  /\ hash[r] \in Hash /\ KindOfRequest(r) \in Kind
         /\ KindOfRequest(r) = KindOf[hash[r]]
         /\ Closing(hash[r]) <=> KindOfRequest(r) # "open"
         /\ KindOfRequest(r) # "open" => Reserves(r)
         /\ endpoint[r] \in PairOpenEndpoint => KindOfRequest(r) = "open" /\ Reserves(r)
         /\ endpoint[r] \in CloseEndpoint => KindOfRequest(r) = "close" /\ Reserves(r)
         /\ endpoint[r] \in CleanupEndpoint => KindOfRequest(r) = "cleanup" /\ Reserves(r)
         /\ GuardTable(r) = Table(KindOfRequest(r))
  <1>1. \/ KindOfRequest(r) = "open"    /\ endpoint[r] \in PairOpenEndpoint \cup SingleEndpoint
        \/ KindOfRequest(r) = "close"   /\ endpoint[r] \in CloseEndpoint
        \/ KindOfRequest(r) = "cleanup" /\ endpoint[r] \in CleanupEndpoint
    BY PreviewAssumption DEF ClaimInv, CallsMatch, EndpointOf, KindOfRequest, Kind, TypeOK
  <1>2. hash[r] \in Hash /\ KindOfRequest(r) \in Kind /\ KindOfRequest(r) = KindOf[hash[r]]
    BY PreviewAssumption DEF TypeOK, KindOfRequest
  <1>3. GuardTable(r) = Table(KindOfRequest(r))
    BY DEF GuardTable, Table
  <1> QED
    BY <1>1, <1>2, <1>3 DEF Closing, Reserves, PairOpenEndpoint, SingleEndpoint, CloseEndpoint,
        CleanupEndpoint

\* A held preview is reserved, and has one holder.
LEMMA Holders ==
  ASSUME TypeOK, ClaimInv, NEW r \in Request, Holds(r)
  PROVE  /\ \E row \in Table(KindOfRequest(r)) : row.hash = hash[r]
         /\ \A s \in Request : Holds(s) /\ hash[s] = hash[r] => s = r
  <1>1. HasHash(GuardTable(r), hash[r])
    BY DEF ClaimInv, ClaimedIsReserved, Claimed
  <1>2. \A s \in Request : Holds(s) /\ hash[s] = hash[r] => s = r
    BY DEF ClaimInv, OneClaimant, Claimed, SameReservation, Holds
  <1> QED
    BY <1>1, <1>2, Kinds DEF HasHash

\* What a step of r leaves alone.
Frame(r) ==
    /\ UNCHANGED callVars
    /\ \A s \in Request : s # r => pc'[s] = pc[s] /\ conf'[s] = conf[s] /\ entryId'[s] = entryId[s]

LEMMA FrameKinds ==
  ASSUME NEW r \in Request, Frame(r)
  PROVE  /\ hash' = hash
         /\ \A s \in Request : KindOfRequest(s)' = KindOfRequest(s) /\ (Reserves(s)' <=> Reserves(s))
         /\ \A h : Closing(h)' <=> Closing(h)
         /\ \A s \in Request : s # r => (Holds(s)' <=> Holds(s))
  BY DEF Frame, callVars, KindOfRequest, Reserves, Holds, Closing

\* Where r goes when it only moves: it gives up nothing but by dying.
QuietMove(r) ==
    \/ /\ pc[r] \in EarlyStep \ {"reserve_live"}
       /\ pc'[r] \in {"preview_lookup", "pending_check", "confirm", "lookup", "reserve", "refind",
                      "existing", "pending", "conflict", "dead"}
    \/ pc[r] \in EarlyStep \ {"reserve_live"} /\ pc'[r] = "reserve_live" /\ ~Reserves(r)
    \/ /\ pc[r] = "reserve" \/ (pc[r] = "reserve_live" /\ ~Reserves(r))
       /\ pc'[r] = "refind_conf" /\ KindOfRequest(r) = "open"
    \/ pc[r] = "submit" /\ pc'[r] \in {"append", "failed", "unknown", "lost"}
    \/ pc[r] = "submit" /\ pc'[r] = "release_live" /\ KindOfRequest(r) # "open"
    \/ pc[r] \in HoldingStep /\ pc'[r] = "dead"

QuietRequest(r) ==
    /\ Frame(r)
    /\ UNCHANGED <<storeVars, entryId>>
    /\ \/ /\ pc[r] \in {"submit", "lost"} /\ sent' = sent \cup {r}
          /\ pc'[r] = pc[r] /\ conf'[r] = conf[r]
       \/ /\ QuietMove(r) /\ sent' = sent
          /\ pc[r] \in EarlyStep \ {"reserve_live"} \/ conf'[r] = conf[r]

LEMMA QuietKeeps ==
  ASSUME TypeOK, ClaimInv, ResInv, NEW r \in Request, QuietRequest(r)
  PROVE  ResInv'
  <1>1. /\ Frame(r) /\ hash' = hash
        /\ \A s \in Request : KindOfRequest(s)' = KindOfRequest(s) /\ (Reserves(s)' <=> Reserves(s))
        /\ \A h : Closing(h)' <=> Closing(h)
    BY FrameKinds DEF QuietRequest
  <1>2. /\ live' = live /\ journal' = journal
        /\ \A kind : Table(kind)' = Table(kind)
    BY DEF QuietRequest, storeVars, Table
  <1>3. \A s \in Request : LiveClaimed(s)' => LiveClaimed(s) /\ conf'[s] = conf[s]
    BY <1>1 DEF ResInv, SentIsPast, QuietRequest, QuietMove, Frame, LiveClaimed, EarlyStep, LiveStep, HoldingStep
  <1>4. \A s \in Request : Holds(s)' => Holds(s) /\ conf'[s] = conf[s] /\ pc'[s] \in HoldingStep
    BY <1>1 DEF QuietRequest, QuietMove, Frame, Holds, EarlyStep, HoldingStep
  <1>5. \A s \in Request : pc'[s] = pc[s] \/ pc'[s] \notin {"mark_live", "mark_guard", "release_guard"}
    BY <1>1 DEF QuietRequest, QuietMove, Frame
  <1>6. PathsMatch'
    BY <1>1 DEF ResInv, PathsMatch, QuietRequest, QuietMove, Frame, ReleaseStep
  <1>7. SentIsPast'
    BY <1>1 DEF ResInv, SentIsPast, QuietRequest, QuietMove, Frame, EarlyStep, TypeOK
  <1>8. LiveOwned'
    BY <1>1, <1>2, <1>3 DEF ResInv, LiveOwned, HasKey, SameKey
  <1>9. LiveUnmarked'
    <2>1. \A s \in Request : pc'[s] \in LiveStep => pc[s] \in LiveStep /\ conf'[s] = conf[s]
      BY <1>1 DEF QuietRequest, QuietMove, Frame, LiveStep, EarlyStep, HoldingStep
    <2> QED
      BY <1>1, <1>2, <2>1 DEF ResInv, LiveUnmarked
  <1>10. GuardOwned'
    BY <1>1, <1>2, <1>4 DEF ResInv, GuardOwned
  <1>11. LiveInGuard'
    <2>1. \A s \in Request : Holds(s)' /\ pc'[s] \in {"reserve_live", "release_guard"} => pc'[s] = pc[s]
      BY <1>1, <1>5 DEF QuietRequest, QuietMove, Frame, Holds
    <2> QED
      BY <1>1, <1>2, <1>4, <2>1 DEF ResInv, LiveInGuard, HasHash
  <1>12. EntryIsOwn'
    <2>1. \A s \in Request : pc'[s] \in {"mark_live", "mark_guard"} =>
             pc[s] = pc'[s] /\ conf'[s] = conf[s] /\ entryId'[s] = entryId[s]
      BY <1>1, <1>5 DEF QuietRequest, Frame, EarlyStep
    <2> QED
      BY <1>1, <1>2, <2>1 DEF ResInv, EntryIsOwn
  <1>13. JournalInGuard'
    <2>1. \A s \in Request : Holds(s)' /\ pc[s] \in {"mark_live", "mark_guard"} => pc'[s] = pc[s]
      BY <1>1 DEF QuietRequest, QuietMove, Frame, Holds, EarlyStep, HoldingStep
    <2> QED
      BY <1>1, <1>2, <1>4, <2>1 DEF ResInv, JournalInGuard, HasHash
  <1>14. GuardWitness'
    <2>1. \A s \in Request : Reserves(s) /\ pc[s] \in HoldingStep \cup {"dead"} =>
             pc'[s] \in HoldingStep \cup {"dead"} /\ conf'[s] = conf[s]
      BY <1>1 DEF QuietRequest, QuietMove, Frame, EarlyStep, HoldingStep
    <2> QED
      BY <1>1, <1>2, <2>1 DEF ResInv, GuardWitness
  <1>15. LiveWitness'
    <2>1. \A s \in Request : pc[s] \in LiveStep \cup {"dead"} =>
             pc'[s] \in LiveStep \cup {"dead"} /\ conf'[s] = conf[s]
      BY <1>1 DEF QuietRequest, QuietMove, Frame, EarlyStep, LiveStep, HoldingStep
    <2> QED
      BY <1>1, <1>2, <2>1 DEF ResInv, LiveWitness
  <1>16. RowsPointToOwn' /\ OneExecutionPerClosePreview'
    BY <1>1, <1>2 DEF ResInv, RowsPointToOwn, PointsToOwn, OneExecutionPerClosePreview
  <1>17. ReservationsReleaseTogether'
    BY <1>1 DEF ResInv, ReservationsReleaseTogether, QuietRequest, QuietMove, Frame
  <1> QED
    BY <1>6, <1>7, <1>8, <1>9, <1>10, <1>11, <1>12, <1>13, <1>14, <1>15, <1>16, <1>17 DEF ResInv

-----------------------------------------------------------------------------
(* The transactions.  Each lemma follows the rows that one of them writes. *)

\* r reserves its preview, an open its confirmation as well.
Reserving(r) ==
    LET new == NewRow(conf[r], hash[r])
    IN  /\ Frame(r) /\ UNCHANGED <<conf, entryId, sent, journal>>
        /\ Reserves(r) /\ pc[r] = "reserve"
        /\ \A row \in Table(KindOfRequest(r)) : row.hash # hash[r]
        /\ \A kind \in Kind :
              Table(kind)' = IF kind = KindOfRequest(r) THEN Table(kind) \cup {new} ELSE Table(kind)
        /\ \/ /\ KindOfRequest(r) = "open" /\ pc'[r] = "submit"
              /\ ~HasKey(live, conf[r], hash[r]) /\ live' = live \cup {new}
           \/ KindOfRequest(r) # "open" /\ pc'[r] = "reserve_live" /\ live' = live

LEMMA ReservingKeeps ==
  ASSUME TypeOK, ClaimInv, ResInv, NEW r \in Request, Reserving(r)
  PROVE  ResInv'
  <1>1. /\ Frame(r) /\ hash' = hash /\ conf' = conf /\ entryId' = entryId /\ journal' = journal
        /\ \A s \in Request : KindOfRequest(s)' = KindOfRequest(s) /\ (Reserves(s)' <=> Reserves(s))
        /\ \A h : Closing(h)' <=> Closing(h)
        /\ \A s \in Request : s # r => pc'[s] = pc[s] /\ (Holds(s)' <=> Holds(s))
    BY FrameKinds DEF Reserving, Frame
  <1> DEFINE new == NewRow(conf[r], hash[r])
  <1>2. new.conf = conf[r] /\ new.hash = hash[r] /\ new.entry = NULL
    BY DEF NewRow
  <1>3. /\ \A kind \in Kind : kind # KindOfRequest(r) => Table(kind)' = Table(kind)
        /\ Table(KindOfRequest(r))' = Table(KindOfRequest(r)) \cup {new}
        /\ \A kind \in Kind : Table(kind) \subseteq Table(kind)'
    <2>1. \A kind \in Kind :
             Table(kind)' = IF kind = KindOfRequest(r) THEN Table(kind) \cup {new} ELSE Table(kind)
      BY DEF Reserving
    <2>2. KindOfRequest(r) \in Kind /\ KindOfRequest(r)' = KindOfRequest(r)
      BY <1>1, Kinds
    <2>3. \A kind \in Kind : kind # KindOfRequest(r) => Table(kind)' = Table(kind)
      BY <2>1
    <2>4. Table(KindOfRequest(r))' = Table(KindOfRequest(r)) \cup {new}
      BY <2>1, <2>2 DEF Table
    <2> QED
      BY <2>1, <2>3, <2>4
  <1>4. /\ live' = live \/ live' = live \cup {new}
        /\ KindOfRequest(r) # "open" => live' = live
    BY <1>2 DEF Reserving
  <1>5. \A s \in Request : KindOfRequest(s) = KindOf[hash[s]] /\ KindOfRequest(s) \in Kind
    BY Kinds
  <1>6. \A s \in Request : Holds(s) => hash[s] # hash[r]
    BY <1>5, Holders DEF Reserving
  <1>7. pc[r] = "reserve" /\ pc'[r] \in {"submit", "reserve_live"} /\ r \notin sent
    BY DEF Reserving, ResInv, SentIsPast, EarlyStep
  <1>8. PathsMatch'
    BY <1>1 DEF Reserving, ResInv, PathsMatch, ReleaseStep
  <1>9. SentIsPast'
    BY <1>1, <1>7 DEF Reserving, ResInv, SentIsPast, TypeOK
  <1>10. LiveOwned'
    <2>1. \A s \in Request : s # r => (LiveClaimed(s)' <=> LiveClaimed(s))
      BY <1>1 DEF LiveClaimed, Reserving
    <2>2. CASE KindOfRequest(r) = "open"
      <3>1. ~HasKey(live, conf[r], hash[r]) /\ live' = live \cup {new}
        BY <1>2, <2>2 DEF Reserving
      <3>2. \A s \in Request : LiveClaimed(s) => ~SameKey(r, s)
        BY <3>1 DEF ResInv, LiveOwned, SameKey, HasKey
      <3> QED
        BY <1>1, <1>2, <2>1, <3>1, <3>2 DEF ResInv, LiveOwned, SameKey, HasKey
    <2>3. CASE KindOfRequest(r) # "open"
      <3>1. ~LiveClaimed(r)' /\ live' = live
        BY <1>1, <1>4, <1>7, <2>3 DEF LiveClaimed, LiveStep, Reserving
      <3> QED
        BY <1>1, <2>1, <3>1 DEF ResInv, LiveOwned, SameKey, HasKey
    <2> QED
      BY <2>2, <2>3
  <1>11. LiveUnmarked'
    <2>1. pc'[r] \in LiveStep => ~HasKey(live, conf[r], hash[r])
      BY DEF Reserving, LiveStep
    <2> QED
      BY <1>1, <1>2, <1>4, <2>1 DEF ResInv, LiveUnmarked, HasKey
  <1>12. GuardOwned'
    <2>1. \A s \in Request : s # r /\ Holds(s) => hash[s] # hash[r]
      BY <1>6
    <2> QED
      BY <1>1, <1>2, <1>3, <1>5, <2>1 DEF ResInv, GuardOwned, Reserving
  <1>13. LiveInGuard'
    <2>1. \A row \in live' : Closing(row.hash) => row \in live
      BY <1>2, <1>4, <1>5 DEF Closing
    <2>2. \A row \in live : Closing(row.hash) => row.hash \in Hash /\ KindOf[row.hash] \in Kind
      BY PreviewAssumption DEF TypeOK, StoreTypeOK, Row
    <2>3. \A row \in live' : Closing(row.hash) => HasHash(Table(KindOf[row.hash]), row.hash)'
      BY <1>3, <2>1, <2>2 DEF ResInv, LiveInGuard, HasHash
    <2>4. Closing(hash[r]) => \A row \in live' : row.hash # hash[r]
      BY <1>5, <2>1 DEF ResInv, LiveInGuard, HasHash, Reserving
    <2> QED
      BY <1>1, <2>1, <2>3, <2>4 DEF ResInv, LiveInGuard
  <1>14. EntryIsOwn'
    BY <1>1, <1>7 DEF ResInv, EntryIsOwn
  <1>15. JournalInGuard'
    <2>1. \A i \in DOMAIN journal : journal[i].hash \in Hash /\ KindOf[journal[i].hash] \in Kind
      BY JournalTypes
    <2>2. \A i \in DOMAIN journal : Closing(journal[i].hash) =>
             HasHash(Table(KindOf[journal[i].hash]), journal[i].hash)'
      BY <1>1, <1>3, <2>1 DEF ResInv, JournalInGuard, HasHash
    <2>3. \A i \in DOMAIN journal : Closing(journal[i].hash) => journal[i].hash # hash[r]
      BY <1>5, <2>1 DEF ResInv, JournalInGuard, HasHash, Reserving
    <2> QED
      BY <1>1, <2>2, <2>3 DEF ResInv, JournalInGuard
  <1>16. GuardWitness'
    <2>1. Reserves(r) /\ pc'[r] \in HoldingStep
      BY <1>7 DEF Reserving, HoldingStep
    <2>2. \A s \in Request : pc[s] \in HoldingStep \cup {"dead"} => s # r
      BY <1>7 DEF HoldingStep
    <2> QED
      BY <1>1, <1>2, <1>3, <2>1, <2>2 DEF ResInv, GuardWitness
  <1>17. LiveWitness'
    <2>1. live' # live => live' = live \cup {new} /\ pc'[r] \in LiveStep
      BY <1>2 DEF Reserving, LiveStep
    <2>2. \A s \in Request : pc[s] \in LiveStep \cup {"dead"} => s # r
      BY <1>7 DEF LiveStep
    <2> QED
      BY <1>1, <1>2, <2>1, <2>2 DEF ResInv, LiveWitness
  <1>18. RowsPointToOwn'
    BY <1>1, <1>2, <1>3, <1>4 DEF ResInv, RowsPointToOwn, PointsToOwn
  <1>19. ReservationsReleaseTogether' /\ OneExecutionPerClosePreview'
    BY <1>1, <1>7 DEF ResInv, ReservationsReleaseTogether, OneExecutionPerClosePreview
  <1> QED
    BY <1>8, <1>9, <1>10, <1>11, <1>12, <1>13, <1>14, <1>15, <1>16, <1>17, <1>18, <1>19 DEF ResInv

\* r reserves its confirmation alone: its preview is held already, or an open's
\* and not reserved at all.
ReservingConfirmation(r) ==
    /\ Frame(r) /\ UNCHANGED <<conf, entryId, sent, journal>>
    /\ \A kind : Table(kind)' = Table(kind)
    /\ pc[r] = "reserve_live" /\ pc'[r] = "submit"
    /\ ~HasKey(live, conf[r], hash[r]) /\ live' = live \cup {NewRow(conf[r], hash[r])}

LEMMA ReservingConfirmationKeeps ==
  ASSUME TypeOK, ClaimInv, ResInv, NEW r \in Request, ReservingConfirmation(r)
  PROVE  ResInv'
  <1> DEFINE new == NewRow(conf[r], hash[r])
  <1>1. /\ Frame(r) /\ hash' = hash /\ conf' = conf /\ entryId' = entryId /\ journal' = journal
        /\ sent' = sent /\ \A kind : Table(kind)' = Table(kind)
        /\ \A s \in Request : KindOfRequest(s)' = KindOfRequest(s) /\ (Reserves(s)' <=> Reserves(s))
        /\ \A h : Closing(h)' <=> Closing(h)
        /\ \A s \in Request : s # r => pc'[s] = pc[s] /\ (Holds(s)' <=> Holds(s))
    BY FrameKinds DEF ReservingConfirmation, Frame
  <1>2. new.conf = conf[r] /\ new.hash = hash[r] /\ new.entry = NULL
    BY DEF NewRow
  <1>3. live' = live \cup {new} /\ ~HasKey(live, conf[r], hash[r])
    BY DEF ReservingConfirmation
  <1>4. pc[r] = "reserve_live" /\ pc'[r] = "submit" /\ r \notin sent
    BY DEF ReservingConfirmation, ResInv, SentIsPast, EarlyStep
  <1>5. Holds(r)' <=> Holds(r)
    BY <1>1, <1>4 DEF Holds, HoldingStep
  <1>6. Closing(hash[r]) => Holds(r)
    BY <1>4, Kinds DEF Holds, HoldingStep
  <1>7. PathsMatch' /\ SentIsPast'
    BY <1>1, <1>4 DEF ResInv, PathsMatch, SentIsPast, ReleaseStep, EarlyStep, TypeOK
  <1>8. LiveOwned'
    <2>1. \A s \in Request : s # r => (LiveClaimed(s)' <=> LiveClaimed(s))
      BY <1>1 DEF LiveClaimed
    <2>2. \A s \in Request : LiveClaimed(s) => ~SameKey(r, s)
      BY <1>3 DEF ResInv, LiveOwned, SameKey, HasKey
    <2> QED
      BY <1>1, <1>2, <1>3, <2>1, <2>2 DEF ResInv, LiveOwned, SameKey, HasKey
  <1>9. LiveUnmarked'
    BY <1>1, <1>2, <1>3, <1>4 DEF ResInv, LiveUnmarked, HasKey
  <1>10. GuardOwned'
    BY <1>1, <1>5 DEF ResInv, GuardOwned
  <1>11. LiveInGuard'
    <2>1. Closing(hash[r]) => HasHash(Table(KindOf[hash[r]]), hash[r])
      BY <1>6, Kinds, Holders DEF HasHash
    <2>2. \A row \in live' : Closing(row.hash) => HasHash(Table(KindOf[row.hash]), row.hash)'
      BY <1>1, <1>2, <1>3, <2>1 DEF ResInv, LiveInGuard, HasHash
    <2>3. ASSUME NEW s \in Request, Holds(s)', Closing(hash[s]), NEW row \in live', row.hash = hash[s]
          PROVE  row.conf = conf[s] /\ pc'[s] \notin {"reserve_live", "release_guard"}
      <3>1. Holds(s)
        BY <1>1, <1>5, <2>3
      <3>2. CASE row \in live
        BY <1>1, <1>4, <2>3, <3>1, <3>2 DEF ResInv, LiveInGuard
      <3>3. CASE row = new
        <4>1. s = r
          BY <1>2, <1>6, <2>3, <3>1, <3>3, Holders
        <4> QED
          BY <1>2, <1>4, <3>3, <4>1
      <3> QED
        BY <1>3, <2>3, <3>2, <3>3
    <2> QED
      BY <1>1, <2>2, <2>3 DEF LiveInGuard
  <1>12. EntryIsOwn'
    BY <1>1, <1>4 DEF ResInv, EntryIsOwn
  <1>13. JournalInGuard'
    BY <1>1, <1>4, <1>5 DEF ResInv, JournalInGuard, HasHash
  <1>14. GuardWitness'
    <2>1. \A s \in Request : pc[s] \in HoldingStep \cup {"dead"} => pc'[s] \in HoldingStep \cup {"dead"}
      BY <1>1, <1>4 DEF HoldingStep
    <2> QED
      BY <1>1, <2>1 DEF ResInv, GuardWitness
  <1>15. LiveWitness'
    <2>1. pc'[r] \in LiveStep /\ pc[r] \notin LiveStep \cup {"dead"}
      BY <1>4 DEF LiveStep
    <2> QED
      BY <1>1, <1>2, <1>3, <2>1 DEF ResInv, LiveWitness
  <1>16. RowsPointToOwn' /\ ReservationsReleaseTogether' /\ OneExecutionPerClosePreview'
    BY <1>1, <1>2, <1>3, <1>4 DEF ResInv, RowsPointToOwn, PointsToOwn, ReservationsReleaseTogether,
        OneExecutionPerClosePreview
  <1> QED
    BY <1>7, <1>8, <1>9, <1>10, <1>11, <1>12, <1>13, <1>14, <1>15, <1>16 DEF ResInv

\* r journals its submission.
Journaling(r) ==
    /\ Frame(r) /\ UNCHANGED <<conf, sent, live>>
    /\ \A kind : Table(kind)' = Table(kind)
    /\ pc[r] = "append" /\ pc'[r] = "mark_live"
    /\ journal' = Append(journal, [conf |-> conf[r], hash |-> hash[r]])
    /\ entryId'[r] = Len(journal) + 1

LEMMA JournalingKeeps ==
  ASSUME TypeOK, ClaimInv, ResInv, NEW r \in Request, Journaling(r)
  PROVE  ResInv'
  <1> DEFINE new == [conf |-> conf[r], hash |-> hash[r]]
             id  == Len(journal) + 1
  <1>1. /\ Frame(r) /\ hash' = hash /\ conf' = conf /\ live' = live
        /\ sent' = sent /\ \A kind : Table(kind)' = Table(kind)
        /\ \A s \in Request : KindOfRequest(s)' = KindOfRequest(s) /\ (Reserves(s)' <=> Reserves(s))
        /\ \A h : Closing(h)' <=> Closing(h)
        /\ \A s \in Request : s # r => pc'[s] = pc[s] /\ (Holds(s)' <=> Holds(s))
    BY FrameKinds DEF Journaling, Frame
  <1>2. pc[r] = "append" /\ pc'[r] = "mark_live"
    BY DEF Journaling
  <1>3. Holds(r)' <=> Holds(r)
    BY <1>1, <1>2 DEF Holds, HoldingStep
  <1>4. Closing(hash[r]) => Holds(r)
    BY <1>2, Kinds DEF Holds, HoldingStep
  <1>5. journal \in Seq(Entry) /\ new \in Entry /\ journal' = Append(journal, new)
    BY DEF TypeOK, StoreTypeOK, Entry, Journaling
  <1>6. /\ DOMAIN journal' = DOMAIN journal \cup {id}
        /\ \A i \in DOMAIN journal : journal'[i] = journal[i]
        /\ id \notin DOMAIN journal /\ journal'[id] = new
    BY <1>5
  <1>7. PathsMatch' /\ SentIsPast' /\ ReservationsReleaseTogether'
    BY <1>1, <1>2 DEF ResInv, PathsMatch, SentIsPast, ReleaseStep, EarlyStep, TypeOK,
        ReservationsReleaseTogether
  <1>8. LiveOwned'
    <2>1. \A s \in Request : LiveClaimed(s)' <=> LiveClaimed(s)
      BY <1>1, <1>2 DEF LiveClaimed, LiveStep
    <2> QED
      BY <1>1, <2>1 DEF ResInv, LiveOwned, SameKey, HasKey
  <1>9. LiveUnmarked' /\ GuardOwned' /\ LiveInGuard'
    <2>1. pc[r] \in LiveStep
      BY <1>2 DEF LiveStep
    <2> QED
      BY <1>1, <1>2, <1>3, <2>1 DEF ResInv, LiveUnmarked, GuardOwned, LiveInGuard, HasHash
  <1>10. EntryIsOwn'
    <2>1. entryId'[r] = id /\ \A s \in Request : s # r => entryId'[s] = entryId[s]
      BY <1>1 DEF Journaling, Frame
    <2> QED
      BY <1>1, <1>6, <2>1 DEF ResInv, EntryIsOwn
  <1>11. Closing(hash[r]) => \A i \in DOMAIN journal : journal[i].hash # hash[r]
    BY <1>2, <1>4 DEF ResInv, JournalInGuard
  <1>12. JournalInGuard'
    <2>1. Closing(hash[r]) => HasHash(Table(KindOf[hash[r]]), hash[r])
      BY <1>4, Kinds, Holders DEF HasHash
    <2>2. ASSUME NEW i \in DOMAIN journal, Closing(journal[i].hash)
          PROVE  /\ HasHash(Table(KindOf[journal[i].hash]), journal[i].hash)'
                 /\ \A s \in Request : Holds(s)' /\ hash[s] = journal[i].hash =>
                       pc'[s] \in {"mark_live", "mark_guard"}
      BY <1>1, <1>2, <1>3, <1>6, <2>2 DEF ResInv, JournalInGuard, HasHash
    <2>3. Closing(hash[r]) => HasHash(Table(KindOf[hash[r]]), hash[r])'
      BY <1>1, <2>1 DEF HasHash
    <2>4. Closing(hash[r]) => \A s \in Request : Holds(s)' /\ hash[s] = hash[r] => s = r
      BY <1>1, <1>3, <1>4, Holders
    <2>5. ASSUME NEW i \in DOMAIN journal', Closing(journal'[i].hash)
          PROVE  /\ HasHash(Table(KindOf[journal[i].hash]), journal[i].hash)'
                 /\ \A s \in Request : Holds(s)' /\ hash[s] = journal'[i].hash =>
                       pc'[s] \in {"mark_live", "mark_guard"}
      <3>1. CASE i \in DOMAIN journal
        BY <1>6, <2>2, <2>5, <3>1 DEF HasHash
      <3>2. CASE i = id
        <4>1. journal'[i].hash = hash[r] /\ Closing(hash[r])
          BY <1>6, <2>5, <3>2
        <4> QED
          BY <1>1, <1>2, <2>3, <2>4, <4>1 DEF HasHash
      <3> QED
        BY <1>6, <2>5, <3>1, <3>2
    <2> QED
      BY <1>1, <2>5 DEF JournalInGuard
  <1>13. GuardWitness'
    <2>1. \A s \in Request : pc[s] \in HoldingStep \cup {"dead"} => pc'[s] \in HoldingStep \cup {"dead"}
      BY <1>1, <1>2 DEF HoldingStep
    <2> QED
      BY <1>1, <2>1 DEF ResInv, GuardWitness
  <1>14. LiveWitness'
    <2>1. \A s \in Request : pc[s] \in LiveStep \cup {"dead"} => pc'[s] \in LiveStep \cup {"dead"}
      BY <1>1, <1>2 DEF LiveStep
    <2> QED
      BY <1>1, <2>1 DEF ResInv, LiveWitness
  <1>15. RowsPointToOwn'
    <2>1. \A row : PointsToOwn(row) => PointsToOwn(row)'
      BY <1>6 DEF PointsToOwn
    <2> QED
      BY <1>1, <2>1 DEF ResInv, RowsPointToOwn
  <1>16. OneExecutionPerClosePreview'
    <2>1. \A i \in DOMAIN journal : Closing(journal[i].hash) => journal[i].hash # hash[r]
      BY <1>11
    <2> QED
      BY <1>6, <2>1 DEF ResInv, OneExecutionPerClosePreview, Closing
  <1> QED
    BY <1>7, <1>8, <1>9, <1>10, <1>12, <1>13, <1>14, <1>15, <1>16 DEF ResInv

\* r names its execution in the reservation of its confirmation.
MarkingConfirmation(r) ==
    /\ Frame(r) /\ UNCHANGED <<conf, entryId, sent, journal>>
    /\ \A kind : Table(kind)' = Table(kind)
    /\ pc[r] = "mark_live" /\ pc'[r] = IF Reserves(r) THEN "mark_guard" ELSE "done"
    /\ MarkLive(conf[r], hash[r], entryId[r])

LEMMA MarkedRow ==
  ASSUME NEW row \in Row, NEW e
  PROVE  LET marked == [row EXCEPT !.entry = e]
         IN  marked.conf = row.conf /\ marked.hash = row.hash /\ marked.entry = e
  BY DEF Row

LEMMA MarkingConfirmationKeeps ==
  ASSUME TypeOK, ClaimInv, ResInv, NEW r \in Request, MarkingConfirmation(r)
  PROVE  ResInv'
  <1> DEFINE mine(row)   == row.conf = conf[r] /\ row.hash = hash[r]
             marked(row) == [row EXCEPT !.entry = entryId[r]]
  <1>1. /\ Frame(r) /\ hash' = hash /\ conf' = conf /\ entryId' = entryId /\ journal' = journal
        /\ sent' = sent /\ \A kind : Table(kind)' = Table(kind)
        /\ \A s \in Request : KindOfRequest(s)' = KindOfRequest(s) /\ (Reserves(s)' <=> Reserves(s))
        /\ \A h : Closing(h)' <=> Closing(h)
        /\ \A s \in Request : s # r => pc'[s] = pc[s] /\ (Holds(s)' <=> Holds(s))
    BY FrameKinds DEF MarkingConfirmation, Frame
  <1>2. /\ pc[r] = "mark_live" /\ pc'[r] \in {"mark_guard", "done"}
        /\ pc'[r] = "mark_guard" <=> Reserves(r)
    BY DEF MarkingConfirmation
  <1>3. Holds(r)' <=> Holds(r)
    BY <1>1, <1>2 DEF Holds, HoldingStep
  <1>4. live' = {IF mine(row) THEN marked(row) ELSE row : row \in live}
    BY DEF MarkingConfirmation, MarkLive
  <1>5. \A row \in live : row \in Row /\ marked(row).conf = row.conf /\ marked(row).hash = row.hash
                            /\ marked(row).entry = entryId[r]
    BY MarkedRow DEF TypeOK, StoreTypeOK
  \* The rows keep their keys, and only the rows of r change.
  <1>6. /\ \A row \in live' : \E old \in live : old.conf = row.conf /\ old.hash = row.hash
        /\ \A row \in live : \E now \in live' : now.conf = row.conf /\ now.hash = row.hash
        /\ \A row \in live' : mine(row) => row.entry = entryId[r]
        /\ \A row \in live' : ~mine(row) => row \in live
    BY <1>4, <1>5
  <1>7. \A c, h : HasKey(live, c, h)' <=> HasKey(live, c, h)
    <2>1. \A c, h : HasKey(live', c, h) <=> HasKey(live, c, h)
      BY <1>6 DEF HasKey
    <2> QED
      BY <2>1 DEF HasKey
  <1>8. /\ entryId[r] \in DOMAIN journal /\ entryId[r] # NULL
        /\ journal[entryId[r]] = [conf |-> conf[r], hash |-> hash[r]]
    <2>1. journal \in Seq(Entry)
      BY DEF TypeOK, StoreTypeOK
    <2>2. entryId[r] \in DOMAIN journal /\ journal[entryId[r]] = [conf |-> conf[r], hash |-> hash[r]]
      BY <1>2 DEF ResInv, EntryIsOwn
    <2> QED
      BY <2>1, <2>2 DEF NULL
  <1>9. PathsMatch' /\ SentIsPast' /\ ReservationsReleaseTogether'
    BY <1>1, <1>2 DEF ResInv, PathsMatch, SentIsPast, ReleaseStep, EarlyStep, TypeOK,
        ReservationsReleaseTogether
  <1>10. \A s \in Request : LiveClaimed(s)' => LiveClaimed(s)
    BY <1>1, <1>2 DEF LiveClaimed, LiveStep
  <1>11. LiveOwned'
    BY <1>1, <1>7, <1>10 DEF ResInv, LiveOwned, SameKey
  <1>12. LiveUnmarked'
    <2>1. \A s \in Request : pc'[s] \in LiveStep => s # r /\ pc[s] \in LiveStep
      BY <1>1, <1>2 DEF LiveStep
    <2>2. \A s \in Request : pc'[s] \in LiveStep => ~SameKey(r, s)
      BY <1>2, <2>1 DEF ResInv, LiveOwned, LiveClaimed, LiveStep
    <2> QED
      BY <1>1, <1>6, <2>1, <2>2 DEF ResInv, LiveUnmarked, SameKey
  <1>13. GuardOwned'
    BY <1>1, <1>3 DEF ResInv, GuardOwned
  <1>14. LiveInGuard'
    <2>1. \A row \in live' : Closing(row.hash) => HasHash(Table(KindOf[row.hash]), row.hash)'
      BY <1>1, <1>6 DEF ResInv, LiveInGuard, HasHash
    <2> QED
      BY <1>1, <1>2, <1>3, <1>6, <2>1 DEF ResInv, LiveInGuard
  <1>15. EntryIsOwn'
    BY <1>1, <1>2 DEF ResInv, EntryIsOwn
  <1>16. JournalInGuard'
    <2>1. Holds(r)' => pc'[r] = "mark_guard"
      BY <1>1, <1>2 DEF Holds
    <2> QED
      BY <1>1, <1>3, <2>1 DEF ResInv, JournalInGuard, HasHash
  <1>17. GuardWitness'
    <2>1. \A s \in Request : Reserves(s) /\ pc[s] \in HoldingStep \cup {"dead"} =>
             pc'[s] \in HoldingStep \cup {"dead"}
      BY <1>1, <1>2 DEF HoldingStep
    <2> QED
      BY <1>1, <2>1 DEF ResInv, GuardWitness
  <1>18. LiveWitness'
    <2>1. \A row \in live' : row.entry = NULL => row \in live /\ ~mine(row)
      BY <1>6, <1>8
    <2> QED
      BY <1>1, <2>1 DEF ResInv, LiveWitness
  <1>19. RowsPointToOwn'
    <2>1. \A row \in live' : PointsToOwn(row)
      BY <1>6, <1>8 DEF ResInv, RowsPointToOwn, PointsToOwn
    <2> QED
      BY <1>1, <2>1 DEF ResInv, RowsPointToOwn, PointsToOwn
  <1>20. OneExecutionPerClosePreview'
    BY <1>1 DEF ResInv, OneExecutionPerClosePreview
  <1> QED
    BY <1>9, <1>11, <1>12, <1>13, <1>14, <1>15, <1>16, <1>17, <1>18, <1>19, <1>20 DEF ResInv

\* r names its execution in the reservation of its preview.
MarkingPreview(r) ==
    /\ Frame(r) /\ UNCHANGED <<conf, entryId, sent, journal, live>>
    /\ \A kind \in Kind :
          Table(kind)' = IF kind = KindOfRequest(r) THEN MarkHash(Table(kind), hash[r], entryId[r])
                                                    ELSE Table(kind)
    /\ pc[r] = "mark_guard" /\ pc'[r] = "done"

LEMMA MarkingPreviewKeeps ==
  ASSUME TypeOK, ClaimInv, ResInv, NEW r \in Request, MarkingPreview(r)
  PROVE  ResInv'
  <1>0. PICK k \in Kind : k = KindOfRequest(r)
    BY Kinds
  <1> DEFINE marked(row) == [row EXCEPT !.entry = entryId[r]]
  <1>1. /\ Frame(r) /\ hash' = hash /\ conf' = conf /\ entryId' = entryId /\ journal' = journal
        /\ sent' = sent /\ live' = live
        /\ \A s \in Request : KindOfRequest(s)' = KindOfRequest(s) /\ (Reserves(s)' <=> Reserves(s))
        /\ \A h : Closing(h)' <=> Closing(h)
        /\ \A s \in Request : s # r => pc'[s] = pc[s] /\ (Holds(s)' <=> Holds(s))
    BY FrameKinds DEF MarkingPreview, Frame
  <1>2. pc[r] = "mark_guard" /\ pc'[r] = "done" /\ ~Holds(r)' /\ Holds(r)
    BY <1>1 DEF MarkingPreview, Holds, HoldingStep, ResInv, PathsMatch
  <1>3. \A s \in Request : KindOfRequest(s) = KindOf[hash[s]] /\ KindOfRequest(s) \in Kind
    BY Kinds
  <1>4. /\ \A kind \in Kind : kind # k => Table(kind)' = Table(kind)
        /\ Table(k)' = {IF row.hash = hash[r] THEN marked(row) ELSE row : row \in Table(k)}
    <2>1. \A kind \in Kind :
             Table(kind)' = IF kind = k THEN MarkHash(Table(kind), hash[r], entryId[r]) ELSE Table(kind)
      BY <1>0 DEF MarkingPreview
    <2>2. Table(k)' = MarkHash(Table(k), hash[r], entryId[r])
      BY <2>1
    <2> QED
      BY <2>1, <2>2 DEF MarkHash
  <1>5. \A row \in Table(k) : row \in Row /\ marked(row).conf = row.conf /\ marked(row).hash = row.hash
                            /\ marked(row).entry = entryId[r]
    BY MarkedRow, TableTypes
  <1>6. /\ \A row \in Table(k)' : \E old \in Table(k) : old.conf = row.conf /\ old.hash = row.hash
        /\ \A row \in Table(k) : \E now \in Table(k)' : now.conf = row.conf /\ now.hash = row.hash
        /\ \A row \in Table(k)' : row.hash = hash[r] => row.entry = entryId[r]
        /\ \A row \in Table(k)' : row.hash # hash[r] => row \in Table(k)
    BY <1>4, <1>5
  <1>7. \A kind \in Kind : \A h : HasHash(Table(kind), h) => HasHash(Table(kind)', h)
    BY <1>4, <1>6 DEF HasHash
  <1>8. /\ entryId[r] \in DOMAIN journal /\ entryId[r] # NULL
        /\ journal[entryId[r]] = [conf |-> conf[r], hash |-> hash[r]]
    <2>1. journal \in Seq(Entry)
      BY DEF TypeOK, StoreTypeOK
    <2>2. entryId[r] \in DOMAIN journal /\ journal[entryId[r]] = [conf |-> conf[r], hash |-> hash[r]]
      BY <1>2 DEF ResInv, EntryIsOwn
    <2> QED
      BY <2>1, <2>2 DEF NULL
  <1>9. PathsMatch' /\ SentIsPast' /\ ReservationsReleaseTogether'
    BY <1>1, <1>2 DEF ResInv, PathsMatch, SentIsPast, ReleaseStep, EarlyStep, TypeOK,
        ReservationsReleaseTogether
  <1>10. \A s \in Request : LiveClaimed(s)' => LiveClaimed(s)
    BY <1>1, <1>2 DEF LiveClaimed, LiveStep
  <1>11. LiveOwned' /\ LiveUnmarked'
    <2>1. pc'[r] \notin LiveStep
      BY <1>2 DEF LiveStep
    <2> QED
      BY <1>1, <1>10, <2>1 DEF ResInv, LiveOwned, LiveUnmarked, SameKey, HasKey
  <1>12. GuardOwned'
    <2>1. \A s \in Request : Holds(s)' => s # r /\ Holds(s) /\ hash[s] # hash[r]
      BY <1>1, <1>2, Holders
    <2>2. \A s \in Request : \A row : Holds(s)' /\ row \in Table(KindOfRequest(s))' /\ row.hash = hash[s] =>
             row \in Table(KindOfRequest(s))
      <3> SUFFICES ASSUME NEW s \in Request, NEW row, Holds(s)', row \in Table(KindOfRequest(s))',
                          row.hash = hash[s]
                   PROVE  row \in Table(KindOfRequest(s))
        OBVIOUS
      <3>1. PICK j \in Kind : j = KindOfRequest(s)
        BY <1>3
      <3>2. row \in Table(j)'
        BY <1>1, <3>1
      <3>3. row \in Table(j)
        BY <1>4, <1>6, <2>1, <3>2
      <3> QED
        BY <3>1, <3>3
    <2> QED
      BY <1>1, <1>3, <2>1, <2>2 DEF ResInv, GuardOwned
  <1>13. LiveInGuard'
    <2>1. \A row \in live : row.hash \in Hash /\ KindOf[row.hash] \in Kind
      BY PreviewAssumption DEF TypeOK, StoreTypeOK, Row
    <2>2. \A row \in live : Closing(row.hash) => HasHash(Table(KindOf[row.hash])', row.hash)
      BY <1>7, <2>1 DEF ResInv, LiveInGuard
    <2> QED
      BY <1>1, <1>2, <2>2 DEF ResInv, LiveInGuard, HasHash
  <1>14. EntryIsOwn'
    BY <1>1, <1>2 DEF ResInv, EntryIsOwn
  <1>15. JournalInGuard'
    <2>1. \A i \in DOMAIN journal : journal[i].hash \in Hash /\ KindOf[journal[i].hash] \in Kind
      BY JournalTypes
    <2>2. \A i \in DOMAIN journal, kind \in Kind :
             Closing(journal[i].hash) /\ kind = KindOf[journal[i].hash] =>
                HasHash(Table(kind)', journal[i].hash)
      BY <1>7, <2>1 DEF ResInv, JournalInGuard
    <2>3. \A i \in DOMAIN journal : Closing(journal[i].hash) =>
             HasHash(Table(KindOf[journal[i].hash]), journal[i].hash)'
      BY <1>1, <2>1, <2>2 DEF HasHash
    <2> QED
      BY <1>1, <1>2, <2>3 DEF ResInv, JournalInGuard
  <1>16. GuardWitness'
    <2>1. \A row \in Table(k)' : row.entry = NULL => row \in Table(k) /\ row.hash # hash[r]
      BY <1>6, <1>8
    <2>2. \A kind \in Kind : \A row : row \in Table(kind)' /\ row.entry = NULL => row \in Table(kind)
      BY <1>4, <2>1
    <2>3. \A kind \in Kind : \A row : row \in Table(kind)' /\ row.entry = NULL =>
             ~(kind = k /\ row.hash = hash[r])
      BY <2>1
    <2> QED
      BY <1>0, <1>1, <1>2, <2>2, <2>3 DEF ResInv, GuardWitness
  <1>17. LiveWitness'
    <2>1. pc[r] \notin LiveStep \cup {"dead"}
      BY <1>2 DEF LiveStep
    <2> QED
      BY <1>1, <2>1 DEF ResInv, LiveWitness
  <1>18. RowsPointToOwn'
    <2>1. \A row \in Table(k)' : row.hash = hash[r] => row.conf = conf[r]
      BY <1>0, <1>2, <1>6 DEF ResInv, GuardOwned
    <2>2. \A row \in Table(k)' : PointsToOwn(row)
      BY <1>3, <1>6, <1>8, <2>1 DEF ResInv, RowsPointToOwn, PointsToOwn
    <2>3. \A kind \in Kind : \A row \in Table(kind)' : PointsToOwn(row)
      BY <1>4, <2>2 DEF ResInv, RowsPointToOwn
    <2> QED
      BY <1>1, <2>3 DEF ResInv, RowsPointToOwn, PointsToOwn
  <1>19. OneExecutionPerClosePreview'
    BY <1>1 DEF ResInv, OneExecutionPerClosePreview
  <1> QED
    BY <1>9, <1>11, <1>12, <1>13, <1>14, <1>15, <1>16, <1>17, <1>18, <1>19 DEF ResInv

\* r releases its confirmation.
ReleasingConfirmation(r) ==
    /\ Frame(r) /\ UNCHANGED <<conf, entryId, sent, journal>>
    /\ \A kind : Table(kind)' = Table(kind)
    /\ pc[r] = "release_live" /\ live' = live \ Releasable(live, conf[r], hash[r])
    /\ pc'[r] = IF Releasable(live, conf[r], hash[r]) # {} THEN "release_guard" ELSE "release_guard_only"

LEMMA ReleasingConfirmationKeeps ==
  ASSUME TypeOK, ClaimInv, ResInv, NEW r \in Request, ReleasingConfirmation(r)
  PROVE  ResInv'
  <1> DEFINE mine(row) == row.conf = conf[r] /\ row.hash = hash[r]
  <1>1. /\ Frame(r) /\ hash' = hash /\ conf' = conf /\ entryId' = entryId /\ journal' = journal
        /\ sent' = sent /\ \A kind : Table(kind)' = Table(kind)
        /\ \A s \in Request : KindOfRequest(s)' = KindOfRequest(s) /\ (Reserves(s)' <=> Reserves(s))
        /\ \A h : Closing(h)' <=> Closing(h)
        /\ \A s \in Request : s # r => pc'[s] = pc[s] /\ (Holds(s)' <=> Holds(s))
    BY FrameKinds DEF ReleasingConfirmation, Frame
  \* Its row is there, without an execution, so the release deletes it.
  <1>2. PICK own \in live : mine(own) /\ own.entry = NULL
    <2>1. LiveClaimed(r) /\ pc[r] \in LiveStep
      BY DEF ReleasingConfirmation, LiveClaimed, LiveStep
    <2> QED
      BY <2>1 DEF ResInv, LiveOwned, LiveUnmarked, HasKey
  <1>3. pc[r] = "release_live" /\ pc'[r] = "release_guard"
    BY <1>2 DEF ReleasingConfirmation, Releasable
  <1>4. live' = {row \in live : ~mine(row)}
    <2>1. pc[r] \in LiveStep
      BY <1>3 DEF LiveStep
    <2> QED
      BY <2>1 DEF ReleasingConfirmation, Releasable, ResInv, LiveUnmarked
  <1>5. KindOfRequest(r) # "open" /\ Closing(hash[r]) /\ Holds(r) /\ Holds(r)'
    BY <1>1, <1>3, Kinds DEF ResInv, PathsMatch, ReleaseStep, Holds, HoldingStep
  <1>6. \A row \in live' : row.hash # hash[r]
    BY <1>4, <1>5 DEF ResInv, LiveInGuard
  <1>7. PathsMatch' /\ SentIsPast' /\ ReservationsReleaseTogether'
    BY <1>1, <1>3, <1>5 DEF ResInv, PathsMatch, SentIsPast, EarlyStep, TypeOK,
        ReservationsReleaseTogether
  <1>8. \A s \in Request : LiveClaimed(s)' => s # r /\ LiveClaimed(s)
    BY <1>1, <1>3, <1>5 DEF LiveClaimed, LiveStep
  <1>9. LiveOwned'
    <2>1. \A s \in Request : LiveClaimed(s)' => ~SameKey(r, s)
      <3>1. LiveClaimed(r)
        BY <1>3 DEF LiveClaimed, LiveStep
      <3> QED
        BY <1>8, <3>1 DEF ResInv, LiveOwned
    <2>2. \A s \in Request : LiveClaimed(s)' => HasKey(live', conf[s], hash[s])
      BY <1>4, <1>8, <2>1 DEF ResInv, LiveOwned, HasKey, SameKey
    <2> QED
      BY <1>1, <1>8, <2>2 DEF ResInv, LiveOwned, HasKey, SameKey
  <1>10. LiveUnmarked'
    BY <1>1, <1>3, <1>4 DEF ResInv, LiveUnmarked, LiveStep
  <1>11. GuardOwned'
    BY <1>1, <1>5 DEF ResInv, GuardOwned
  <1>12. LiveInGuard'
    <2>1. \A row \in live' : Closing(row.hash) => HasHash(Table(KindOf[row.hash]), row.hash)'
      BY <1>1, <1>4 DEF ResInv, LiveInGuard, HasHash
    <2> QED
      BY <1>1, <1>4, <1>6, <2>1 DEF ResInv, LiveInGuard
  <1>13. EntryIsOwn' /\ JournalInGuard'
    BY <1>1, <1>3, <1>5 DEF ResInv, EntryIsOwn, JournalInGuard, HasHash
  <1>14. GuardWitness'
    <2>1. pc'[r] \in HoldingStep
      BY <1>3 DEF HoldingStep
    <2> QED
      BY <1>1, <2>1 DEF ResInv, GuardWitness
  <1>15. LiveWitness'
    <2>1. \A row \in live' : row \in live /\ ~mine(row)
      BY <1>4
    <2> QED
      BY <1>1, <2>1 DEF ResInv, LiveWitness
  <1>16. RowsPointToOwn' /\ OneExecutionPerClosePreview'
    BY <1>1, <1>4 DEF ResInv, RowsPointToOwn, PointsToOwn, OneExecutionPerClosePreview
  <1> QED
    BY <1>7, <1>9, <1>10, <1>11, <1>12, <1>13, <1>14, <1>15, <1>16 DEF ResInv

\* r releases its preview.
ReleasingPreview(r) ==
    /\ Frame(r) /\ UNCHANGED <<conf, entryId, sent, journal, live>>
    /\ \A kind \in Kind :
          Table(kind)' = IF kind = KindOfRequest(r)
                         THEN Table(kind) \ Releasable(Table(kind), conf[r], hash[r])
                         ELSE Table(kind)
    /\ \/ /\ pc[r] = "release_guard"
          /\ pc'[r] = IF Releasable(Table(KindOfRequest(r)), conf[r], hash[r]) # {}
                      THEN "released" ELSE "stuck"
       \/ pc[r] = "release_guard_only" /\ pc'[r] = "stuck"

LEMMA ReleasingPreviewKeeps ==
  ASSUME TypeOK, ClaimInv, ResInv, NEW r \in Request, ReleasingPreview(r)
  PROVE  ResInv'
  <1>0. PICK k \in Kind : k = KindOfRequest(r)
    BY Kinds
  <1>1. /\ Frame(r) /\ hash' = hash /\ conf' = conf /\ entryId' = entryId /\ journal' = journal
        /\ sent' = sent /\ live' = live
        /\ \A s \in Request : KindOfRequest(s)' = KindOfRequest(s) /\ (Reserves(s)' <=> Reserves(s))
        /\ \A h : Closing(h)' <=> Closing(h)
        /\ \A s \in Request : s # r => pc'[s] = pc[s] /\ (Holds(s)' <=> Holds(s))
    BY FrameKinds DEF ReleasingPreview, Frame
  <1>2. /\ pc[r] \in {"release_guard", "release_guard_only"}
        /\ k # "open" /\ Closing(hash[r]) /\ Reserves(r) /\ Holds(r)
    <2>1. pc[r] \in {"release_guard", "release_guard_only"}
      BY DEF ReleasingPreview
    <2>2. KindOfRequest(r) # "open"
      BY <2>1 DEF ResInv, PathsMatch, ReleaseStep
    <2>3. Reserves(r) /\ Closing(hash[r])
      BY <2>2, Kinds
    <2> QED
      BY <1>0, <2>1, <2>2, <2>3 DEF Holds, HoldingStep
  <1>3. pc[r] = "release_guard"
    BY <1>0, <1>2 DEF ResInv, ReservationsReleaseTogether
  \* Its row is there, without an execution, so the release deletes it.
  <1>4. \A row \in Table(k) : row.hash = hash[r] <=> row \in Releasable(Table(k), conf[r], hash[r])
    BY <1>0, <1>2 DEF ResInv, GuardOwned, Releasable
  <1>5. pc'[r] = "released"
    <2>1. \E row \in Table(k) : row.hash = hash[r]
      BY <1>0, <1>2, Holders
    <2> QED
      BY <1>0, <1>3, <1>4, <2>1 DEF ReleasingPreview
  <1>6. /\ \A kind \in Kind : kind # k => Table(kind)' = Table(kind)
        /\ Table(k)' = {row \in Table(k) : row.hash # hash[r]}
    <2>1. \A kind \in Kind :
             Table(kind)' = IF kind = k THEN Table(kind) \ Releasable(Table(kind), conf[r], hash[r])
                                        ELSE Table(kind)
      BY <1>0 DEF ReleasingPreview
    <2>2. Table(k)' = Table(k) \ Releasable(Table(k), conf[r], hash[r])
      BY <2>1
    <2> QED
      BY <1>4, <2>1, <2>2 DEF Releasable
  <1>7. \A kind \in Kind : \A h : HasHash(Table(kind), h) /\ h # hash[r] => HasHash(Table(kind)', h)
    BY <1>6 DEF HasHash
  \* Nothing else speaks of the preview.
  <1>8. /\ \A row \in live : row.hash # hash[r]
        /\ \A i \in DOMAIN journal : Closing(journal[i].hash) => journal[i].hash # hash[r]
        /\ \A s \in Request : Holds(s) /\ s # r => hash[s] # hash[r]
    BY <1>2, <1>3, Holders DEF ResInv, LiveInGuard, JournalInGuard
  <1>9. ~Holds(r)'
    BY <1>1, <1>5 DEF Holds, HoldingStep
  <1>10. \A s \in Request : KindOfRequest(s) = KindOf[hash[s]] /\ KindOfRequest(s) \in Kind
    BY Kinds
  <1>11. PathsMatch' /\ SentIsPast' /\ ReservationsReleaseTogether'
    BY <1>1, <1>5 DEF ResInv, PathsMatch, SentIsPast, EarlyStep, ReleaseStep, TypeOK,
        ReservationsReleaseTogether
  <1>12. \A s \in Request : LiveClaimed(s)' => LiveClaimed(s)
    BY <1>1, <1>5 DEF LiveClaimed, LiveStep
  <1>13. LiveOwned' /\ LiveUnmarked'
    <2>1. pc'[r] \notin LiveStep
      BY <1>5 DEF LiveStep
    <2> QED
      BY <1>1, <1>12, <2>1 DEF ResInv, LiveOwned, LiveUnmarked, SameKey, HasKey
  <1>14. \A kind \in Kind : \A row : row \in Table(kind)' => row \in Table(kind)
    BY <1>6
  <1>15. GuardOwned'
    <2>1. \A s \in Request : Holds(s)' => s # r /\ Holds(s)
      BY <1>1, <1>9
    <2>2. \A s \in Request : \A row : row \in Table(KindOfRequest(s))' => row \in Table(KindOfRequest(s))
      <3> SUFFICES ASSUME NEW s \in Request, NEW row, row \in Table(KindOfRequest(s))'
                   PROVE  row \in Table(KindOfRequest(s))
        OBVIOUS
      <3>1. PICK j \in Kind : j = KindOfRequest(s)
        BY <1>10
      <3>2. row \in Table(j)'
        BY <1>1, <3>1
      <3> QED
        BY <1>14, <3>1, <3>2
    <2> QED
      BY <1>1, <2>1, <2>2 DEF ResInv, GuardOwned
  <1>16. LiveInGuard'
    <2>1. \A row \in live : row.hash \in Hash /\ KindOf[row.hash] \in Kind
      BY PreviewAssumption DEF TypeOK, StoreTypeOK, Row
    <2>2. \A row \in live : Closing(row.hash) => HasHash(Table(KindOf[row.hash])', row.hash)
      BY <1>7, <1>8, <2>1 DEF ResInv, LiveInGuard
    <2> QED
      BY <1>1, <1>9, <2>2 DEF ResInv, LiveInGuard, HasHash
  <1>17. EntryIsOwn'
    BY <1>1, <1>5 DEF ResInv, EntryIsOwn
  <1>18. JournalInGuard'
    <2>1. \A i \in DOMAIN journal : journal[i].hash \in Hash /\ KindOf[journal[i].hash] \in Kind
      BY JournalTypes
    <2>2. \A i \in DOMAIN journal, kind \in Kind :
             Closing(journal[i].hash) /\ kind = KindOf[journal[i].hash] =>
                HasHash(Table(kind)', journal[i].hash)
      BY <1>7, <1>8, <2>1 DEF ResInv, JournalInGuard
    <2>3. \A i \in DOMAIN journal : Closing(journal[i].hash) =>
             HasHash(Table(KindOf[journal[i].hash]), journal[i].hash)'
      BY <1>1, <2>1, <2>2 DEF HasHash
    <2> QED
      BY <1>1, <1>9, <2>3 DEF ResInv, JournalInGuard
  <1>19. GuardWitness'
    <2>1. \A kind \in Kind : \A row : row \in Table(kind)' => ~(kind = k /\ row.hash = hash[r])
      BY <1>6
    <2> QED
      BY <1>0, <1>1, <1>14, <2>1 DEF ResInv, GuardWitness
  <1>20. LiveWitness'
    BY <1>1, <1>8 DEF ResInv, LiveWitness
  <1>21. RowsPointToOwn'
    BY <1>1, <1>14 DEF ResInv, RowsPointToOwn, PointsToOwn
  <1>22. OneExecutionPerClosePreview'
    BY <1>1 DEF ResInv, OneExecutionPerClosePreview
  <1> QED
    BY <1>11, <1>13, <1>15, <1>16, <1>17, <1>18, <1>19, <1>20, <1>21, <1>22 DEF ResInv

-----------------------------------------------------------------------------
(* Every step of a request is one of these.                                *)

StoreStep(r) ==
    \/ QuietRequest(r)         \/ Reserving(r)       \/ ReservingConfirmation(r)
    \/ Journaling(r)           \/ MarkingConfirmation(r) \/ MarkingPreview(r)
    \/ ReleasingConfirmation(r) \/ ReleasingPreview(r)

LEMMA StartCallSteps ==
  ASSUME TypeOK, NEW r \in Request, StartCall(r) \/ PartialFillConfirm(r)
  PROVE  QuietRequest(r)
  <1>1. /\ UNCHANGED <<storeVars, callVars, entryId, sent>>
        /\ pc[r] \in {"start", "confirm"}
        /\ \E c : conf' = [conf EXCEPT ![r] = c] \/ conf' = conf
        /\ pc' = [pc EXCEPT ![r] = FirstStep(r)] \/ pc' = [pc EXCEPT ![r] = "preview_lookup"]
    BY DEF StartCall, PairEndpoint, ExtendedEndpoint, HyperliquidEndpoint, ParadexEndpoint,
        GuardedPairEndpoint, CanaryCycle, PairCloseEndpoint, AutoClose, CleanupEndpointOf,
        ParadexCleanupEndpoint, ExtendedCleanupEndpoint, HyperliquidCleanupEndpoint,
        ResolveCleanupConfirmation, AutoCleanup, PartialFillCleanup, UseLatestConfirmation,
        UseFreshConfirmation, PartialFillConfirm, Move, Goto, callVars
  <1>2. Frame(r)
    BY <1>1 DEF Frame, TypeOK
  <1>3. \/ pc'[r] \in {"lookup", "preview_lookup"}
        \/ pc'[r] = "reserve_live" /\ ~Reserves(r)
    BY <1>1 DEF FirstStep, Reserves, TypeOK
  <1> QED
    BY <1>1, <1>2, <1>3 DEF QuietRequest, QuietMove, EarlyStep

LEMMA ContinueSteps ==
  ASSUME TypeOK, ClaimInv, ResInv, NEW r \in Request, Continue(r)
  PROVE  StoreStep(r)
  <1> USE DEF Move, Goto
  <1>0. /\ endpoint[r] \in PairOpenEndpoint => KindOfRequest(r) = "open" /\ Reserves(r)
        /\ endpoint[r] \in CloseEndpoint => KindOfRequest(r) = "close" /\ Reserves(r)
        /\ endpoint[r] \in CleanupEndpoint => KindOfRequest(r) = "cleanup" /\ Reserves(r)
        /\ KindOfRequest(r) \in Kind /\ GuardTable(r) = Table(KindOfRequest(r))
        /\ "open" \in Kind /\ "close" \in Kind /\ "cleanup" \in Kind
    BY Kinds DEF Kind
  <1>1. ASSUME UNCHANGED <<callVars, conf, entryId>>, NEW to, pc' = [pc EXCEPT ![r] = to]
        PROVE  Frame(r) /\ pc'[r] = to
    BY <1>1 DEF Frame, TypeOK
  <1>2. ASSUME UNCHANGED <<storeVars, callVars, conf, entryId, sent>>, NEW to,
               pc' = [pc EXCEPT ![r] = to], pc'[r] = to => QuietMove(r)
        PROVE  QuietRequest(r)
    BY <1>1, <1>2 DEF QuietRequest
  <1>3. CASE PartialFillLookup(r) \/ PartialFillPendingCheck(r) \/ Lookup(r) \/ Refind(r)
             \/ RefindConfirmation(r) \/ Return(r)
    <2>1. UNCHANGED <<storeVars, callVars, conf, entryId, sent>> /\ \E to : pc' = [pc EXCEPT ![r] = to]
      BY <1>3 DEF PartialFillLookup, PartialFillPendingCheck, Lookup, Refind, RefindConfirmation, Return
    <2>2. QuietMove(r)
      BY <1>3 DEF PartialFillLookup, PartialFillPendingCheck, Lookup, Refind, RefindConfirmation,
          Return, QuietMove, EarlyStep, TypeOK
    <2> QED
      BY <1>2, <2>1, <2>2 DEF StoreStep
  <1>4. CASE RaiseValueError(r) \/ RaiseTransportError(r)
    <2>1. UNCHANGED <<storeVars, callVars, conf, entryId, sent>> /\ \E to : pc' = [pc EXCEPT ![r] = to]
      BY <1>4 DEF RaiseValueError, RaiseTransportError
    <2>2. QuietMove(r)
      BY <1>0, <1>4 DEF RaiseValueError, RaiseTransportError, QuietMove, CleanupEndpoint, TypeOK
    <2> QED
      BY <1>2, <2>1, <2>2 DEF StoreStep
  <1>5. CASE PartialFillConfirm(r)
    BY <1>5, StartCallSteps DEF StoreStep
  <1>6. CASE (ReserveOpen(r) \/ ReserveClose(r) \/ ReserveCleanupPreview(r)) /\ UNCHANGED storeVars
             /\ pc'[r] \in {"refind", "refind_conf"}
    <2>1. UNCHANGED <<storeVars, callVars, conf, entryId, sent>> /\ \E to : pc' = [pc EXCEPT ![r] = to]
      BY <1>6 DEF ReserveOpen, ReserveClose, ReserveCleanupPreview
    <2>2. QuietMove(r)
      BY <1>0, <1>6 DEF ReserveOpen, ReserveClose, ReserveCleanupPreview, QuietMove, EarlyStep, TypeOK
    <2> QED
      BY <1>2, <2>1, <2>2 DEF StoreStep
  <1>7. CASE ReserveOpen(r) /\ ReservePairOpenAndLive(conf[r], hash[r]) /\ pc' = [pc EXCEPT ![r] = "submit"]
    <2>1. Frame(r) /\ pc'[r] = "submit" /\ pc[r] = "reserve" /\ KindOfRequest(r) = "open" /\ Reserves(r)
      BY <1>0, <1>1, <1>7 DEF ReserveOpen
    <2>2. \A kind \in Kind :
             Table(kind)' = IF kind = "open" THEN Table(kind) \cup {NewRow(conf[r], hash[r])} ELSE Table(kind)
      BY <1>7 DEF ReservePairOpenAndLive, Table, Kind
    <2>3. \A row \in Table("open") : row.hash # hash[r]
      BY <1>7 DEF ReservePairOpenAndLive, Table, HasHash
    <2> QED
      BY <1>7, <2>1, <2>2, <2>3 DEF StoreStep, Reserving, ReserveOpen, ReservePairOpenAndLive
  <1>8. CASE ReserveClose(r) /\ ReservePairClose(conf[r], hash[r]) /\ pc' = [pc EXCEPT ![r] = "reserve_live"]
    <2>1. Frame(r) /\ pc'[r] = "reserve_live" /\ pc[r] = "reserve" /\ KindOfRequest(r) = "close" /\ Reserves(r)
      BY <1>0, <1>1, <1>8 DEF ReserveClose
    <2>2. \A kind \in Kind :
             Table(kind)' = IF kind = "close" THEN Table(kind) \cup {NewRow(conf[r], hash[r])} ELSE Table(kind)
      BY <1>8 DEF ReservePairClose, Table, Kind
    <2>3. \A row \in Table("close") : row.hash # hash[r]
      BY <1>8 DEF ReservePairClose, Table, HasHash
    <2> QED
      BY <1>8, <2>1, <2>2, <2>3 DEF StoreStep, Reserving, ReserveClose, ReservePairClose
  <1>9. CASE ReserveCleanupPreview(r) /\ ReserveCleanup(conf[r], hash[r]) /\ pc' = [pc EXCEPT ![r] = "reserve_live"]
    <2>1. Frame(r) /\ pc'[r] = "reserve_live" /\ pc[r] = "reserve" /\ KindOfRequest(r) = "cleanup" /\ Reserves(r)
      BY <1>0, <1>1, <1>9 DEF ReserveCleanupPreview
    <2>2. \A kind \in Kind :
             Table(kind)' = IF kind = "cleanup" THEN Table(kind) \cup {NewRow(conf[r], hash[r])} ELSE Table(kind)
      BY <1>9 DEF ReserveCleanup, Table, Kind
    <2>3. \A row \in Table("cleanup") : row.hash # hash[r]
      BY <1>9 DEF ReserveCleanup, Table, HasHash
    <2> QED
      BY <1>9, <2>1, <2>2, <2>3 DEF StoreStep, Reserving, ReserveCleanupPreview, ReserveCleanup
  <1>10. CASE ReserveConfirmation(r)
    <2>1. CASE ReserveLive(conf[r], hash[r]) /\ pc' = [pc EXCEPT ![r] = "submit"]
      <3>1. Frame(r) /\ pc'[r] = "submit"
        BY <1>1, <1>10, <2>1 DEF ReserveConfirmation
      <3>2. \A kind : Table(kind)' = Table(kind)
        BY <2>1 DEF ReserveLive, Table
      <3> QED
        BY <1>10, <2>1, <3>1, <3>2 DEF ReserveConfirmation, ReserveLive, ReservingConfirmation, StoreStep
    \* The confirmation of a held preview has not been reserved by another.
    <2>2. CASE HasKey(live, conf[r], hash[r]) /\ UNCHANGED storeVars /\ pc' = [pc EXCEPT ![r] = "refind_conf"]
      <3>1. pc[r] = "reserve_live"
        BY <1>10 DEF ReserveConfirmation
      <3>2. ASSUME Reserves(r) PROVE FALSE
        <4>1. Holds(r)
          BY <3>1, <3>2 DEF Holds, HoldingStep
        <4>2. Closing(hash[r])
          BY <3>1, <3>2, Kinds DEF ResInv, PathsMatch
        <4> QED
          BY <2>2, <3>1, <4>1, <4>2 DEF ResInv, LiveInGuard, HasKey
      <3>3. KindOfRequest(r) = "open" /\ ~Reserves(r)
        BY <3>2, Kinds
      <3>4. pc'[r] = "refind_conf" => QuietMove(r)
        BY <3>1, <3>3 DEF QuietMove
      <3> QED
        BY <1>2, <1>10, <2>2, <3>4 DEF ReserveConfirmation, StoreStep
    <2> QED
      BY <1>10, <2>1, <2>2 DEF ReserveConfirmation
  <1>11. CASE JournalSubmission(r)
    <2>1. \A kind : Table(kind)' = Table(kind)
      BY <1>11 DEF JournalSubmission, AppendEntry, Table
    <2>2. Frame(r) /\ pc'[r] = "mark_live" /\ entryId'[r] = Len(journal) + 1
      BY <1>11 DEF JournalSubmission, Frame, TypeOK
    <2> QED
      BY <1>11, <2>1, <2>2 DEF JournalSubmission, AppendEntry, Journaling, StoreStep
  <1>12. CASE MarkConfirmation(r)
    <2>1. \A kind : Table(kind)' = Table(kind)
      BY <1>12 DEF MarkConfirmation, MarkLive, Table
    <2>2. Frame(r) /\ pc'[r] = IF Reserves(r) THEN "mark_guard" ELSE "done"
      BY <1>12 DEF MarkConfirmation, Frame, Reserves, TypeOK
    <2> QED
      BY <1>12, <2>1, <2>2 DEF MarkConfirmation, MarkLive, MarkingConfirmation, StoreStep
  <1>13. CASE MarkPreview(r)
    <2>1. Frame(r) /\ pc'[r] = "done"
      BY <1>1, <1>13 DEF MarkPreview
    <2>2. \A kind \in Kind :
             Table(kind)' = IF kind = KindOfRequest(r) THEN MarkHash(Table(kind), hash[r], entryId[r])
                                                       ELSE Table(kind)
      BY <1>13 DEF MarkPreview, MarkPairOpen, MarkPairClose, MarkCleanup, Table, Kind
    <2> QED
      BY <1>13, <2>1, <2>2 DEF MarkPreview, MarkPairOpen, MarkPairClose, MarkCleanup, MarkingPreview, StoreStep
  <1>14. CASE ReleaseConfirmation(r)
    <2>1. \A kind : Table(kind)' = Table(kind)
      BY <1>14 DEF ReleaseConfirmation, ReleaseLive, Table
    <2>2. Frame(r) /\ pc'[r] = IF Releasable(live, conf[r], hash[r]) # {} THEN "release_guard"
                                                                          ELSE "release_guard_only"
      BY <1>1, <1>14 DEF ReleaseConfirmation
    <2> QED
      BY <1>14, <2>1, <2>2 DEF ReleaseConfirmation, ReleaseLive, ReleasingConfirmation, StoreStep
  <1>15. CASE ReleasePreview(r)
    <2>1. /\ Frame(r)
          /\ \/ /\ pc[r] = "release_guard"
                /\ pc'[r] = IF Releasable(GuardTable(r), conf[r], hash[r]) # {} THEN "released" ELSE "stuck"
             \/ pc[r] = "release_guard_only" /\ pc'[r] = "stuck"
      BY <1>15 DEF ReleasePreview, Frame, TypeOK
    <2>2. \A kind \in Kind :
             Table(kind)' = IF kind = KindOfRequest(r)
                            THEN Table(kind) \ Releasable(Table(kind), conf[r], hash[r]) ELSE Table(kind)
      BY <1>15 DEF ReleasePreview, ReleasePairClose, ReleaseCleanup, Table, Kind
    <2> QED
      BY <1>0, <1>15, <2>1, <2>2
      DEF ReleasePreview, ReleasePairClose, ReleaseCleanup, ReleasingPreview, StoreStep
  <1>16. CASE ReserveOpen(r) \/ ReserveClose(r) \/ ReserveCleanupPreview(r)
    BY <1>6, <1>7, <1>8, <1>9, <1>16 DEF ReserveOpen, ReserveClose, ReserveCleanupPreview, TypeOK
  <1> QED
    BY <1>3, <1>4, <1>5, <1>10, <1>11, <1>12, <1>13, <1>14, <1>15, <1>16 DEF Continue

LEMMA RequestSteps ==
  ASSUME TypeOK, ClaimInv, ResInv, NEW r \in Request, RequestStep(r)
  PROVE  StoreStep(r)
  <1>1. CASE Send(r)
    BY <1>1 DEF Send, QuietRequest, Frame, StoreStep
  <1>2. CASE Abort(r)
    <2>1. /\ UNCHANGED <<storeVars, callVars, conf, entryId, sent>>
          /\ \A s \in Request : s # r => pc'[s] = pc[s]
          /\ pc[r] \in Step \ {"start"} /\ pc'[r] = IF pc[r] = "submit" THEN "lost" ELSE "dead"
      BY <1>2 DEF Abort, Goto, TypeOK
    <2>2. QuietMove(r)
      BY <2>1 DEF QuietMove, Step, EarlyStep, HoldingStep
    <2> QED
      BY <2>1, <2>2 DEF QuietRequest, Frame, StoreStep
  <1> QED
    BY <1>1, <1>2, StartCallSteps, ContinueSteps DEF RequestStep, StoreStep

-----------------------------------------------------------------------------
(* The theorems.                                                           *)

LEMMA ResInvInit == Init => ResInv
  <1> SUFFICES ASSUME Init PROVE ResInv
    OBVIOUS
  <1>1. /\ live = {} /\ journal = << >> /\ sent = {} /\ \A kind : Table(kind) = {}
        /\ \A r \in Request : pc[r] = "start"
    BY DEF Init, StoreInit, Table
  <1>2. \A r \in Request : ~Holds(r) /\ ~LiveClaimed(r)
    BY <1>1 DEF Holds, HoldingStep, LiveClaimed, LiveStep
  <1> QED
    BY <1>1, <1>2 DEF ResInv, PathsMatch, ReleaseStep, SentIsPast, LiveOwned, LiveUnmarked, LiveStep,
        GuardOwned, LiveInGuard, EntryIsOwn, JournalInGuard, GuardWitness, LiveWitness,
        RowsPointToOwn, ReservationsReleaseTogether, OneExecutionPerClosePreview

\* Steps that leave the requests and the tables alone.
LEMMA IdleSteps ==
  ASSUME UNCHANGED <<storeVars, callVars, conf, pc, entryId, sent>>
  PROVE  /\ ResInv => ResInv'
         /\ UNCHANGED <<live, pairOpen, pairClose, cleanup>>
  <1>1. /\ UNCHANGED <<live, journal, pairOpen, pairClose, cleanup, hash, endpoint>>
        /\ \A kind : Table(kind)' = Table(kind)
    BY DEF storeVars, callVars, Table
  <1>2. \A r : /\ KindOfRequest(r)' = KindOfRequest(r) /\ (Reserves(r)' <=> Reserves(r))
               /\ (Holds(r)' <=> Holds(r)) /\ (LiveClaimed(r)' <=> LiveClaimed(r))
    BY <1>1 DEF KindOfRequest, Reserves, Holds, LiveClaimed
  <1>3. PathsMatch /\ SentIsPast /\ LiveOwned /\ LiveUnmarked =>
           PathsMatch' /\ SentIsPast' /\ LiveOwned' /\ LiveUnmarked'
    BY <1>1, <1>2 DEF PathsMatch, SentIsPast, LiveOwned, LiveUnmarked, SameKey, HasKey
  <1>4. GuardOwned /\ LiveInGuard /\ EntryIsOwn /\ JournalInGuard =>
           GuardOwned' /\ LiveInGuard' /\ EntryIsOwn' /\ JournalInGuard'
    BY <1>1, <1>2 DEF GuardOwned, LiveInGuard, EntryIsOwn, JournalInGuard, Closing, HasHash
  <1>5. GuardWitness /\ LiveWitness /\ RowsPointToOwn =>
           GuardWitness' /\ LiveWitness' /\ RowsPointToOwn'
    BY <1>1, <1>2 DEF GuardWitness, LiveWitness, RowsPointToOwn, PointsToOwn
  <1>6. ReservationsReleaseTogether /\ OneExecutionPerClosePreview =>
           ReservationsReleaseTogether' /\ OneExecutionPerClosePreview'
    BY <1>1, <1>2 DEF ReservationsReleaseTogether, OneExecutionPerClosePreview
  <1> QED
    BY <1>1, <1>3, <1>4, <1>5, <1>6 DEF ResInv

LEMMA ResInvStep == TypeOK /\ ClaimInv /\ ResInv /\ [Next]_vars => ResInv'
  <1> SUFFICES ASSUME TypeOK, ClaimInv, ResInv, [Next]_vars PROVE ResInv'
    OBVIOUS
  <1>1. CASE UNCHANGED vars
    BY <1>1, IdleSteps DEF vars
  <1>2. ASSUME NEW h \in Hash, Confirm(h) PROVE ResInv'
    BY <1>2, IdleSteps DEF Confirm
  <1>3. ASSUME NEW r \in Request, RequestStep(r) PROVE ResInv'
    BY <1>3, RequestSteps, QuietKeeps, ReservingKeeps, ReservingConfirmationKeeps, JournalingKeeps,
       MarkingConfirmationKeeps, MarkingPreviewKeeps, ReleasingConfirmationKeeps, ReleasingPreviewKeeps
    DEF StoreStep
  <1> QED
    BY <1>1, <1>2, <1>3 DEF Next

\* The rows belong to the requests as the invariant says in every reachable state.
THEOREM RowsAreOwned == Spec => []ResInv
  BY ResInvInit, ResInvStep, TypeCorrect, ClaimsAreExclusive, PTL DEF Spec

\* No confirmation of an open preview is submitted twice, whichever endpoints
\* the requests call.
THEOREM OneSubmissionOfAConfirmation == Spec => []OneSubmissionPerConfirmation
  <1>1. TypeOK /\ ClaimInv /\ ResInv => OneSubmissionPerConfirmation
    <2> SUFFICES ASSUME TypeOK, ClaimInv, ResInv, NEW r \in sent, NEW s \in sent,
                        r # s, hash[r] = hash[s], conf[r] = conf[s]
                 PROVE  KindOfRequest(r) # "open"
      BY DEF OneSubmissionPerConfirmation
    <2>1. r \in Request /\ s \in Request
      BY DEF TypeOK
    <2> QED
      BY <2>1 DEF ResInv, LiveOwned, LiveClaimed, SameKey, KindOfRequest
  <1> QED
    BY <1>1, RowsAreOwned, ClaimsAreExclusive, TypeCorrect, PTL

\* A completed reservation names the execution of its own preview and
\* confirmation, in each of the four tables.
THEOREM CompletedIsOwn == Spec => []CompletedPointsToOwnExecution
  <1>1. ResInv => CompletedPointsToOwnExecution
    <2> SUFFICES ASSUME ResInv PROVE CompletedPointsToOwnExecution
      OBVIOUS
    <2>1. /\ "open" \in Kind /\ "close" \in Kind /\ "cleanup" \in Kind
          /\ Table("open") = pairOpen /\ Table("close") = pairClose /\ Table("cleanup") = cleanup
      BY DEF Kind, Table
    <2> QED
      BY <2>1 DEF ResInv, RowsPointToOwn, PointsToOwn, CompletedPointsToOwnExecution
  <1> QED
    BY <1>1, RowsAreOwned, PTL

\* A close or cleanup that holds its preview gets its confirmation, and
\* releases both reservations or neither.
THEOREM ReleaseTogether == Spec => []ReservationsReleaseTogether
  <1>1. ResInv => ReservationsReleaseTogether
    BY DEF ResInv
  <1> QED
    BY <1>1, RowsAreOwned, PTL

\* Close and cleanup previews are journaled once at most.
THEOREM OneExecution == Spec => []OneExecutionPerClosePreview
  <1>1. ResInv => OneExecutionPerClosePreview
    BY DEF ResInv
  <1> QED
    BY <1>1, RowsAreOwned, PTL

\* A reservation without an execution is that of a request that holds it, or
\* that died; no request that was answered cleanly leaves one behind.
THEOREM AnsweredLeavesNothing == Spec => []NoAnsweredRequestLeavesReservation
  <1>1. TypeOK /\ ResInv => NoAnsweredRequestLeavesReservation
    <2> SUFFICES ASSUME TypeOK, ResInv PROVE NoAnsweredRequestLeavesReservation
      OBVIOUS
    <2>1. /\ "open" \in Kind /\ "close" \in Kind /\ "cleanup" \in Kind
          /\ Table("open") = pairOpen /\ Table("close") = pairClose /\ Table("cleanup") = cleanup
      BY DEF Kind, Table
    <2>2. LiveStep \subseteq HoldingStep
      BY DEF LiveStep, HoldingStep
    <2>3. ASSUME NEW row \in pairOpen \cup pairClose \cup cleanup, row.entry = NULL
          PROVE  \E r \in Request : hash[r] = row.hash /\ conf[r] = row.conf
                                       /\ pc[r] \in HoldingStep \cup {"dead"}
      BY <2>1, <2>3 DEF ResInv, GuardWitness
    <2>4. ASSUME NEW row \in live, row.entry = NULL
          PROVE  \E r \in Request : hash[r] = row.hash /\ conf[r] = row.conf
                                       /\ pc[r] \in HoldingStep \cup {"dead"}
      BY <2>2, <2>4 DEF ResInv, LiveWitness
    <2> QED
      BY <2>3, <2>4 DEF NoAnsweredRequestLeavesReservation
  <1> QED
    BY <1>1, RowsAreOwned, TypeCorrect, PTL

\* What a step does to the completed rows.
CompletedKept ==
    /\ Completed(live) \subseteq live'
    /\ \A kind \in Kind : Completed(Table(kind)) \subseteq Table(kind)'

LEMMA StoreStepKeepsCompleted ==
  ASSUME TypeOK, ClaimInv, ResInv, NEW r \in Request, StoreStep(r)
  PROVE  CompletedKept
  <1>1. CASE QuietRequest(r)
    BY <1>1 DEF QuietRequest, storeVars, Table, Completed, CompletedKept
  <1>2. CASE Reserving(r)
    BY <1>2 DEF Reserving, Completed, CompletedKept
  <1>3. CASE ReservingConfirmation(r) \/ Journaling(r)
    BY <1>3 DEF ReservingConfirmation, Journaling, Completed, CompletedKept
  \* A mark reaches no row that names an execution already.
  <1>4. CASE MarkingConfirmation(r)
    <2>1. \A row \in live : row.conf = conf[r] /\ row.hash = hash[r] => row.entry = NULL
      BY <1>4 DEF MarkingConfirmation, ResInv, LiveUnmarked, LiveStep
    <2> QED
      BY <1>4, <2>1 DEF MarkingConfirmation, MarkLive, Completed, CompletedKept
  <1>5. CASE MarkingPreview(r)
    <2>1. Holds(r)
      BY <1>5 DEF MarkingPreview, Holds, HoldingStep, ResInv, PathsMatch
    <2>2. PICK k \in Kind : k = KindOfRequest(r)
      BY Kinds
    <2>3. \A row \in Table(k) : row.hash = hash[r] => row.entry = NULL
      BY <2>1, <2>2 DEF ResInv, GuardOwned
    <2>4. /\ live' = live /\ Table(k)' = MarkHash(Table(k), hash[r], entryId[r])
          /\ \A kind \in Kind : kind # k => Table(kind)' = Table(kind)
      BY <1>5, <2>2 DEF MarkingPreview
    <2>5. Completed(Table(k)) \subseteq Table(k)'
      BY <2>3, <2>4 DEF MarkHash, Completed
    <2> QED
      BY <2>4, <2>5 DEF Completed, CompletedKept
  <1>6. CASE ReleasingConfirmation(r)
    BY <1>6 DEF ReleasingConfirmation, Releasable, Completed, CompletedKept
  <1>7. CASE ReleasingPreview(r)
    BY <1>7 DEF ReleasingPreview, Releasable, Completed, CompletedKept
  <1> QED
    BY <1>1, <1>2, <1>3, <1>4, <1>5, <1>6, <1>7 DEF StoreStep

\* A reservation that names an execution is never released, and never given
\* another one.
THEOREM CompletedIsFinal == Spec => CompletedReservationIsFinal
  <1> DEFINE kept == /\ Completed(live)      \subseteq live'
                     /\ Completed(pairOpen)  \subseteq pairOpen'
                     /\ Completed(pairClose) \subseteq pairClose'
                     /\ Completed(cleanup)   \subseteq cleanup'
  <1>1. TypeOK /\ ClaimInv /\ ResInv /\ [Next]_vars => [kept]_vars
    <2> SUFFICES ASSUME TypeOK, ClaimInv, ResInv, Next PROVE kept
      OBVIOUS
    <2>1. ASSUME NEW h \in Hash, Confirm(h) PROVE kept
      BY <2>1, IdleSteps DEF Confirm, Completed
    <2>2. ASSUME NEW r \in Request, RequestStep(r) PROVE kept
      <3>1. CompletedKept
        BY <2>2, RequestSteps, StoreStepKeepsCompleted
      <3>2. /\ "open" \in Kind /\ "close" \in Kind /\ "cleanup" \in Kind
            /\ Table("open") = pairOpen /\ Table("close") = pairClose /\ Table("cleanup") = cleanup
            /\ Table("open")' = pairOpen' /\ Table("close")' = pairClose' /\ Table("cleanup")' = cleanup'
        BY DEF Kind, Table
      <3> QED
        BY <3>1, <3>2 DEF CompletedKept
    <2> QED
      BY <2>1, <2>2 DEF Next
  <1> QED
    BY <1>1, RowsAreOwned, ClaimsAreExclusive, TypeCorrect, PTL DEF Spec, CompletedReservationIsFinal
=============================================================================
