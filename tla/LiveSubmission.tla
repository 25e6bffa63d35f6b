--------------------------- MODULE LiveSubmission ---------------------------
(***************************************************************************)
(* Every path of the API and of the worker that sends a confirmed preview  *)
(* to a venue, over the reservation tables of ExecutionStore.  A request   *)
(* is one call of an endpoint, or one pass of the worker, for one preview; *)
(* API requests, the worker and restarted processes share the database     *)
(* only, so a step is one database transaction or one event of the venue   *)
(* adapter, and the steps of the requests interleave freely.               *)
(*                                                                         *)
(* A request that is refused before its first write (route not approved,   *)
(* account not ready, preview not confirmed) changes nothing and is not a  *)
(* step of the model.                                                      *)
(***************************************************************************)
EXTENDS ExecutionStore

CONSTANTS
    Request,            \* calls that submit; each one runs at most once
    Endpoints,          \* the endpoints in use
    KindOf,             \* the preview a hash is of: open, close or cleanup
    VenueOf,            \* the venue of a cleanup preview's leg
    MaxConfirmations    \* bound on the confirmations the operator posts

VARIABLES
    confirmations,      \* the three confirmation tables; an id is an index
    endpoint,           \* the endpoint a request calls
    hash,               \* the preview hash a request submits
    conf,               \* the confirmation a request has resolved
    pc,                 \* where a request is
    entryId,            \* the journal id a request has been given
    sent                \* requests whose order has been handed to a transport

callVars == <<endpoint, hash>>
vars == <<storeVars, confirmations, callVars, conf, pc, entryId, sent>>

Kind  == {"open", "close", "cleanup"}
Venue == {"paradex", "extended", "hyperliquid"}

\* Endpoints that reserve the preview and the confirmation together, and
\* endpoints that reserve the confirmation only.
PairOpenEndpoint == {"guarded_pair", "paradex", "canary_cycle"}
SingleEndpoint   == {"pair", "extended", "hyperliquid"}
CloseEndpoint    == {"pair_close", "auto_close"}
CleanupEndpoint  == {"cleanup", "auto_cleanup", "partial_fill_cleanup"}
EndpointOf == [open    |-> PairOpenEndpoint \cup SingleEndpoint,
               close   |-> CloseEndpoint,
               cleanup |-> CleanupEndpoint]
Endpoint   == UNION {EndpointOf[k] : k \in Kind}

ASSUME EndpointsAssumption == Endpoints \subseteq Endpoint
ASSUME PreviewAssumption   == KindOf \in [Hash -> Kind] /\ VenueOf \in [Hash -> Venue]
ASSUME BoundAssumption     == MaxConfirmations \in Nat

-----------------------------------------------------------------------------
(* What is known of a request from the endpoint it calls.                  *)

KindOfRequest(r) == KindOf[hash[r]]

\* The code that talks to the venue on behalf of the request.
Adapter(r) ==
    CASE endpoint[r] \in {"guarded_pair", "pair", "canary_cycle"} -> "paired"
      [] endpoint[r] \in CloseEndpoint                            -> "pair_close"
      [] endpoint[r] \in CleanupEndpoint                          -> VenueOf[hash[r]]
      [] OTHER                                                    -> endpoint[r]

Coordinated(r) == Adapter(r) \in {"paired", "pair_close"}

\* The adapters validate before they send, and turn what goes wrong after it
\* into transport errors; the Paradex adapter also reprices and observes the
\* order it has sent, and a ValueError of those steps escapes it.
MayRaiseValueError(r) == r \notin sent \/ Adapter(r) = "paradex"

\* The coordinators turn every error of a leg into a rejected leg.
MayRaiseTransportError(r) == ~Coordinated(r)

\* A coordinator may also return without having sent anything.
MayReturn(r) == r \in sent \/ Coordinated(r)

\* The Hyperliquid client runs in a thread that cancellation does not stop.
MaySendAfterCancel(r) == Coordinated(r) \/ Adapter(r) = "hyperliquid"

\* The table that reserves the preview the request submits.
GuardTable(r) ==
    CASE KindOfRequest(r) = "open"  -> pairOpen
      [] KindOfRequest(r) = "close" -> pairClose
      [] OTHER                      -> cleanup

\* Where a request starts once its confirmation is resolved.
FirstStep(r) == IF endpoint[r] \in SingleEndpoint THEN "reserve_live" ELSE "lookup"

-----------------------------------------------------------------------------
Step == {"start", "preview_lookup", "pending_check", "confirm", "lookup", "reserve",
         "refind", "reserve_live", "refind_conf", "submit", "append", "mark_live",
         "mark_guard", "release_live", "release_guard", "release_guard_only"}
End  == {"existing", "pending", "conflict", "failed", "unknown", "released", "stuck",
         "done", "dead", "lost"}

TypeOK ==
    /\ StoreTypeOK
    /\ confirmations \in [Kind -> Seq(Hash)]
    /\ endpoint \in [Request -> Endpoints]
    /\ hash \in [Request -> Hash]
    /\ conf \in [Request -> Nat]
    /\ pc \in [Request -> Step \cup End]
    /\ entryId \in [Request -> Nat]
    /\ sent \subseteq Request

Init ==
    /\ StoreInit
    /\ confirmations = [k \in Kind |-> << >>]
    /\ endpoint \in [Request -> Endpoints]
    /\ hash \in {f \in [Request -> Hash] :
                    \A r \in Request : endpoint[r] \in EndpointOf[KindOf[f[r]]]}
    /\ conf = [r \in Request |-> 0]
    /\ pc = [r \in Request |-> "start"]
    /\ entryId = [r \in Request |-> NULL]
    /\ sent = {}

Goto(r, step) == pc' = [pc EXCEPT ![r] = step]
Move(r, from, to) == pc[r] = from /\ Goto(r, to)

-----------------------------------------------------------------------------
(* Confirmations.                                                          *)

\* The ids of the confirmations of preview h.
ConfirmationsOf(h) ==
    {i \in DOMAIN confirmations[KindOf[h]] : confirmations[KindOf[h]][i] = h}

AppendConfirmation(h) ==
    confirmations' = [confirmations EXCEPT ![KindOf[h]] = Append(@, h)]

\* The operator confirms a preview, as often as they like.
Confirm(h) ==
    /\ Len(confirmations[KindOf[h]]) < MaxConfirmations
    /\ AppendConfirmation(h)
    /\ UNCHANGED <<storeVars, callVars, conf, pc, entryId, sent>>

\* The request goes on with the latest confirmation of its preview.
UseLatestConfirmation(r) ==
    /\ \E c \in ConfirmationsOf(hash[r]) :
          /\ \A d \in ConfirmationsOf(hash[r]) : d <= c
          /\ conf' = [conf EXCEPT ![r] = c]
    /\ Move(r, "start", FirstStep(r))
    /\ UNCHANGED <<storeVars, confirmations, callVars, entryId, sent>>

\* The request confirms its preview itself.
UseFreshConfirmation(r, from) ==
    /\ AppendConfirmation(hash[r])
    /\ conf' = [conf EXCEPT ![r] = Len(confirmations[KindOfRequest(r)]) + 1]
    /\ Move(r, from, FirstStep(r))
    /\ UNCHANGED <<storeVars, callVars, entryId, sent>>

\* Close and cleanup previews are built from the trade's latest execution.
HasExecution == journal # << >>

-----------------------------------------------------------------------------
(* The endpoints, up to the confirmation they submit.                      *)

PairEndpoint(r)        == endpoint[r] = "pair"         /\ UseLatestConfirmation(r)
ExtendedEndpoint(r)    == endpoint[r] = "extended"     /\ UseLatestConfirmation(r)
HyperliquidEndpoint(r) == endpoint[r] = "hyperliquid"  /\ UseLatestConfirmation(r)
ParadexEndpoint(r)     == endpoint[r] = "paradex"      /\ UseLatestConfirmation(r)
GuardedPairEndpoint(r) == endpoint[r] = "guarded_pair" /\ UseLatestConfirmation(r)

\* A canary cycle opens a paper trade it has just created and confirmed.
CanaryCycle(r) ==
    /\ endpoint[r] = "canary_cycle"
    /\ ConfirmationsOf(hash[r]) = {}
    /\ UseFreshConfirmation(r, "start")

PairCloseEndpoint(r) ==
    endpoint[r] = "pair_close" /\ HasExecution /\ UseLatestConfirmation(r)

\* The worker, and a canary cycle that has opened a hedged pair, close it
\* under a confirmation of their own.
AutoClose(r) ==
    endpoint[r] = "auto_close" /\ HasExecution /\ UseFreshConfirmation(r, "start")

\* A cleanup endpoint submits the current preview; if only an earlier preview
\* of the trade is confirmed, it confirms the current one itself.
ResolveCleanupConfirmation(r) ==
    \/ UseLatestConfirmation(r)
    \/ /\ ConfirmationsOf(hash[r]) = {}
       /\ confirmations["cleanup"] # << >>
       /\ UseFreshConfirmation(r, "start")

CleanupEndpointOf(r, venue) ==
    /\ endpoint[r] = "cleanup"
    /\ VenueOf[hash[r]] = venue
    /\ HasExecution
    /\ ResolveCleanupConfirmation(r)

ParadexCleanupEndpoint(r)     == CleanupEndpointOf(r, "paradex")
ExtendedCleanupEndpoint(r)    == CleanupEndpointOf(r, "extended")
HyperliquidCleanupEndpoint(r) == CleanupEndpointOf(r, "hyperliquid")

\* One step of the cleanup sequence that follows a guarded open or close.
AutoCleanup(r) ==
    /\ endpoint[r] = "auto_cleanup"
    /\ HasExecution
    /\ \/ UseLatestConfirmation(r)
       \/ ConfirmationsOf(hash[r]) = {} /\ UseFreshConfirmation(r, "start")

\* The worker's cleanup of a partial fill: it looks for an execution and for
\* a pending reservation of the preview before it confirms the preview.
PartialFillCleanup(r) ==
    /\ endpoint[r] = "partial_fill_cleanup"
    /\ HasExecution
    /\ Move(r, "start", "preview_lookup")
    /\ UNCHANGED <<storeVars, confirmations, callVars, conf, entryId, sent>>

PartialFillLookup(r) ==
    /\ Move(r, "preview_lookup",
            IF FindByPreviewHash(hash[r]) THEN "existing" ELSE "pending_check")
    /\ UNCHANGED <<storeVars, confirmations, callVars, conf, entryId, sent>>

PartialFillPendingCheck(r) ==
    /\ Move(r, "pending_check", IF HasPendingCleanup(hash[r]) THEN "pending" ELSE "confirm")
    /\ UNCHANGED <<storeVars, confirmations, callVars, conf, entryId, sent>>

PartialFillConfirm(r) == UseFreshConfirmation(r, "confirm")

-----------------------------------------------------------------------------
(* Reservation.                                                            *)

Lookup(r) ==
    /\ Move(r, "lookup", IF FindByPreviewHash(hash[r]) THEN "existing" ELSE "reserve")
    /\ UNCHANGED <<storeVars, confirmations, callVars, conf, entryId, sent>>

ReserveOpen(r) ==
    /\ endpoint[r] \in PairOpenEndpoint
    /\ \/ /\ ReservePairOpenAndLive(conf[r], hash[r])
          /\ Move(r, "reserve", "submit")
       \/ /\ HasHash(pairOpen, hash[r])
          /\ Move(r, "reserve", "refind")
          /\ UNCHANGED storeVars
       \/ /\ ~HasHash(pairOpen, hash[r])
          /\ HasKey(live, conf[r], hash[r])
          /\ Move(r, "reserve", "refind_conf")
          /\ UNCHANGED storeVars
    /\ UNCHANGED <<confirmations, callVars, conf, entryId, sent>>

ReserveClose(r) ==
    /\ endpoint[r] \in CloseEndpoint
    /\ \/ ReservePairClose(conf[r], hash[r]) /\ Move(r, "reserve", "reserve_live")
       \/ /\ HasHash(pairClose, hash[r])
          /\ Move(r, "reserve", "refind")
          /\ UNCHANGED storeVars
    /\ UNCHANGED <<confirmations, callVars, conf, entryId, sent>>

ReserveCleanupPreview(r) ==
    /\ endpoint[r] \in CleanupEndpoint
    /\ \/ ReserveCleanup(conf[r], hash[r]) /\ Move(r, "reserve", "reserve_live")
       \/ /\ HasHash(cleanup, hash[r])
          /\ Move(r, "reserve", "refind")
          /\ UNCHANGED storeVars
    /\ UNCHANGED <<confirmations, callVars, conf, entryId, sent>>

\* The preview was reserved by another request: report its execution, or ask
\* for manual reconciliation.
Refind(r) ==
    /\ Move(r, "refind", IF FindByPreviewHash(hash[r]) THEN "existing" ELSE "conflict")
    /\ UNCHANGED <<storeVars, confirmations, callVars, conf, entryId, sent>>

ReserveConfirmation(r) ==
    /\ \/ ReserveLive(conf[r], hash[r]) /\ Move(r, "reserve_live", "submit")
       \/ /\ HasKey(live, conf[r], hash[r])
          /\ Move(r, "reserve_live", "refind_conf")
          /\ UNCHANGED storeVars
    /\ UNCHANGED <<confirmations, callVars, conf, entryId, sent>>

RefindConfirmation(r) ==
    /\ Move(r, "refind_conf",
            IF FindByConfirmation(conf[r], hash[r]) THEN "existing" ELSE "conflict")
    /\ UNCHANGED <<storeVars, confirmations, callVars, conf, entryId, sent>>

-----------------------------------------------------------------------------
(* Submission.                                                             *)

\* An order of the request leaves the process: from here on the venue may
\* have it, whatever the adapter reports.
Send(r) ==
    /\ pc[r] = "submit" \/ (pc[r] = "lost" /\ MaySendAfterCancel(r))
    /\ r \notin sent
    /\ sent' = sent \cup {r}
    /\ UNCHANGED <<storeVars, confirmations, callVars, conf, pc, entryId>>

\* The adapter returns a journal entry, of accepted or of rejected legs.
Return(r) ==
    /\ MayReturn(r)
    /\ Move(r, "submit", "append")
    /\ UNCHANGED <<storeVars, confirmations, callVars, conf, entryId, sent>>

\* Opens keep their reservations; closes and cleanups release them.
RaiseValueError(r) ==
    /\ MayRaiseValueError(r)
    /\ Move(r, "submit", IF KindOfRequest(r) = "open" THEN "failed" ELSE "release_live")
    /\ UNCHANGED <<storeVars, confirmations, callVars, conf, entryId, sent>>

\* Only the worker's partial-fill cleanup releases after a transport error.
RaiseTransportError(r) ==
    /\ MayRaiseTransportError(r)
    /\ Move(r, "submit",
            IF endpoint[r] = "partial_fill_cleanup" THEN "release_live" ELSE "unknown")
    /\ UNCHANGED <<storeVars, confirmations, callVars, conf, entryId, sent>>

JournalSubmission(r) ==
    /\ AppendEntry(conf[r], hash[r])
    /\ entryId' = [entryId EXCEPT ![r] = Len(journal) + 1]
    /\ Move(r, "append", "mark_live")
    /\ UNCHANGED <<confirmations, callVars, conf, sent>>

\* The reservation is given the latest execution, and the preview is forgotten.
MarkConfirmationMutant(r) ==
    /\ MarkLive(conf[r], hash[r], Len(journal))
    /\ Move(r, "mark_live", "done")
    /\ UNCHANGED <<confirmations, callVars, conf, entryId, sent>>

MarkConfirmation(r) ==
    /\ MarkLive(conf[r], hash[r], entryId[r])
    /\ Move(r, "mark_live", IF endpoint[r] \in SingleEndpoint THEN "done" ELSE "mark_guard")
    /\ UNCHANGED <<confirmations, callVars, conf, entryId, sent>>

MarkPreview(r) ==
    /\ \/ KindOfRequest(r) = "open"    /\ MarkPairOpen(hash[r], entryId[r])
       \/ KindOfRequest(r) = "close"   /\ MarkPairClose(hash[r], entryId[r])
       \/ KindOfRequest(r) = "cleanup" /\ MarkCleanup(hash[r], entryId[r])
    /\ Move(r, "mark_guard", "done")
    /\ UNCHANGED <<confirmations, callVars, conf, entryId, sent>>

\* The second release runs whether or not the first one deleted a row.
ReleaseConfirmation(r) ==
    /\ ReleaseLive(conf[r], hash[r])
    /\ Move(r, "release_live",
            IF Releasable(live, conf[r], hash[r]) # {} THEN "release_guard"
                                                       ELSE "release_guard_only")
    /\ UNCHANGED <<confirmations, callVars, conf, entryId, sent>>

ReleasePreview(r) ==
    /\ \/ KindOfRequest(r) = "close"   /\ ReleasePairClose(conf[r], hash[r])
       \/ KindOfRequest(r) = "cleanup" /\ ReleaseCleanup(conf[r], hash[r])
    /\ \/ Move(r, "release_guard",
               IF Releasable(GuardTable(r), conf[r], hash[r]) # {} THEN "released" ELSE "stuck")
       \/ Move(r, "release_guard_only", "stuck")
    /\ UNCHANGED <<confirmations, callVars, conf, entryId, sent>>

\* A cancelled submission releases what it had reserved.
AbortMutant(r) ==
    /\ pc[r] \in Step \ {"start"}
    /\ Goto(r, IF pc[r] = "submit" /\ KindOfRequest(r) # "open" THEN "release_live" ELSE "dead")
    /\ UNCHANGED <<storeVars, confirmations, callVars, conf, entryId, sent>>

\* The process dies, or a timeout cancels the request, at any point.
Abort(r) ==
    /\ pc[r] \in Step \ {"start"}
    /\ Goto(r, IF pc[r] = "submit" THEN "lost" ELSE "dead")
    /\ UNCHANGED <<storeVars, confirmations, callVars, conf, entryId, sent>>

-----------------------------------------------------------------------------
StartCall(r) ==
    \/ PairEndpoint(r)           \/ ExtendedEndpoint(r)        \/ HyperliquidEndpoint(r)
    \/ ParadexEndpoint(r)        \/ GuardedPairEndpoint(r)     \/ CanaryCycle(r)
    \/ PairCloseEndpoint(r)      \/ AutoClose(r)
    \/ ParadexCleanupEndpoint(r) \/ ExtendedCleanupEndpoint(r) \/ HyperliquidCleanupEndpoint(r)
    \/ AutoCleanup(r)            \/ PartialFillCleanup(r)

Continue(r) ==
    \/ PartialFillLookup(r)   \/ PartialFillPendingCheck(r) \/ PartialFillConfirm(r)
    \/ Lookup(r)              \/ ReserveOpen(r)             \/ ReserveClose(r)
    \/ ReserveCleanupPreview(r) \/ Refind(r)                \/ ReserveConfirmation(r)
    \/ RefindConfirmation(r)  \/ Return(r)                  \/ RaiseValueError(r)
    \/ RaiseTransportError(r) \/ JournalSubmission(r)       \/ MarkConfirmation(r)
    \/ MarkPreview(r)         \/ ReleaseConfirmation(r)     \/ ReleasePreview(r)

RequestStep(r) == StartCall(r) \/ Continue(r) \/ Send(r) \/ Abort(r)

Next ==
    \/ \E h \in Hash : Confirm(h)
    \/ \E r \in Request : RequestStep(r)

Spec == Init /\ [][Next]_vars

\* A request that has been answered goes on: what follows is sequential code.
\* Aborts and sends are not owed, and neither is the answer of an adapter that
\* may be waiting for the Hyperliquid client, whose calls carry no timeout.
Answered(r) == pc[r] = "submit" => ~MaySendAfterCancel(r)
Fairness == \A r \in Request : WF_vars(Answered(r) /\ Continue(r))
FairSpec == Spec /\ Fairness

-----------------------------------------------------------------------------
(* Properties.                                                             *)

\* Requests that hold the reservation of their preview.
HoldingStep == {"reserve_live", "submit", "append", "mark_live", "mark_guard", "release_live",
                "release_guard", "release_guard_only", "failed", "unknown", "lost"}
Reserves(r) == endpoint[r] \notin SingleEndpoint
Holds(r)    == Reserves(r) /\ pc[r] \in HoldingStep

\* Requests that release a reservation only if nothing was sent: all that
\* reserve their preview but the worker's partial-fill cleanup, which also
\* releases after transport errors, and cleanups on Paradex, whose adapter
\* raises ValueError after it has sent.
ReleasesSafely(r) ==
    /\ Reserves(r)
    /\ endpoint[r] # "partial_fill_cleanup"
    /\ Adapter(r) # "paradex" \/ KindOfRequest(r) = "open"

SameReservation(r, s) == r # s /\ Reserves(r) /\ Reserves(s) /\ hash[r] = hash[s]

\* No preview is sent to its venues by two requests, however the requests
\* interleave, fail, time out or are retried under another confirmation
\* (_reserve_pair_open_live_submission_or_existing and its siblings).
OneSubmissionPerPreview ==
    \A r, s \in sent :
        SameReservation(r, s) => ~(ReleasesSafely(r) /\ ReleasesSafely(s))

\* No confirmation of an open preview is submitted twice, through whichever of
\* the guarded and unguarded endpoints (live_submission_reservations).
OneSubmissionPerConfirmation ==
    \A r, s \in sent :
        (r # s /\ hash[r] = hash[s] /\ conf[r] = conf[s]) => KindOfRequest(r) # "open"

\* Once an order may be at a venue, the preview stays reserved for good: a
\* later request finds the execution or is sent to manual reconciliation.
SubmittedStaysReserved ==
    \A r \in sent : ReleasesSafely(r) => HasHash(GuardTable(r), hash[r])

\* A reservation without an execution is the reservation of a request that is
\* still running or has ended in a way that needs an operator: no request that
\* was answered cleanly leaves one behind.
NoAnsweredRequestLeavesReservation ==
    \A row \in pairOpen \cup pairClose \cup cleanup \cup live :
        row.entry = NULL =>
            \E r \in Request :
                /\ hash[r] = row.hash
                /\ conf[r] = row.conf
                /\ pc[r] \in HoldingStep \cup {"dead"}

\* A close or cleanup that has reserved its preview also gets its confirmation,
\* and can always undo both reservations: the tables are written guard first
\* and released guard last.
ReservationsReleaseTogether ==
    \A r \in Request :
        KindOfRequest(r) # "open" => pc[r] \notin {"refind_conf", "release_guard_only", "stuck"}

\* A completed reservation points to the journaled execution of its own
\* preview and confirmation.
CompletedPointsToOwnExecution ==
    \A row \in live \cup pairOpen \cup pairClose \cup cleanup :
        row.entry # NULL =>
            /\ row.entry \in DOMAIN journal
            /\ journal[row.entry] = [conf |-> row.conf, hash |-> row.hash]

\* Close and cleanup previews have one execution at most, and its reservation
\* names it once the request is done.
OneExecutionPerClosePreview ==
    \A i, j \in DOMAIN journal :
        (journal[i].hash = journal[j].hash /\ KindOf[journal[i].hash] # "open") => i = j

\* A reservation that names an execution is never released or renamed
\* (the execution_entry_id IS NULL of the releases).
Completed(table) == {row \in table : row.entry # NULL}
CompletedReservationIsFinal ==
    [][/\ Completed(live)      \subseteq live'
       /\ Completed(pairOpen)  \subseteq pairOpen'
       /\ Completed(pairClose) \subseteq pairClose'
       /\ Completed(cleanup)   \subseteq cleanup']_vars

\* "Release cleanup reservations only when submission definitely did not
\* happen" (_release_cleanup_live_submission_reservations).
ReleaseOnlyWhenNotSubmitted ==
    [][\A r \in Request :
          pc[r] = "submit" /\ pc'[r] = "release_live" => r \notin sent]_vars

\* A submission that the adapter has answered settles: its request completes or
\* releases both reservations, unless it dies on the way.
AnsweredSubmissionSettles ==
    \A r \in Request :
        pc[r] \in {"append", "release_live"} ~>
            \/ pc[r] = "dead"
            \/ \A row \in live \cup GuardTable(r) :
                  row.conf = conf[r] /\ row.hash = hash[r] => row.entry # NULL

\* The requests that release safely implement SubmissionOnce: a request claims
\* its preview while it holds the reservation, and for good once it has sent.
Claims(r) == ReleasesSafely(r) /\ (Holds(r) \/ r \in sent)

claimantsOf  == [h \in Hash |-> {r \in Request : hash[r] = h /\ Claims(r)}]
submittersOf == [h \in Hash |-> {r \in sent : hash[r] = h /\ ReleasesSafely(r)}]

Once == INSTANCE SubmissionOnce WITH
            Preview <- Hash, Caller <- Request,
            claimants <- claimantsOf, submitters <- submittersOf

SubmitsOnce == Once!OnceSpec
=============================================================================
