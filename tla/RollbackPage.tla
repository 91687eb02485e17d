---------------------------- MODULE RollbackPage ----------------------------
(***************************************************************************)
(* The rollback panel of a service's page (RollbackPanel.tsx and the       *)
(* button one has to hold, PressHoldButton.tsx), on top of what the API    *)
(* promises of rollback events (RollbackLifecycle).  Deployments are       *)
(* numbered in the order they are recorded; the last one is the current    *)
(* one, and the page shows the list as it last fetched it.  Each POST      *)
(* travels, is accepted or refused, and is answered; several may be under  *)
(* way, and only the last one made has its onSuccess called, if the panel  *)
(* is still mounted (TanStack Query).                                      *)
(***************************************************************************)
EXTENDS Naturals, FiniteSets

CONSTANTS
    Service, Events,
    HOLD,           \* HOLD_DURATION_MS, in ticks
    MaxPosts,       \* bound: rollbacks asked for from this page
    MaxRows,        \* bound: deployments
    Null

ASSUME ConstantsAssumption ==
    /\ HOLD \in Nat \ {0} /\ MaxPosts \in Nat /\ MaxRows \in Nat \ {0}
    /\ Null \notin Events \cup 0..HOLD /\ Events \cap {"sent", "refused", "error"} = {}

VARIABLES
    state, owner,   \* the rollback events, as in RollbackLifecycle
    goal,           \* the deployment each event rolls back to
    rows,           \* deployments of the service
    pressed,        \* what presses the button: "pointer", "key"
    held,           \* for how many ticks each of them has, HOLD at most
    timer,          \* ticks left of timeoutRef, or Null
    isHolding,
    mounted,
    seen,           \* deployments in the fetched list
    selected,       \* selectedSnapshotId, 0 for none
    tracked,        \* rollbackEventId
    view,           \* the status last fetched of it
    posts, sent,    \* POSTs under way; how many were made
    latest,         \* the mutation that is observed
    confirmed       \* the deployment shown when a hold last ended

server == <<state, owner, goal, rows>>
button == <<pressed, held, timer, isHolding>>
panel == <<mounted, seen, selected, tracked, view>>
requests == <<posts, sent, latest, confirmed>>
vars == <<server, button, panel, requests>>

API == INSTANCE RollbackLifecycle
    WITH services <- {Service}, Services <- {Service}, Redelivery <- FALSE

Sources == {"pointer", "key"}
Statuses == {"none", "pending", "in_progress", "succeeded", "failed"}
Rows == 1..MaxRows

Init ==
    /\ API!Init /\ goal = [e \in Events |-> 0] /\ rows = 1
    /\ pressed = {} /\ held = [src \in Sources |-> 0] /\ timer = Null
    /\ isHolding = FALSE
    /\ mounted = TRUE /\ seen = 1 /\ selected = 0 /\ tracked = Null /\ view = "none"
    /\ posts = {} /\ sent = 0 /\ latest = 0 /\ confirmed = 0

-----------------------------------------------------------------------------
(* PressHoldButton *)

Shown == mounted /\ tracked = Null /\ selected # 0

\* Its state when the button is taken off the page: the effect clears the timer.
Unmounted ==
    /\ pressed' = {} /\ held' = [src \in Sources |-> 0] /\ timer' = Null
    /\ isHolding' = FALSE

\* Variant: a press fills the bar although its timer was not started.
BeginBarOnly == isHolding' = TRUE /\ UNCHANGED timer

\* The first press starts the hold; while it runs start does nothing.
Begin ==
    IF timer = Null THEN timer' = HOLD /\ isHolding' = TRUE ELSE UNCHANGED <<timer, isHolding>>

Press(src) ==
    /\ Shown /\ src \notin pressed /\ sent < MaxPosts
    /\ pressed' = pressed \cup {src} /\ held' = [held EXCEPT ![src] = 0]
    /\ Begin
    /\ UNCHANGED <<server, panel, requests>>

\* Browsers repeat keydown for as long as the key is down.
Repeat ==
    /\ "key" \in pressed /\ sent < MaxPosts /\ Begin
    /\ UNCHANGED <<pressed, held, server, panel, requests>>

\* Variant: the timer runs on when the button is released.
CancelBar == isHolding' = FALSE /\ UNCHANGED timer

Cancel == timer' = Null /\ isHolding' = FALSE

\* pointerup, pointerleave or keyup; blur, after which keys go elsewhere.
Release(src) ==
    /\ src \in pressed
    /\ pressed' = pressed \ {src} /\ Cancel
    /\ UNCHANGED <<held, server, panel, requests>>

Tick ==
    /\ timer # 0
    /\ held' = [src \in Sources |-> IF src \in pressed /\ held[src] < HOLD
                                    THEN held[src] + 1 ELSE held[src]]
    /\ timer' = IF timer = Null THEN Null ELSE timer - 1
    /\ held' # held \/ timer' # timer
    /\ UNCHANGED <<pressed, isHolding, server, panel, requests>>

\* The timeout, and handleConfirm: the POST is sent; the form stays until it is answered.
Fire ==
    /\ timer = 0 /\ timer' = Null /\ isHolding' = FALSE
    /\ sent' = sent + 1 /\ latest' = sent + 1 /\ confirmed' = selected
    /\ posts' = posts \cup {[id |-> sent + 1, target |-> selected, answer |-> "sent"]}
    /\ UNCHANGED <<pressed, held, server, panel>>

-----------------------------------------------------------------------------
(* RollbackPanel and its queries *)

\* Variant: the current deployment is offered as well.
AnyDeployment == 1..seen

RollbackableSnapshots == 1..(seen - 1)

\* Using the select takes the focus and the pointer off the button.
Select(row) ==
    /\ mounted /\ tracked = Null /\ pressed = {} /\ row # selected
    /\ selected' = row
    /\ UNCHANGED <<mounted, seen, tracked, view, server, button, requests>>

\* The list is fetched every 30 s and when a POST succeeds.
FetchSnapshots ==
    /\ mounted /\ seen # rows /\ seen' = rows
    /\ UNCHANGED <<mounted, selected, tracked, view, server, button, requests>>

\* Variant: polling ends when the rollback has begun.
PollUntilStarted ==
    /\ mounted /\ tracked # Null /\ view \in {"none", "pending"} /\ view' = state[tracked]
    /\ UNCHANGED <<mounted, seen, selected, tracked, server, button, requests>>

\* useRollbackEvent; a failed fetch changes nothing and is repeated.
Poll ==
    /\ mounted /\ tracked # Null /\ view \notin API!Verdicts /\ view' = state[tracked]
    /\ UNCHANGED <<mounted, seen, selected, tracked, server, button, requests>>

StartAnother ==
    /\ mounted /\ tracked # Null /\ view \in API!Verdicts
    /\ tracked' = Null /\ view' = "none" /\ selected' = 0
    /\ UNCHANGED <<mounted, seen, server, button, requests>>

Leave ==
    /\ mounted /\ mounted' = FALSE
    /\ selected' = 0 /\ tracked' = Null /\ view' = "none" /\ latest' = 0
    /\ Unmounted /\ UNCHANGED <<seen, server, posts, sent, confirmed>>

Return ==
    /\ ~ mounted /\ mounted' = TRUE
    /\ UNCHANGED <<seen, selected, tracked, view, server, button, requests>>

-----------------------------------------------------------------------------
(* useTriggerRollback and the server *)

Answered(p, answer) == posts' = (posts \ {p}) \cup {[p EXCEPT !.answer = answer]}

Accept(p, e) ==
    /\ p.answer = "sent" /\ API!Request(e, Service)
    /\ goal' = [goal EXCEPT ![e] = p.target]
    /\ Answered(p, e) /\ UNCHANGED <<rows, sent, latest, confirmed, button, panel>>

Refuse(p) ==
    /\ p.answer = "sent" /\ \E e \in Events : state[e] \in API!Active
    /\ Answered(p, "refused") /\ UNCHANGED <<sent, latest, confirmed, server, button, panel>>

\* The POST or its answer is lost.
Lose(p) ==
    /\ p.answer # "error"
    /\ Answered(p, "error") /\ UNCHANGED <<sent, latest, confirmed, server, button, panel>>

\* Variant: every answer is taken, not only that of the last hold.
AnyMutation(p) == mounted

Observed(p) == mounted /\ p.id = latest

Succeed(p) ==
    /\ p.answer \in Events /\ posts' = posts \ {p}
    /\ IF Observed(p)
       THEN tracked' = p.answer /\ view' = "none" /\ Unmounted
       ELSE UNCHANGED <<tracked, view, button>>
    /\ UNCHANGED <<mounted, seen, selected, server, sent, latest, confirmed>>

\* A refusal or an error is not reported: the form stays as it is.
FailPost(p) ==
    /\ p.answer \in {"refused", "error"} /\ posts' = posts \ {p}
    /\ UNCHANGED <<server, button, panel, sent, latest, confirmed>>

\* Another user, or this one in another tab.
OtherRequest(e) ==
    /\ API!Request(e, Service) /\ UNCHANGED <<goal, rows, button, panel, requests>>

\* A deployment is recorded, by the sync of the host or by a rollback.
Deploy ==
    /\ rows < MaxRows /\ rows' = rows + 1
    /\ UNCHANGED <<state, owner, goal, button, panel, requests>>

ServerStep(e) ==
    /\ API!Start(e) \/ API!Finish(e)
    /\ UNCHANGED <<goal, rows, button, panel, requests>>

-----------------------------------------------------------------------------
ButtonStep ==
    \/ \E src \in Sources : Press(src) \/ Release(src)
    \/ Repeat \/ Tick \/ Fire

PanelStep ==
    \/ \E row \in RollbackableSnapshots \cup {0} : Select(row)
    \/ FetchSnapshots \/ Poll \/ StartAnother \/ Leave \/ Return

RequestStep ==
    \E p \in posts : \/ Refuse(p) \/ Lose(p) \/ Succeed(p) \/ FailPost(p)
                     \/ \E e \in Events : Accept(p, e)

EventStep == \E e \in Events : OtherRequest(e) \/ ServerStep(e)

Next == ButtonStep \/ PanelStep \/ RequestStep \/ EventStep \/ Deploy

Spec == Init /\ [][Next]_vars

\* Rollbacks end (EnqueuedRollbackFinishes of Rollback) and the page polls every 2 s, so
\* that some poll succeeds.
FairSpec ==
    Spec /\ WF_vars(Poll) /\ \A e \in Events : WF_vars(ServerStep(e))

-----------------------------------------------------------------------------
(* Properties *)

Posts == [id : 1..MaxPosts, target : Rows, answer : Events \cup {"sent", "refused", "error"}]

\* Types of every variable; the fetched list is never longer than the server's.
TypeOK ==
    /\ state \in [Events -> Statuses] /\ owner \in [Events -> {Service, Null}]
    /\ goal \in [Events -> 0..MaxRows] /\ rows \in Rows
    /\ pressed \subseteq Sources /\ held \in [Sources -> 0..HOLD] /\ timer \in 0..HOLD \cup {Null}
    /\ isHolding \in BOOLEAN
    /\ mounted \in BOOLEAN /\ seen \in Rows /\ seen =< rows /\ selected \in 0..MaxRows
    /\ tracked \in Events \cup {Null} /\ view \in Statuses
    /\ posts \subseteq Posts /\ sent \in 0..MaxPosts /\ latest \in 0..sent /\ confirmed \in 0..MaxRows

\* The bar fills exactly while the timer runs that will roll the service
\* back, whatever mixture of pointer, keyboard, blur and unmounting came
\* before: the two are set in five places and never read together.
BarMatchesTimer == isHolding <=> timer # Null

\* A rollback is asked for only when a press has lasted HOLD without a break,
\* also when pointer and key overlap and one of them cancels the other's hold.
ConfirmIsHeld == [][sent' # sent => \E src \in pressed : held[src] = HOLD]_vars

\* The API does not refuse to roll back to the deployment that is current;
\* only the page's list keeps that from happening.  It does so even when the
\* list is older than the deployments on the server: a POST never names the
\* deployment that is current, however late it arrives.
TargetIsPrevious == \A p \in posts : p.target < rows

\* The rollback that the panel follows goes to the deployment that was
\* confirmed last, although the form is open again as soon as a hold ends:
\* another deployment may be selected and confirmed before the first POST
\* is answered, and the answers come in any order.
TracksLastConfirmed == tracked # Null => goal[tracked] = confirmed

\* The verdict on the page is the verdict of the rollback on the server,
\* whichever rollbacks the panel followed before, and it stays so although
\* the panel has stopped polling.
VerdictIsTrue == view \in API!Verdicts => tracked # Null /\ state[tracked] = view

\* A rollback that the panel follows gets its verdict shown, or the user leaves.
VerdictIsShown ==
    \A e \in Events : tracked = e ~> (tracked = e /\ view \in API!Verdicts) \/ ~ mounted

\* What the panel shows is true: it follows the rollback that was confirmed
\* last, and a verdict is that rollback's.
PanelIsTrue == TypeOK /\ TracksLastConfirmed /\ VerdictIsTrue
=============================================================================
