--------------------------- MODULE FrontendProofs ---------------------------
(***************************************************************************)
(* Proofs about the three modules of the frontend, which share no variable *)
(* and no constant: RollbackPage, for every number of events, POSTs and    *)
(* deployments and every HOLD; Session, for every set of users and of      *)
(* requests and every number of visits, with and without lost calls and    *)
(* overlapping sign-ins; and Overview, for every fleet and however often   *)
(* it changes.                                                             *)
(***************************************************************************)
EXTENDS RollbackPage, Session, Overview, FiniteSetTheorems, TLAPS

-----------------------------------------------------------------------------
(***************************************************************************)
(* RollbackPage: the rollback panel of a service's page                    *)
(***************************************************************************)

(***************************************************************************)
(* TargetIsPrevious is not inductive: the form may hold a selection made   *)
(* from an older list, and the list may be older than the server's.        *)
(* PreviousInv says how the three are ordered.                             *)
(***************************************************************************)
Ordered ==
    /\ rows \in Nat /\ seen \in Nat /\ selected \in Nat
    /\ 1 =< seen /\ seen =< rows
    /\ selected < seen

PreviousInv ==
    /\ Ordered
    /\ \A p \in posts : p.target \in Nat /\ p.target < rows

\* A list that is fetched again only grows, so that a deployment that was
\* offered as a previous one stays one: of all steps, only Deploy and
\* FetchSnapshots change how many deployments there are or are listed.
LEMMA OrderedStep ==
    ASSUME Ordered, Next
    PROVE  Ordered' /\ rows =< rows'
<1>1. CASE ButtonStep
  BY <1>1 DEF ButtonStep, Press, Release, Repeat, Tick, Fire, Ordered, server, panel
<1>2. CASE PanelStep
  <2>1. ASSUME NEW row \in RollbackableSnapshots \cup {0}, Select(row)
        PROVE  Ordered' /\ rows =< rows'
    BY <2>1 DEF Select, RollbackableSnapshots, Ordered, server
  <2>2. CASE FetchSnapshots
    BY <2>2 DEF FetchSnapshots, Ordered, server
  <2>3. CASE Poll \/ StartAnother
    BY <2>3 DEF Poll, StartAnother, Ordered, server
  <2>4. CASE Leave \/ Return
    BY <2>4 DEF Leave, Return, Ordered, server
  <2>. QED BY <1>2, <2>1, <2>2, <2>3, <2>4 DEF PanelStep
<1>3. CASE RequestStep
  <2>1. PICK p \in posts : \/ Refuse(p) \/ Lose(p) \/ Succeed(p) \/ FailPost(p)
                           \/ \E e \in Events : Accept(p, e)
    BY <1>3 DEF RequestStep
  <2>. QED BY <2>1 DEF Refuse, Lose, Succeed, FailPost, Accept, Ordered, server, panel
<1>4. CASE EventStep
  BY <1>4 DEF EventStep, OtherRequest, ServerStep, Ordered, panel
<1>5. CASE Deploy
  BY <1>5 DEF Deploy, Ordered, panel
<1>. QED BY <1>1, <1>2, <1>3, <1>4, <1>5 DEF Next

\* A POST keeps the target it was sent with; a new one has the selected
\* deployment for its target.
LEMMA PostsStep ==
    ASSUME Next, NEW q \in posts'
    PROVE  q.target = selected \/ \E p \in posts : q.target = p.target
<1>1. CASE Fire
  BY <1>1 DEF Fire
<1>2. CASE RequestStep
  <2>1. PICK p \in posts : \/ Refuse(p) \/ Lose(p) \/ Succeed(p) \/ FailPost(p)
                           \/ \E e \in Events : Accept(p, e)
    BY <1>2 DEF RequestStep
  <2>2. ASSUME NEW answer, Answered(p, answer)
        PROVE  \E r \in posts : q.target = r.target
    <3>1. q \in posts \/ q = [p EXCEPT !.answer = answer]
      BY <2>2 DEF Answered
    <3>2. [p EXCEPT !.answer = answer].target = p.target
      OBVIOUS
    <3>. QED BY <3>1, <3>2
  <2>. QED BY <2>1, <2>2 DEF Refuse, Lose, Succeed, FailPost, Accept
<1>3. CASE ButtonStep /\ ~ Fire
  BY <1>3 DEF ButtonStep, Press, Release, Repeat, Tick, requests
<1>4. CASE PanelStep
  BY <1>4 DEF PanelStep, Select, FetchSnapshots, Poll, StartAnother, Leave, Return, requests
<1>5. CASE EventStep \/ Deploy
  BY <1>5 DEF EventStep, OtherRequest, ServerStep, Deploy, requests
<1>. QED BY <1>1, <1>2, <1>3, <1>4, <1>5 DEF Next

LEMMA PreviousStep == PreviousInv /\ [Next]_vars => PreviousInv'
<1>. SUFFICES ASSUME PreviousInv, [Next]_vars PROVE PreviousInv'
  OBVIOUS
<1>1. CASE Next
  <2>1. Ordered' /\ rows =< rows'
    BY <1>1, OrderedStep DEF PreviousInv
  <2>2. ASSUME NEW q \in posts' PROVE q.target \in Nat /\ q.target < rows'
    <3>1. q.target = selected \/ \E p \in posts : q.target = p.target
      BY <1>1, <2>2, PostsStep
    <3>2. q.target \in Nat /\ q.target < rows
      BY <3>1 DEF PreviousInv, Ordered
    <3>. QED BY <2>1, <3>2 DEF PreviousInv, Ordered
  <2>. QED BY <2>1, <2>2 DEF PreviousInv
<1>2. CASE UNCHANGED vars
  BY <1>2 DEF vars, server, panel, requests, PreviousInv, Ordered
<1>. QED BY <1>1, <1>2

\* No POST asks to roll back to the deployment that is current: what the
\* API does not refuse, the panel does not ask for (RollbackPanel's
\* rollbackableSnapshots), however old its list is.
THEOREM TargetsArePrevious == Spec => []TargetIsPrevious
<1>1. Init => PreviousInv
  BY DEF Init, PreviousInv, Ordered
<1>2. PreviousInv => TargetIsPrevious
  BY DEF PreviousInv, TargetIsPrevious
<1>. QED BY <1>1, <1>2, PreviousStep, PTL DEF Spec

-----------------------------------------------------------------------------
(***************************************************************************)
(* The bar and the timer need that Null is no number of ticks.             *)
(***************************************************************************)
BarInv == BarMatchesTimer /\ timer \in 0..HOLD \cup {Null}

LEMMA BarStep == BarInv /\ [Next]_vars => BarInv'
<1>. SUFFICES ASSUME BarInv, [Next]_vars PROVE BarInv'
  OBVIOUS
<1>. USE ConstantsAssumption DEF BarInv, BarMatchesTimer
<1>1. CASE ButtonStep
  <2>1. ASSUME NEW src \in Sources, Press(src) PROVE BarInv'
    BY <2>1 DEF Press, Begin
  <2>2. ASSUME NEW src \in Sources, Release(src) PROVE BarInv'
    BY <2>2 DEF Release, Cancel
  <2>3. CASE Repeat
    BY <2>3 DEF Repeat, Begin
  <2>4. CASE Tick
    BY <2>4 DEF Tick
  <2>5. CASE Fire
    BY <2>5 DEF Fire
  <2>. QED BY <1>1, <2>1, <2>2, <2>3, <2>4, <2>5 DEF ButtonStep
<1>2. CASE PanelStep
  BY <1>2 DEF PanelStep, Select, FetchSnapshots, Poll, StartAnother, Leave, Return,
              Unmounted, button
<1>3. CASE RequestStep
  BY <1>3 DEF RequestStep, Refuse, Lose, Succeed, FailPost, Accept, Unmounted, button
<1>4. CASE EventStep \/ Deploy
  BY <1>4 DEF EventStep, OtherRequest, ServerStep, Deploy, button
<1>5. CASE UNCHANGED vars
  BY <1>5 DEF vars, button
<1>. QED BY <1>1, <1>2, <1>3, <1>4, <1>5 DEF Next

\* The bar of the button fills exactly while a timer runs that will send the
\* POST (the comment above PressHoldButton).
THEOREM BarMatches == Spec => []BarMatchesTimer
<1>1. Init => BarInv
  BY DEF Init, BarInv, BarMatchesTimer
<1>2. BarInv => BarMatchesTimer
  BY DEF BarInv
<1>. QED BY <1>1, <1>2, BarStep, PTL DEF Spec

-----------------------------------------------------------------------------
(* PanelIsTrue and ConfirmIsHeld *)

\* The button can only be down while the form is shown, and only a button that
\* is down has a timer; some press has lasted for as long as the timer ran.
ButtonInv ==
    /\ pressed # {} => Shown
    /\ timer # Null => /\ pressed # {} /\ sent < MaxPosts
                       /\ \E src \in pressed : held[src] + timer >= HOLD

\* Event e was asked for with the deployment it is said to go to.
GoesTo(e, target) == state[e] # "none" /\ goal[e] = target

\* A POST that was accepted has the event it asked for; the one whose answer is
\* awaited was sent when the deployment confirmed last was confirmed.
PostsInv ==
    \A p \in posts :
        /\ p.id =< sent
        /\ p.id = latest => p.target = confirmed
        /\ p.answer \in Events => GoesTo(p.answer, p.target)

TrackedInv == tracked # Null => GoesTo(tracked, confirmed)

PanelInv == TypeOK /\ ButtonInv /\ PostsInv /\ TrackedInv /\ VerdictIsTrue

\* What the operators of the server do to the events.
LEMMA EventFrame ==
    ASSUME state \in [Events -> Statuses], owner \in [Events -> {Service, Null}], NEW e \in Events
    PROVE  /\ API!Request(e, Service)
                => /\ state[e] = "none" /\ state' = [state EXCEPT ![e] = "pending"]
                   /\ state' \in [Events -> Statuses] /\ owner' \in [Events -> {Service, Null}]
           /\ API!Start(e) \/ API!Finish(e)
                => /\ state[e] \in {"pending", "in_progress"}
                   /\ \E s \in Statuses \ {"none"} : state' = [state EXCEPT ![e] = s]
                   /\ state' \in [Events -> Statuses] /\ owner' \in [Events -> {Service, Null}]
<1>1. ASSUME API!Request(e, Service)
      PROVE  /\ state[e] = "none" /\ state' = [state EXCEPT ![e] = "pending"]
             /\ state' \in [Events -> Statuses] /\ owner' \in [Events -> {Service, Null}]
  BY <1>1 DEF API!Request, Statuses
<1>2. ASSUME API!Start(e)
      PROVE  /\ state[e] \in {"pending", "in_progress"}
             /\ \E s \in Statuses \ {"none"} : state' = [state EXCEPT ![e] = s]
             /\ state' \in [Events -> Statuses] /\ owner' \in [Events -> {Service, Null}]
  BY <1>2 DEF API!Start, Statuses
<1>3. ASSUME API!Finish(e)
      PROVE  /\ state[e] \in {"pending", "in_progress"}
             /\ \E s \in Statuses \ {"none"} : state' = [state EXCEPT ![e] = s]
             /\ state' \in [Events -> Statuses] /\ owner' \in [Events -> {Service, Null}]
  BY <1>3 DEF API!Finish, API!Verdicts, Statuses
<1>. QED BY <1>1, <1>2, <1>3

LEMMA InitPanel == Init => PanelInv
<1>. SUFFICES ASSUME Init PROVE PanelInv
  OBVIOUS
<1>1. TypeOK
  <2>1. /\ state \in [Events -> Statuses] /\ owner \in [Events -> {Service, Null}]
        /\ goal \in [Events -> 0..MaxRows] /\ rows \in Rows
    BY ConstantsAssumption DEF Init, API!Init, Statuses, Rows
  <2>2. /\ pressed \subseteq Sources /\ held \in [Sources -> 0..HOLD]
        /\ timer \in 0..HOLD \cup {Null}
    BY ConstantsAssumption DEF Init
  <2>4. isHolding \in BOOLEAN /\ mounted \in BOOLEAN
    BY Zenon DEF Init
  <2>3. /\ seen \in Rows /\ seen =< rows /\ selected \in 0..MaxRows
        /\ tracked \in Events \cup {Null} /\ view \in Statuses
        /\ posts \subseteq Posts /\ sent \in 0..MaxPosts /\ latest \in 0..sent
        /\ confirmed \in 0..MaxRows
    BY ConstantsAssumption DEF Init, Rows, Statuses
  <2>. QED BY <2>1, <2>2, <2>3, <2>4 DEF TypeOK
<1>. QED BY <1>1 DEF Init, PanelInv, ButtonInv, PostsInv, TrackedInv, VerdictIsTrue, API!Verdicts

\* The button: what it changes, and that a full hold is a full press.
LEMMA ButtonPanel ==
    ASSUME PanelInv, ButtonStep
    PROVE  PanelInv' /\ (sent' # sent => \E src \in pressed : held[src] = HOLD)
<1>. USE ConstantsAssumption DEF PanelInv, TypeOK, Sources
<1>1. ASSUME NEW src \in Sources, Press(src) PROVE PanelInv' /\ sent' = sent
  <2>1. UNCHANGED <<state, owner, goal, rows, mounted, seen, selected, tracked, view, posts, sent,
                    latest, confirmed>>
    BY <1>1 DEF Press, server, panel, requests
  <2>2. TypeOK'
    <3>1. timer' \in 0..HOLD \cup {Null}
      BY <1>1 DEF Press, Begin
    <3>2. isHolding' \in BOOLEAN
      BY <1>1, Zenon DEF Press, Begin
    <3>3. pressed' \subseteq Sources /\ held' \in [Sources -> 0..HOLD]
      BY <1>1 DEF Press
    <3>. QED BY <2>1, <3>1, <3>2, <3>3
  <2>3. ButtonInv'
    <3>1. Shown' /\ sent < MaxPosts /\ src \notin pressed
      BY <1>1, <2>1 DEF Press, Shown
    <3>2. pressed' = pressed \cup {src} /\ held' = [held EXCEPT ![src] = 0]
      BY <1>1 DEF Press
    <3>3. CASE timer = Null
      <4>1. timer' = HOLD /\ held'[src] = 0
        BY <1>1, <3>2, <3>3 DEF Press, Begin
      <4>. QED BY <2>1, <3>1, <3>2, <4>1 DEF ButtonInv
    <3>4. CASE timer # Null
      <4>1. timer' = timer /\ \E q \in pressed : held[q] + timer >= HOLD
        BY <1>1, <3>4 DEF Press, Begin, ButtonInv
      <4>2. \A q \in pressed : held'[q] = held[q]
        BY <3>1, <3>2
      <4>. QED BY <2>1, <3>1, <3>2, <4>1, <4>2 DEF ButtonInv
    <3>. QED BY <3>3, <3>4
  <2>. QED BY <2>1, <2>2, <2>3 DEF PostsInv, TrackedInv, VerdictIsTrue, GoesTo
<1>2. ASSUME NEW src \in Sources, Release(src) PROVE PanelInv' /\ sent' = sent
  <2>1. UNCHANGED <<state, owner, goal, rows, mounted, seen, selected, tracked, view, posts, sent,
                    latest, confirmed, held>>
    BY <1>2 DEF Release, server, panel, requests
  <2>2. TypeOK'
    BY <1>2, <2>1 DEF Release, Cancel
  <2>3. ButtonInv'
    BY <1>2, <2>1 DEF Release, Cancel, ButtonInv, Shown
  <2>. QED BY <2>1, <2>2, <2>3 DEF PostsInv, TrackedInv, VerdictIsTrue, GoesTo
<1>3. ASSUME Repeat PROVE PanelInv' /\ sent' = sent
  <2>1. UNCHANGED <<state, owner, goal, rows, mounted, seen, selected, tracked, view, posts, sent,
                    latest, confirmed, held, pressed>>
    BY <1>3 DEF Repeat, server, panel, requests
  <2>2. TypeOK'
    <3>1. timer' \in 0..HOLD \cup {Null}
      BY <1>3 DEF Repeat, Begin
    <3>2. isHolding' \in BOOLEAN
      BY <1>3, Zenon DEF Repeat, Begin
    <3>. QED BY <2>1, <3>1, <3>2
  <2>3. ButtonInv'
    <3>1. Shown' /\ sent < MaxPosts /\ "key" \in pressed
      BY <1>3, <2>1 DEF Repeat, ButtonInv, Shown
    <3>2. timer' = HOLD \/ (timer # Null /\ timer' = timer)
      BY <1>3 DEF Repeat, Begin
    <3>3. held["key"] + HOLD >= HOLD
      OBVIOUS
    <3>. QED BY <2>1, <3>1, <3>2, <3>3 DEF ButtonInv
  <2>. QED BY <2>1, <2>2, <2>3 DEF PostsInv, TrackedInv, VerdictIsTrue, GoesTo
<1>4. ASSUME Tick PROVE PanelInv' /\ sent' = sent
  <2>1. UNCHANGED <<state, owner, goal, rows, mounted, seen, selected, tracked, view, posts, sent,
                    latest, confirmed, pressed, isHolding>>
    BY <1>4 DEF Tick, server, panel, requests
  <2>2. held' = [src \in Sources |-> IF src \in pressed /\ held[src] < HOLD
                                     THEN held[src] + 1 ELSE held[src]]
    BY <1>4 DEF Tick
  <2>3. \/ timer = Null /\ timer' = Null
        \/ timer \in 1..HOLD /\ timer' = timer - 1
    BY <1>4 DEF Tick
  <2>4. held' \in [Sources -> 0..HOLD]
    BY <2>2
  <2>5. timer' \in 0..HOLD \cup {Null}
    BY <2>3
  <2>6. TypeOK'
    BY <2>1, <2>4, <2>5
  <2>7. ButtonInv'
    <3>1. ASSUME timer \in 1..HOLD, NEW src \in pressed, held[src] + timer >= HOLD
          PROVE  held'[src] + (timer - 1) >= HOLD
      <4>1. src \in Sources /\ held[src] \in 0..HOLD
        OBVIOUS
      <4>. QED BY <2>2, <3>1, <4>1
    <3>. QED BY <2>1, <2>3, <3>1 DEF ButtonInv, Shown
  <2>. QED BY <2>1, <2>6, <2>7 DEF PostsInv, TrackedInv, VerdictIsTrue, GoesTo
<1>5. ASSUME Fire PROVE PanelInv' /\ \E src \in pressed : held[src] = HOLD
  <2>1. UNCHANGED <<state, owner, goal, rows, mounted, seen, selected, tracked, view, held,
                    pressed>>
    BY <1>5 DEF Fire, server, panel
  <2>2. timer # Null /\ Shown /\ sent < MaxPosts
    BY <1>5 DEF Fire, ButtonInv
  <2>3. PICK src \in pressed : held[src] + 0 >= HOLD
    BY <1>5, <2>2 DEF Fire, ButtonInv
  <2>4. held[src] = HOLD
    BY <2>3
  <2>. DEFINE post == [id |-> sent + 1, target |-> selected, answer |-> "sent"]
  <2>5. post \in Posts
    BY <2>2 DEF Posts, Rows, Shown
  <2>6. /\ sent' = sent + 1 /\ latest' = sent + 1 /\ confirmed' = selected /\ timer' = Null
        /\ isHolding' = FALSE /\ posts' = posts \cup {post}
    BY <1>5 DEF Fire
  <2>7. post.id = sent + 1 /\ post.target = selected /\ post.answer = "sent"
    OBVIOUS
  <2>. HIDE DEF post
  <2>8. TypeOK'
    <3>1. /\ sent' \in 0..MaxPosts /\ latest' \in 0..sent' /\ confirmed' \in 0..MaxRows
          /\ timer' \in 0..HOLD \cup {Null} /\ posts' \subseteq Posts
      BY <2>2, <2>5, <2>6
    <3>2. isHolding' \in BOOLEAN
      BY <2>6
    <3>. QED BY <2>1, <3>1, <3>2
  <2>9. ButtonInv'
    BY <2>1, <2>6 DEF ButtonInv, Shown
  <2>10. "sent" \notin Events
    OBVIOUS
  <2>11. PostsInv'
    <3>1. \A p \in posts : p.id \in Nat
      BY DEF Posts
    <3>. QED BY <2>1, <2>6, <2>7, <2>10, <3>1 DEF PostsInv, GoesTo
  <2>12. TrackedInv' /\ VerdictIsTrue'
    BY <2>1, <2>2 DEF TrackedInv, Shown, VerdictIsTrue
  <2>. QED BY <2>4, <2>8, <2>9, <2>11, <2>12
<1>. QED BY <1>1, <1>2, <1>3, <1>4, <1>5 DEF ButtonStep

\* The panel and its queries.
LEMMA PanelPanel == ASSUME PanelInv, PanelStep PROVE PanelInv' /\ sent' = sent
<1>. USE ConstantsAssumption DEF PanelInv, TypeOK, GoesTo
<1>1. ASSUME NEW row \in RollbackableSnapshots \cup {0}, Select(row)
      PROVE  PanelInv' /\ sent' = sent
  <2>1. /\ UNCHANGED <<mounted, seen, tracked, view, state, owner, goal, rows, pressed, held, timer,
                       isHolding, posts, sent, latest, confirmed>>
        /\ selected' = row /\ pressed = {}
    BY <1>1 DEF Select, server, button, requests
  <2>2. row \in 0..MaxRows
    BY DEF RollbackableSnapshots, Rows
  <2>3. ButtonInv'
    BY <2>1 DEF ButtonInv
  <2>. QED BY <2>1, <2>2, <2>3 DEF PostsInv, TrackedInv, VerdictIsTrue
<1>2. ASSUME FetchSnapshots PROVE PanelInv' /\ sent' = sent
  <2>1. /\ UNCHANGED <<mounted, selected, tracked, view, state, owner, goal, rows, pressed, held,
                       timer, isHolding, posts, sent, latest, confirmed>>
        /\ seen' = rows
    BY <1>2 DEF FetchSnapshots, server, button, requests
  <2>2. seen' \in Rows /\ seen' =< rows'
    BY <2>1 DEF Rows
  <2>. QED BY <2>1, <2>2 DEF ButtonInv, Shown, PostsInv, TrackedInv, VerdictIsTrue
<1>3. ASSUME Poll PROVE PanelInv' /\ sent' = sent
  <2>1. /\ UNCHANGED <<mounted, seen, selected, tracked, state, owner, goal, rows, pressed, held,
                       timer, isHolding, posts, sent, latest, confirmed>>
        /\ view' = state[tracked] /\ tracked # Null
    BY <1>3 DEF Poll, server, button, requests
  <2>2. view' \in Statuses
    BY <2>1
  <2>. QED BY <2>1, <2>2 DEF ButtonInv, Shown, PostsInv, TrackedInv, VerdictIsTrue
<1>4. ASSUME StartAnother PROVE PanelInv' /\ sent' = sent
  <2>1. /\ UNCHANGED <<mounted, seen, state, owner, goal, rows, pressed, held, timer, isHolding,
                       posts, sent, latest, confirmed>>
        /\ tracked # Null /\ tracked' = Null /\ view' = "none" /\ selected' = 0
    BY <1>4 DEF StartAnother, server, button, requests
  <2>2. ButtonInv'
    BY <2>1 DEF ButtonInv, Shown
  <2>3. VerdictIsTrue' /\ view' \in Statuses
    BY <2>1 DEF VerdictIsTrue, API!Verdicts, Statuses
  <2>. QED BY <2>1, <2>2, <2>3 DEF PostsInv, TrackedInv
<1>5. ASSUME Leave PROVE PanelInv' /\ sent' = sent
  <2>1. /\ UNCHANGED <<seen, state, owner, goal, rows, posts, sent, confirmed>>
        /\ mounted' = FALSE /\ selected' = 0 /\ tracked' = Null /\ view' = "none" /\ latest' = 0
        /\ pressed' = {} /\ held' = [src \in Sources |-> 0] /\ timer' = Null /\ isHolding' = FALSE
    BY <1>5 DEF Leave, Unmounted, server
  <2>2. ButtonInv'
    BY <2>1 DEF ButtonInv
  <2>3. VerdictIsTrue' /\ view' \in Statuses
    BY <2>1 DEF VerdictIsTrue, API!Verdicts, Statuses
  <2>4. PostsInv'
    <3>1. \A p \in posts : p.id # 0
      BY DEF Posts
    <3>. QED BY <2>1, <3>1 DEF PostsInv
  <2>5. TypeOK'
    <3>1. held' \in [Sources -> 0..HOLD]
      BY <2>1
    <3>2. mounted' \in BOOLEAN /\ isHolding' \in BOOLEAN
      BY <2>1, Zenon
    <3>. QED BY <2>1, <2>3, <3>1, <3>2
  <2>. QED BY <2>1, <2>2, <2>3, <2>4, <2>5 DEF TrackedInv
<1>6. ASSUME Return PROVE PanelInv' /\ sent' = sent
  <2>1. /\ UNCHANGED <<seen, selected, tracked, view, state, owner, goal, rows, pressed, held,
                       timer, isHolding, posts, sent, latest, confirmed>>
        /\ ~ mounted /\ mounted' = TRUE
    BY <1>6 DEF Return, server, button, requests
  <2>2. mounted' \in BOOLEAN
    BY <2>1, Zenon
  <2>3. pressed = {}
    BY <2>1 DEF ButtonInv, Shown
  <2>4. ButtonInv'
    BY <2>1, <2>3 DEF ButtonInv
  <2>. QED BY <2>1, <2>2, <2>4 DEF PostsInv, TrackedInv, VerdictIsTrue
<1>. QED BY <1>1, <1>2, <1>3, <1>4, <1>5, <1>6 DEF PanelStep

\* The events: only one that was never asked for gets a new target.
LEMMA EventsPanel ==
    ASSUME PanelInv, EventStep \/ Deploy \/ UNCHANGED vars
    PROVE  PanelInv' /\ sent' = sent
<1>. USE ConstantsAssumption DEF PanelInv, TypeOK, GoesTo
<1>1. ASSUME NEW e \in Events, OtherRequest(e) \/ ServerStep(e)
      PROVE  PanelInv' /\ sent' = sent
  <2>1. UNCHANGED <<goal, rows, pressed, held, timer, isHolding, mounted, seen, selected, tracked,
                    view, posts, sent, latest, confirmed>>
    BY <1>1 DEF OtherRequest, ServerStep, button, panel, requests
  <2>2. /\ state' \in [Events -> Statuses] /\ owner' \in [Events -> {Service, Null}]
        /\ state[e] \in {"none", "pending", "in_progress"}
        /\ \E s \in Statuses \ {"none"} : state' = [state EXCEPT ![e] = s]
    <3>1. CASE OtherRequest(e)
      BY <3>1, EventFrame DEF OtherRequest, Statuses
    <3>2. CASE ServerStep(e)
      BY <3>2, EventFrame DEF ServerStep
    <3>. QED BY <1>1, <3>1, <3>2
  <2>3. \A f \in Events : /\ state[f] # "none" => state'[f] # "none"
                          /\ state[f] \in API!Verdicts => state'[f] = state[f]
    BY <2>2 DEF API!Verdicts
  <2>4. TypeOK' /\ ButtonInv'
    BY <2>1, <2>2 DEF ButtonInv, Shown
  <2>. QED BY <2>1, <2>3, <2>4 DEF PostsInv, TrackedInv, VerdictIsTrue
<1>2. ASSUME Deploy PROVE PanelInv' /\ sent' = sent
  <2>1. /\ UNCHANGED <<state, owner, goal, pressed, held, timer, isHolding, mounted, seen, selected,
                       tracked, view, posts, sent, latest, confirmed>>
        /\ rows < MaxRows /\ rows' = rows + 1
    BY <1>2 DEF Deploy, button, panel, requests
  <2>2. rows' \in Rows /\ seen =< rows'
    BY <2>1 DEF Rows
  <2>. QED BY <2>1, <2>2 DEF ButtonInv, Shown, PostsInv, TrackedInv, VerdictIsTrue
<1>3. ASSUME UNCHANGED vars PROVE PanelInv' /\ sent' = sent
  BY <1>3 DEF vars, server, button, panel, requests, ButtonInv, Shown, PostsInv, TrackedInv,
              VerdictIsTrue
<1>. QED BY <1>1, <1>2, <1>3 DEF EventStep
\* A POST that is answered stays the POST it was; the answer is an event only
\* when that event was asked for with the POST's deployment.
LEMMA AnsweredPosts ==
    ASSUME TypeOK, PostsInv, NEW p \in posts,
           NEW answer \in Events \cup {"refused", "error"}, Answered(p, answer),
           UNCHANGED <<sent, latest, confirmed>>,
           \A f \in Events : state[f] # "none" => state'[f] # "none" /\ goal'[f] = goal[f],
           answer \in Events => state'[answer] # "none" /\ goal'[answer] = p.target
    PROVE  posts' \subseteq Posts /\ PostsInv'
<1>. DEFINE r == [p EXCEPT !.answer = answer]
<1>1. p \in Posts
  BY DEF TypeOK
<1>2. r \in Posts /\ r.id = p.id /\ r.target = p.target /\ r.answer = answer
  BY <1>1 DEF Posts
<1>3. posts' = (posts \ {p}) \cup {r}
  BY DEF Answered
<1>. HIDE DEF r
<1>4. posts' \subseteq Posts
  BY <1>2, <1>3 DEF TypeOK
<1>5. ASSUME NEW q \in posts'
      PROVE  /\ q.id =< sent'
             /\ q.id = latest' => q.target = confirmed'
             /\ q.answer \in Events => state'[q.answer] # "none" /\ goal'[q.answer] = q.target
  <2>1. CASE q = r
    BY <1>2, <2>1 DEF PostsInv
  <2>2. CASE q \in posts
    BY <2>2 DEF PostsInv, GoesTo
  <2>. QED BY <1>3, <2>1, <2>2
<1>. QED BY <1>4, <1>5 DEF PostsInv, GoesTo

\* The POSTs: the answer that the panel takes is that of the last one made.
LEMMA RequestPanel == ASSUME PanelInv, RequestStep PROVE PanelInv' /\ sent' = sent
<1>. USE ConstantsAssumption DEF PanelInv
<1>1. ASSUME NEW p \in posts, NEW e \in Events, Accept(p, e) PROVE PanelInv' /\ sent' = sent
  <2>1. /\ UNCHANGED <<rows, pressed, held, timer, isHolding, mounted, seen, selected, tracked,
                       view, sent, latest, confirmed>>
        /\ goal' = [goal EXCEPT ![e] = p.target] /\ Answered(p, e)
    BY <1>1 DEF Accept, button, panel
  <2>2. /\ state[e] = "none" /\ state' = [state EXCEPT ![e] = "pending"]
        /\ state' \in [Events -> Statuses] /\ owner' \in [Events -> {Service, Null}]
    BY <1>1, EventFrame DEF Accept, TypeOK
  <2>3. p.target \in 1..MaxRows
    BY DEF TypeOK, Posts, Rows
  <2>4. goal' \in [Events -> 0..MaxRows]
    BY <2>1, <2>3 DEF TypeOK
  <2>5. \A f \in Events : state[f] # "none" => state'[f] = state[f] /\ goal'[f] = goal[f]
    BY <2>1, <2>2 DEF TypeOK
  <2>6. state'[e] # "none" /\ goal'[e] = p.target
    BY <2>1, <2>2 DEF TypeOK
  <2>7. posts' \subseteq Posts /\ PostsInv'
    BY <2>1, <2>5, <2>6, AnsweredPosts
  <2>8. TypeOK'
    BY <2>1, <2>2, <2>4, <2>7 DEF TypeOK
  <2>9. TrackedInv'
    BY <2>1, <2>5 DEF TrackedInv, GoesTo, TypeOK
  <2>10. VerdictIsTrue'
    BY <2>1, <2>5 DEF VerdictIsTrue, TypeOK, API!Verdicts
  <2>. QED BY <2>1, <2>7, <2>8, <2>9, <2>10 DEF ButtonInv, Shown
<1>2. ASSUME NEW p \in posts, Refuse(p) \/ Lose(p) PROVE PanelInv' /\ sent' = sent
  <2>1. /\ UNCHANGED <<state, owner, goal, rows, pressed, held, timer, isHolding, mounted, seen,
                       selected, tracked, view, sent, latest, confirmed>>
        /\ Answered(p, "refused") \/ Answered(p, "error")
    BY <1>2 DEF Refuse, Lose, server, button, panel
  <2>2. "refused" \notin Events /\ "error" \notin Events
    OBVIOUS
  <2>3. posts' \subseteq Posts /\ PostsInv'
    <3>1. CASE Answered(p, "refused")
      BY <2>1, <2>2, <3>1, AnsweredPosts
    <3>2. CASE Answered(p, "error")
      BY <2>1, <2>2, <3>2, AnsweredPosts
    <3>. QED BY <2>1, <3>1, <3>2
  <2>4. TypeOK'
    BY <2>1, <2>3 DEF TypeOK
  <2>. QED BY <2>1, <2>3, <2>4 DEF ButtonInv, Shown, TrackedInv, GoesTo, VerdictIsTrue
<1>3. ASSUME NEW p \in posts, FailPost(p) PROVE PanelInv' /\ sent' = sent
  <2>1. /\ UNCHANGED <<state, owner, goal, rows, pressed, held, timer, isHolding, mounted, seen,
                       selected, tracked, view, sent, latest, confirmed>>
        /\ posts' = posts \ {p}
    BY <1>3 DEF FailPost, server, button, panel
  <2>2. TypeOK'
    BY <2>1 DEF TypeOK
  <2>. QED BY <2>1, <2>2 DEF ButtonInv, Shown, PostsInv, TrackedInv, GoesTo, VerdictIsTrue
<1>4. ASSUME NEW p \in posts, Succeed(p), ~ Observed(p) PROVE PanelInv' /\ sent' = sent
  <2>1. /\ UNCHANGED <<state, owner, goal, rows, pressed, held, timer, isHolding, mounted, seen,
                       selected, tracked, view, sent, latest, confirmed>>
        /\ posts' = posts \ {p}
    BY <1>4 DEF Succeed, server, button
  <2>2. TypeOK'
    BY <2>1 DEF TypeOK
  <2>. QED BY <2>1, <2>2 DEF ButtonInv, Shown, PostsInv, TrackedInv, GoesTo, VerdictIsTrue
<1>5. ASSUME NEW p \in posts, Succeed(p), Observed(p) PROVE PanelInv' /\ sent' = sent
  <2>1. /\ UNCHANGED <<state, owner, goal, rows, mounted, seen, selected, sent, latest, confirmed>>
        /\ posts' = posts \ {p} /\ p.answer \in Events
        /\ tracked' = p.answer /\ view' = "none"
        /\ pressed' = {} /\ held' = [src \in Sources |-> 0] /\ timer' = Null /\ isHolding' = FALSE
    BY <1>5 DEF Succeed, Unmounted, server
  <2>2. GoesTo(p.answer, confirmed)
    BY <1>5, <2>1 DEF Observed, PostsInv
  <2>3. VerdictIsTrue' /\ view' \in Statuses
    BY <2>1 DEF VerdictIsTrue, API!Verdicts, Statuses
  <2>4. TypeOK'
    <3>1. held' \in [Sources -> 0..HOLD]
      BY <2>1 DEF TypeOK
    <3>2. isHolding' \in BOOLEAN
      BY <2>1, Zenon
    <3>. QED BY <2>1, <2>3, <3>1, <3>2 DEF TypeOK
  <2>. QED BY <2>1, <2>2, <2>3, <2>4 DEF ButtonInv, PostsInv, TrackedInv, GoesTo
<1>. QED BY <1>1, <1>2, <1>3, <1>4, <1>5 DEF RequestStep

LEMMA PanelNext ==
    PanelInv /\ [Next]_vars
        => PanelInv' /\ (sent' # sent => \E src \in pressed : held[src] = HOLD)
BY ButtonPanel, PanelPanel, RequestPanel, EventsPanel DEF Next

\* The panel follows the rollback to the deployment that was confirmed last,
\* whatever number of POSTs are under way and in whichever order they are
\* answered, and the verdict it shows is the one of the server (RollbackPanel,
\* useTriggerRollback and useRollbackEvent).
THEOREM PanelTrue == Spec => []PanelIsTrue
<1>1. PanelInv => PanelIsTrue
  BY DEF PanelInv, TrackedInv, GoesTo, PanelIsTrue, TracksLastConfirmed
<1>. QED BY <1>1, InitPanel, PanelNext, PTL DEF Spec

\* No POST is made unless one press has lasted HOLD_DURATION_MS, for every
\* HOLD: the timer that one source started and another cancelled or found
\* running never ends a hold early (PressHoldButton's start and cancel).
THEOREM ConfirmHeld == Spec => ConfirmIsHeld
<1>1. PanelInv /\ [Next]_vars => [sent' # sent => \E src \in pressed : held[src] = HOLD]_vars
  BY PanelNext
<1>. QED BY <1>1, InitPanel, PanelNext, PTL DEF Spec, ConfirmIsHeld

-----------------------------------------------------------------------------
(***************************************************************************)
(* Session: the tokens of a browser tab                                    *)
(***************************************************************************)

(* The inductive invariant *)

\* refreshPromise is the one call in flight, and who made it waits for it.
CallsArePromised ==
    \A r \in Requests : call[r] # None => promise = r /\ rpc[r] = "wait"

\* A page load, and a form that was sent, know whom they are about.
StepsKnowTheirUser ==
    /\ ipc # "done" => itoken # None
    /\ fpc # "idle" => fuser \in Users

\* A page load, a form and the requests of a page never run together, unless
\* the user signs in or out while calls are in flight.
PhasesAreApart ==
    /\ ipc # "done" \/ fpc # "idle" =>
            user = None /\ \A r \in Requests : rpc[r] = "idle"
    /\ ipc # "done" => fpc = "idle"

\* What is about to become the session is already what the tab holds.
TokensAgree ==
    /\ ipc # "done" => stored = itoken
    /\ ipc = "me" => access # None /\ access.of = itoken.of
    /\ fpc \in {"me", "me_signup"} =>
            /\ access # None /\ access.of = fuser
            /\ stored = [of |-> fuser, lapsed |-> FALSE]
    /\ \A r \in Requests : call[r] # None => call[r] = stored

\* No token is left unless a user is shown or about to be.
TokensAreUsed ==
    user = None /\ stored # None => ipc # "done" \/ fpc \in {"me", "me_signup"}

\* A token that was not given up has not lapsed.
KeptIsStored ==
    kept # None => stored # None /\ stored.of = kept /\ ~ stored.lapsed

SessionInv ==
    /\ SessionTypeOK /\ CallsArePromised /\ StepsKnowTheirUser /\ SessionIsWhole
    /\ ~ overlap => PhasesAreApart /\ TokensAgree
    /\ ~ overlap /\ ~ lossy => TokensAreUsed /\ KeptIsStored

LEMMA FreshIsAToken == ASSUME NEW u \in Users PROVE Fresh(u) \in AccessTokens /\ Fresh(u).of = u
  BY DEF Fresh, AccessTokens

\* None is no token.
LEMMA TokensAreNotNull ==
    /\ \A t \in AccessTokens : t # None /\ t.of \in Users
    /\ \A t \in RefreshTokens : t # None /\ t.of \in Users
  BY SessionAssumption DEF AccessTokens, RefreshTokens

\* What a sign-in puts into localStorage is a token of its user.
LEMMA NewRefreshToken ==
    ASSUME NEW u \in Users
    PROVE  [of |-> u, lapsed |-> FALSE] # None /\ [of |-> u, lapsed |-> FALSE].of = u
<1>1. [of |-> u, lapsed |-> FALSE] \in RefreshTokens
  BY DEF RefreshTokens
<1>. QED BY <1>1, TokensAreNotNull

LEMMA InitSession == SessionInit => SessionInv
<1>. SUFFICES ASSUME SessionInit PROVE SessionInv
  OBVIOUS
<1>1. SessionTypeOK
  <2>1. rpc \in [Requests -> {"idle", "sent", "wait", "retry"}]
    BY DEF SessionInit, Idle
  <2>2. /\ rtoken \in [Requests -> AccessTokens \cup {None}]
        /\ call \in [Requests -> RefreshTokens \cup {None}]
    BY DEF SessionInit, NoTokens
  <2>. QED BY <2>1, <2>2, SessionAssumption DEF SessionInit, SessionTypeOK
<1>2. CallsArePromised /\ StepsKnowTheirUser /\ SessionIsWhole
  BY DEF SessionInit, NoTokens, CallsArePromised, StepsKnowTheirUser, SessionIsWhole
<1>3. PhasesAreApart /\ TokensAgree /\ TokensAreUsed /\ KeptIsStored
  BY DEF SessionInit, NoTokens, PhasesAreApart, TokensAgree, TokensAreUsed, KeptIsStored
<1>. QED BY <1>1, <1>2, <1>3 DEF SessionInv

-----------------------------------------------------------------------------
(* Types *)

LEMMA PageLoadTypes ==
    ASSUME SessionInv, Reload \/ InitStep
    PROVE  SessionTypeOK'
<1>. USE SessionAssumption DEF SessionInv, SessionTypeOK, world, tokens, init, form, calls
<1>1. CASE Reload
  <2>1. rpc' \in [Requests -> {"idle", "sent", "wait", "retry"}]
    BY <1>1 DEF Reload, Idle
  <2>2. /\ rtoken' \in [Requests -> AccessTokens \cup {None}]
        /\ call' \in [Requests -> RefreshTokens \cup {None}]
    BY <1>1 DEF Reload, NoTokens
  <2>3. stored' \in RefreshTokens \cup {None} /\ kept' \in Users \cup {None}
    BY <1>1 DEF Reload, RefreshTokens
  <2>. QED BY <1>1, <2>1, <2>2, <2>3 DEF Reload
<1>2. CASE InitFails
  BY <1>2 DEF InitFails
<1>3. CASE InitRefreshed
  BY <1>3, FreshIsAToken, TokensAreNotNull DEF InitRefreshed, StepsKnowTheirUser
<1>4. CASE InitMe
  BY <1>4, TokensAreNotNull DEF InitMe, StepsKnowTheirUser
<1>. QED BY <1>1, <1>2, <1>3, <1>4 DEF InitStep

LEMMA FormTypes ==
    ASSUME SessionInv, FormStep \/ Logout \/ \E u \in Users, signup \in BOOLEAN : Submit(u, signup)
    PROVE  SessionTypeOK'
<1>. USE SessionAssumption
     DEF SessionInv, SessionTypeOK, StepsKnowTheirUser, world, tokens, init, form, calls
<1>1. CASE Registered
  BY <1>1 DEF Registered
<1>2. CASE RegisterFails
  BY <1>2 DEF RegisterFails, FormFails
<1>3. CASE LoggedIn
  <2>1. stored' \in RefreshTokens /\ access' \in AccessTokens
    BY <1>3, FreshIsAToken DEF LoggedIn, LoggingIn, RefreshTokens
  <2>. QED BY <1>3, <2>1 DEF LoggedIn, LoggingIn
<1>4. CASE FormMe
  BY <1>4 DEF FormMe
<1>5. CASE LoginFails
  BY <1>5 DEF LoginFails, FormFails
<1>6. CASE Logout
  BY <1>6 DEF Logout
<1>7. ASSUME NEW u \in Users, NEW signup \in BOOLEAN, Submit(u, signup) PROVE SessionTypeOK'
  BY <1>7 DEF Submit
<1>. QED BY <1>1, <1>2, <1>3, <1>4, <1>5, <1>6, <1>7 DEF FormStep

LEMMA RequestTypes ==
    ASSUME SessionInv, Expire \/ \E r \in Requests : Send(r) \/ CallStep(r)
    PROVE  SessionTypeOK'
<1>. USE SessionAssumption DEF SessionInv, SessionTypeOK, world, tokens, init, form, calls
<1>0. ASSUME NEW rs, Done(rs)
      PROVE  /\ rpc' \in [Requests -> {"idle", "sent", "wait", "retry"}]
             /\ rtoken' \in [Requests -> AccessTokens \cup {None}]
  BY <1>0 DEF Done
<1>1. CASE Expire
  <2>1. access \in AccessTokens /\ FALSE \in BOOLEAN
    BY <1>1 DEF Expire
  <2>2. access' \in AccessTokens
    BY <1>1, <2>1 DEF Expire, AccessTokens
  <2>. QED BY <1>1, <2>2 DEF Expire
<1>2. ASSUME NEW r \in Requests, Send(r) PROVE SessionTypeOK'
  BY <1>2 DEF Send
<1>3. ASSUME NEW r \in Requests, CallAnswered(r) PROVE SessionTypeOK'
  BY <1>0, <1>3 DEF CallAnswered
<1>4. ASSUME NEW r \in Requests, Unauthorized(r) PROVE SessionTypeOK'
  BY <1>0, <1>4 DEF Unauthorized, AuthExpired
<1>5. ASSUME NEW r \in Requests, Refreshed(r) PROVE SessionTypeOK'
  <2>1. access' \in AccessTokens
    BY <1>5, FreshIsAToken, TokensAreNotNull DEF Refreshed
  <2>. QED BY <1>5, <2>1 DEF Refreshed, CallEnds
<1>6. ASSUME NEW r \in Requests, RefreshFails(r) PROVE SessionTypeOK'
  BY <1>0, <1>6 DEF RefreshFails, CallEnds, AuthExpired
<1>. QED BY <1>1, <1>2, <1>3, <1>4, <1>5, <1>6 DEF CallStep

LEMMA TypesStep == SessionInv /\ [SessionNext]_sessionVars => SessionTypeOK'
<1>1. SessionInv /\ UNCHANGED sessionVars => SessionTypeOK'
  BY DEF SessionInv, SessionTypeOK, sessionVars, world, tokens, init, form, calls
<1>. QED BY <1>1, PageLoadTypes, FormTypes, RequestTypes DEF SessionNext

-----------------------------------------------------------------------------
(* The session *)

\* What SessionInv says beyond the types.
Consistent ==
    /\ CallsArePromised /\ StepsKnowTheirUser /\ SessionIsWhole
    /\ ~ overlap => PhasesAreApart /\ TokensAgree
    /\ ~ overlap /\ ~ lossy => TokensAreUsed /\ KeptIsStored

LEMMA PageLoadStep ==
    ASSUME SessionInv, Reload \/ InitStep
    PROVE  Consistent'
<1>. USE SessionAssumption, TokensAreNotNull, FreshIsAToken
     DEF SessionInv, SessionTypeOK, Consistent, CallsArePromised, StepsKnowTheirUser,
         SessionIsWhole, PhasesAreApart, TokensAgree, TokensAreUsed, KeptIsStored,
         world, tokens, init, form, calls
<1>1. CASE Reload
  BY <1>1 DEF Reload, Idle, NoTokens
<1>2. CASE InitFails
  BY <1>2 DEF InitFails
<1>3. CASE InitRefreshed
  BY <1>3 DEF InitRefreshed
<1>4. CASE InitMe
  BY <1>4 DEF InitMe
<1>. QED BY <1>1, <1>2, <1>3, <1>4 DEF InitStep

LEMMA FormsStep ==
    ASSUME SessionInv, FormStep \/ Logout \/ \E u \in Users, signup \in BOOLEAN : Submit(u, signup)
    PROVE  Consistent'
<1>. USE SessionAssumption, TokensAreNotNull, FreshIsAToken
     DEF SessionInv, SessionTypeOK, Consistent, CallsArePromised, StepsKnowTheirUser,
         SessionIsWhole, PhasesAreApart, TokensAgree, TokensAreUsed, KeptIsStored,
         world, tokens, init, form, calls
<1>1. CASE Registered
  BY <1>1 DEF Registered
<1>2. CASE RegisterFails
  BY <1>2 DEF RegisterFails, FormFails
<1>3. CASE LoggedIn
  BY <1>3 DEF LoggedIn, LoggingIn, RefreshTokens
<1>4. CASE FormMe
  <2>1. fuser \in Users /\ user' = fuser /\ fpc' = "idle"
    BY <1>4 DEF FormMe
  <2>2. ~ overlap => access # None /\ access.of = fuser /\ stored = [of |-> fuser, lapsed |-> FALSE]
    BY <1>4 DEF FormMe
  <2>3. ~ overlap => stored # None /\ stored.of = fuser
    BY <2>1, <2>2, NewRefreshToken
  <2>. QED BY <1>4, <2>1, <2>2, <2>3 DEF FormMe
<1>5. CASE LoginFails
  <2>1. fpc' = "idle" /\ UNCHANGED <<overlap, lossy, tokens, init, calls, fuser>>
    BY <1>5 DEF LoginFails, FormFails
  <2>2. fpc \in {"me", "me_signup"} => lossy
    BY <1>5 DEF LoginFails, LoggingIn
  <2>. QED BY <2>1, <2>2
<1>6. CASE Logout
  BY <1>6 DEF Logout, InFlight
<1>7. ASSUME NEW u \in Users, NEW signup \in BOOLEAN, Submit(u, signup) PROVE Consistent'
  BY <1>7 DEF Submit, InFlight
<1>. QED BY <1>1, <1>2, <1>3, <1>4, <1>5, <1>6, <1>7 DEF FormStep

LEMMA RequestsStep ==
    ASSUME SessionInv, Expire \/ \E r \in Requests : Send(r) \/ CallStep(r)
    PROVE  Consistent'
<1>. USE SessionAssumption, TokensAreNotNull, FreshIsAToken
     DEF SessionInv, SessionTypeOK, Consistent, CallsArePromised, StepsKnowTheirUser,
         SessionIsWhole, PhasesAreApart, TokensAgree, TokensAreUsed, KeptIsStored,
         world, tokens, init, form, calls
<1>1. CASE Expire
  BY <1>1 DEF Expire, AccessTokens
<1>2. ASSUME NEW r \in Requests, Send(r) PROVE Consistent'
  BY <1>2 DEF Send
<1>3. ASSUME NEW r \in Requests, CallAnswered(r) PROVE Consistent'
  BY <1>3 DEF CallAnswered, Done
<1>4. ASSUME NEW r \in Requests, Unauthorized(r) PROVE Consistent'
  BY <1>4 DEF Unauthorized, AuthExpired, NeedsCall, Done
<1>5. ASSUME NEW r \in Requests, Refreshed(r) PROVE Consistent'
  BY <1>5 DEF Refreshed, CallEnds, Waiting
<1>6. ASSUME NEW r \in Requests, RefreshFails(r) PROVE Consistent'
  BY <1>6 DEF RefreshFails, CallEnds, AuthExpired, Waiting, Done
<1>. QED BY <1>1, <1>2, <1>3, <1>4, <1>5, <1>6 DEF CallStep

LEMMA SessionStep == SessionInv /\ [SessionNext]_sessionVars => SessionInv'
<1>. SUFFICES ASSUME SessionInv, [SessionNext]_sessionVars PROVE SessionInv'
  OBVIOUS
<1>1. CASE SessionNext
  BY <1>1, PageLoadStep, FormsStep, RequestsStep, TypesStep DEF SessionNext, Consistent, SessionInv
<1>2. CASE UNCHANGED sessionVars
  BY <1>2, TypesStep
  DEF SessionInv, CallsArePromised, StepsKnowTheirUser, SessionIsWhole, PhasesAreApart,
      TokensAgree, TokensAreUsed, KeptIsStored, sessionVars, world, tokens, init, form, calls
<1>. QED BY <1>1, <1>2

LEMMA SessionHolds == SessionSpec => []SessionInv
  BY InitSession, SessionStep, PTL DEF SessionSpec

-----------------------------------------------------------------------------
(* Theorems *)

\* The user on the screen is the one whose tokens the tab and localStorage
\* hold, and a tab that shows nobody holds no token: login, the effect of a
\* page load and onAuthExpired write the three one by one, yet agree.
THEOREM SessionSound == SessionSpec => []SessionIsSound
<1>1. SessionInv => SignedOutIsClean
  BY DEF SessionInv, TokensAreUsed, SignedOutIsClean, InFlight
<1>2. SessionInv => SessionIsSound
  BY <1>1 DEF SessionInv, SessionIsSound
<1>. QED BY <1>2, SessionHolds, PTL

\* "a login survives a page reload" (AuthContext.tsx): only signing out, a
\* lapsed token or a lost call take the refresh token from localStorage.
THEOREM LoginSurvives == SessionSpec => []LoginSurvivesReload
<1>1. SessionInv => LoginSurvivesReload
  BY DEF SessionInv, KeptIsStored, LoginSurvivesReload
<1>. QED BY <1>1, SessionHolds, PTL

\* "Coalesce concurrent 401s into a single refresh call" (apiClient.ts): there
\* is never more than one, however requests overlap with page loads, sign-ins
\* and lost calls.
THEOREM RefreshIsCoalesced == SessionSpec => []OneRefreshCall
<1>1. ASSUME SessionInv PROVE OneRefreshCall
  <2>. DEFINE callers == {r \in Requests : call[r] # None}
  <2>1. callers \subseteq {promise}
    BY <1>1 DEF SessionInv, CallsArePromised
  <2>2. callers = {} \/ callers = {promise}
    BY <2>1
  <2>3. Cardinality({}) = 0 /\ Cardinality({promise}) = 1
    BY FS_EmptySet, FS_Singleton
  <2>. QED BY <2>2, <2>3 DEF OneRefreshCall
<1>. QED BY <1>1, SessionHolds, PTL

-----------------------------------------------------------------------------
(***************************************************************************)
(* Overview: the cards and donuts of the dashboard                         *)
(***************************************************************************)

(***************************************************************************)
(* A donut has at most five segments.  Total is a fold, whose recursive    *)
(* function is a CHOOSE: a sum written out, Sum, is such a function, and   *)
(* all that are agree on sets of none, one, ... and five segments.         *)
(***************************************************************************)
Chosen(s) == CHOOSE x \in s : TRUE

FoldStep(counts, sum) ==
    [s \in SUBSET DOMAIN counts |->
        IF s = {} THEN 0 ELSE counts[Chosen(s)] + sum[s \ {Chosen(s)}]]

LEMMA TotalIsAFold ==
    ASSUME NEW counts
    PROVE  Total(counts) = (CHOOSE sum : sum = FoldStep(counts, sum))[DOMAIN counts]
  BY DEF Total, MapThenSumSet, MapThenFoldSet, Chosen, FoldStep

LEMMA OneMore ==
    ASSUME NEW S, IsFiniteSet(S), NEW x, NEW n \in Nat, Cardinality(S) =< n
    PROVE  IsFiniteSet(S \cup {x}) /\ Cardinality(S \cup {x}) =< n + 1
<1>1. IsFiniteSet(S \cup {x})
  BY FS_AddElement
<1>2. Cardinality(S \cup {x}) = Cardinality(S) \/ Cardinality(S \cup {x}) = Cardinality(S) + 1
  BY FS_AddElement
<1>3. Cardinality(S) \in Nat
  BY FS_CardinalityType
<1>. QED BY <1>1, <1>2, <1>3

LEMMA OneLess ==
    ASSUME NEW S, IsFiniteSet(S), NEW x \in S, NEW n \in Nat, Cardinality(S) =< n + 1
    PROVE  Cardinality(S \ {x}) =< n
<1>1. Cardinality(S \ {x}) = Cardinality(S) - 1
  BY FS_RemoveElement
<1>2. Cardinality(S) \in Nat
  BY FS_CardinalityType
<1>. QED BY <1>1, <1>2

LEMMA AtMostFive ==
    ASSUME NEW a, NEW b, NEW c, NEW d, NEW e, NEW S \in SUBSET {a, b, c, d, e}
    PROVE  IsFiniteSet(S) /\ Cardinality(S) =< 5
<1>. DEFINE T2 == {a} \cup {b}  T3 == T2 \cup {c}  T4 == T3 \cup {d}  T5 == T4 \cup {e}
<1>1. IsFiniteSet({a}) /\ Cardinality({a}) =< 1
  <2>1. IsFiniteSet({a}) /\ Cardinality({a}) = 1
    BY FS_Singleton
  <2>. QED BY <2>1
<1>2. IsFiniteSet(T2) /\ Cardinality(T2) =< 2
  BY <1>1, OneMore, 1 + 1 = 2
<1>. HIDE DEF T2
<1>3. IsFiniteSet(T3) /\ Cardinality(T3) =< 3
  BY <1>2, OneMore, 2 + 1 = 3
<1>. HIDE DEF T3
<1>4. IsFiniteSet(T4) /\ Cardinality(T4) =< 4
  BY <1>3, OneMore, 3 + 1 = 4
<1>. HIDE DEF T4
<1>5. IsFiniteSet(T5) /\ Cardinality(T5) =< 4 + 1
  BY <1>4, OneMore, 4 \in Nat
<1>6. S \subseteq T5
  BY DEF T2, T3, T4
<1>. HIDE DEF T5
<1>7. IsFiniteSet(S) /\ Cardinality(S) =< Cardinality(T5)
  BY <1>5, <1>6, FS_Subset
<1>8. Cardinality(S) \in Nat /\ Cardinality(T5) \in Nat
  BY <1>5, <1>7, FS_CardinalityType
<1>. QED BY <1>5, <1>7, <1>8

ValueIn(counts, s, x) == IF x \in s THEN counts[x] ELSE 0

Sum(counts, s, a, b, c, d, e) ==
    ValueIn(counts, s, a) + ValueIn(counts, s, b) + ValueIn(counts, s, c)
        + ValueIn(counts, s, d) + ValueIn(counts, s, e)

\* The segments of S are among these five.
Among(S, a, b, c, d, e) ==
    /\ a \notin {b, c, d, e} /\ b \notin {c, d, e} /\ c \notin {d, e} /\ d # e
    /\ S \subseteq {a, b, c, d, e}

LEMMA TotalIsTheSum ==
    ASSUME NEW a, NEW b, NEW c, NEW d, NEW e, NEW S, Among(S, a, b, c, d, e),
           NEW counts \in [S -> Nat]
    PROVE  Total(counts) = Sum(counts, S, a, b, c, d, e)
<1>. USE DEF Among
<1>. DEFINE V(s, y) == ValueIn(counts, s, y)
            Right(s) == V(s, a) + V(s, b) + V(s, c) + V(s, d) + V(s, e)
            sum == CHOOSE sum : sum = FoldStep(counts, sum)
            RightUpTo(n) == \A s \in SUBSET S : Cardinality(s) =< n => sum[s] = Right(s)
<1>1. ASSUME NEW s \in SUBSET S, NEW x \in s
      PROVE  Right(s) = counts[x] + Right(s \ {x})
  <2>. DEFINE W(y) == V(s \ {x}, y)
              U(y) == V(s, y)
  <2>1. U(a) \in Nat /\ U(b) \in Nat /\ U(c) \in Nat /\ U(d) \in Nat /\ U(e) \in Nat
    BY DEF ValueIn
  <2>2. \A y : y # x => W(y) = U(y)
    BY DEF ValueIn
  <2>3. W(x) = 0 /\ U(x) = counts[x]
    BY DEF ValueIn
  <2>4. x \in {a, b, c, d, e}
    OBVIOUS
  <2>. HIDE DEF U, W
  <2>5. U(a) + U(b) + U(c) + U(d) + U(e) = U(x) + (W(a) + W(b) + W(c) + W(d) + W(e))
    <3>1. CASE x = a
      BY <2>1, <2>2, <2>3, <3>1
    <3>2. CASE x = b
      BY <2>1, <2>2, <2>3, <3>2
    <3>3. CASE x = c
      BY <2>1, <2>2, <2>3, <3>3
    <3>4. CASE x = d
      BY <2>1, <2>2, <2>3, <3>4
    <3>5. CASE x = e
      BY <2>1, <2>2, <2>3, <3>5
    <3>. QED BY <2>4, <3>1, <3>2, <3>3, <3>4, <3>5
  <2>. QED BY <2>3, <2>5 DEF U, W
<1>2. Right({}) = 0
  BY DEF ValueIn
<1>3. Right(S) = Sum(counts, S, a, b, c, d, e)
  BY DEF Sum
<1>. HIDE DEF Right
<1>4. \E f : f = FoldStep(counts, f)
  <2>. DEFINE f == [s \in SUBSET S |-> Right(s)]
  <2>1. ASSUME NEW s \in SUBSET S
        PROVE  f[s] = IF s = {} THEN 0 ELSE counts[Chosen(s)] + f[s \ {Chosen(s)}]
    <3>1. CASE s = {}
      BY <1>2, <3>1
    <3>2. CASE s # {}
      <4>1. Chosen(s) \in s
        BY <3>2 DEF Chosen
      <4>2. Right(s) = counts[Chosen(s)] + Right(s \ {Chosen(s)})
        BY <1>1, <4>1
      <4>. QED BY <3>2, <4>2
    <3>. QED BY <3>1, <3>2
  <2>2. f = [s \in SUBSET S |-> f[s]]
    OBVIOUS
  <2>. HIDE DEF f
  <2>3. f = FoldStep(counts, f)
    BY <2>1, <2>2 DEF FoldStep
  <2>. QED BY <2>3
<1>5. sum = FoldStep(counts, sum)
  BY <1>4
<1>. HIDE DEF sum
<1>6. sum[{}] = 0 /\ \A s \in SUBSET S : s # {} => sum[s] = counts[Chosen(s)] + sum[s \ {Chosen(s)}]
  <2>1. \A s \in SUBSET S : FoldStep(counts, sum)[s] =
                IF s = {} THEN 0 ELSE counts[Chosen(s)] + sum[s \ {Chosen(s)}]
    BY DEF FoldStep
  <2>. QED BY <1>5, <2>1
<1>7. IsFiniteSet(S) /\ Cardinality(S) =< 5
  BY AtMostFive
<1>8. RightUpTo(0)
  <2>. SUFFICES ASSUME NEW s \in SUBSET S, Cardinality(s) =< 0 PROVE sum[s] = Right(s)
    OBVIOUS
  <2>1. IsFiniteSet(s) /\ Cardinality(s) \in Nat
    BY <1>7, FS_Subset, FS_CardinalityType
  <2>2. s = {}
    BY <2>1, FS_EmptySet
  <2>. QED BY <1>2, <1>6, <2>2
<1>9. ASSUME NEW n \in Nat, RightUpTo(n) PROVE RightUpTo(n + 1)
  <2>. SUFFICES ASSUME NEW s \in SUBSET S, Cardinality(s) =< n + 1 PROVE sum[s] = Right(s)
    OBVIOUS
  <2>1. CASE s = {}
    BY <1>2, <1>6, <2>1
  <2>2. CASE s # {}
    <3>1. IsFiniteSet(s) /\ Chosen(s) \in s
      BY <1>7, <2>2, FS_Subset DEF Chosen
    <3>2. Cardinality(s \ {Chosen(s)}) =< n
      BY <3>1, OneLess
    <3>3. sum[s \ {Chosen(s)}] = Right(s \ {Chosen(s)})
      BY <1>9, <3>2
    <3>. QED BY <1>1, <1>6, <2>2, <3>1, <3>3
  <2>. QED BY <2>1, <2>2
<1>. HIDE DEF RightUpTo
<1>10. RightUpTo(0 + 1 + 1 + 1 + 1 + 1)
  BY <1>8, <1>9
<1>11. RightUpTo(5)
  BY <1>10
<1>12. sum[S] = Right(S)
  BY <1>7, <1>11 DEF RightUpTo
<1>13. Total(counts) = sum[S]
  BY TotalIsAFold DEF sum
<1>. QED BY <1>3, <1>12, <1>13

-----------------------------------------------------------------------------
(* The donuts of the page *)

LEMMA HostSum ==
    ASSUME NEW counts \in [HostStatus -> Nat]
    PROVE  Total(counts) = counts["healthy"] + counts["degraded"] + counts["unreachable"]
                            + counts["unknown"] + counts["pending_setup"]
<1>1. Total(counts) = Sum(counts, HostStatus,
                          "healthy", "degraded", "unreachable", "unknown", "pending_setup")
  <2>1. Among(HostStatus, "healthy", "degraded", "unreachable", "unknown", "pending_setup")
    BY DEF Among, HostStatus
  <2>. QED BY <2>1, TotalIsTheSum
<1>. QED BY <1>1 DEF Sum, ValueIn, HostStatus

LEMMA ServiceSum ==
    ASSUME NEW counts \in [ServiceStatus -> Nat]
    PROVE  Total(counts) = counts["running"] + counts["unhealthy"] + counts["stopped"]
                            + counts["crash_loop"] + counts["unknown"]
<1>1. Total(counts) = Sum(counts, ServiceStatus,
                          "running", "unhealthy", "stopped", "crash_loop", "unknown")
  <2>1. Among(ServiceStatus, "running", "unhealthy", "stopped", "crash_loop", "unknown")
    BY DEF Among, ServiceStatus
  <2>. QED BY <2>1, TotalIsTheSum
<1>. QED BY <1>1 DEF Sum, ValueIn, ServiceStatus

LEMMA SegmentSum ==
    ASSUME NEW S \in SUBSET SslCertificateStatus, NEW counts \in [S -> Nat]
    PROVE  Total(counts) =
                Sum(counts, S, "valid", "expiring_soon", "expired", "invalid", "unknown")
<1>1. Among(S, "valid", "expiring_soon", "expired", "invalid", "unknown")
  BY DEF Among, SslCertificateStatus
<1>. QED BY <1>1, TotalIsTheSum

LEMMA CertificateSum ==
    ASSUME NEW counts \in [SslCertificateStatus -> Nat]
    PROVE  Total(counts) = counts["valid"] + counts["expiring_soon"] + counts["expired"]
                            + counts["invalid"] + counts["unknown"]
<1>1. Total(counts) = Sum(counts, SslCertificateStatus,
                          "valid", "expiring_soon", "expired", "invalid", "unknown")
  BY SegmentSum
<1>. QED BY <1>1 DEF Sum, ValueIn, SslCertificateStatus

\* The sum that the segment of unknown certificates is computed from.
LEMMA KnownSum ==
    ASSUME NEW counts \in [SslCertificateStatus -> Nat]
    PROVE  Total([status \in SslCertificateStatus \ {"unknown"} |-> counts[status]]) =
              counts["valid"] + counts["expiring_soon"] + counts["expired"] + counts["invalid"]
<1>. DEFINE Known == SslCertificateStatus \ {"unknown"}
            known == [status \in Known |-> counts[status]]
<1>1. Known \in SUBSET SslCertificateStatus
  OBVIOUS
<1>2. known \in [Known -> Nat]
  OBVIOUS
<1>3. /\ ValueIn(known, Known, "valid") = counts["valid"]
      /\ ValueIn(known, Known, "expiring_soon") = counts["expiring_soon"]
      /\ ValueIn(known, Known, "expired") = counts["expired"]
      /\ ValueIn(known, Known, "invalid") = counts["invalid"]
      /\ ValueIn(known, Known, "unknown") = 0
  BY DEF ValueIn, SslCertificateStatus
<1>4. /\ counts["valid"] \in Nat /\ counts["expiring_soon"] \in Nat
      /\ counts["expired"] \in Nat /\ counts["invalid"] \in Nat
  BY DEF SslCertificateStatus
<1>. HIDE DEF Known, known
<1>5. Total(known) = Sum(known, Known,
                          "valid", "expiring_soon", "expired", "invalid", "unknown")
  BY <1>1, <1>2, SegmentSum
<1>6. Total(known) = counts["valid"] + counts["expiring_soon"] + counts["expired"]
                        + counts["invalid"]
  BY <1>3, <1>4, <1>5 DEF Sum
<1>. QED BY <1>6 DEF known, Known

-----------------------------------------------------------------------------
(* What the queries count *)

\* Rows of a status, and the rows there are, by status.
WithStatus(table, status) == {x \in DOMAIN table : table[x] = status}

LEMMA DisjointUnion ==
    ASSUME NEW A, NEW B, IsFiniteSet(A), IsFiniteSet(B), A \cap B = {}
    PROVE  /\ IsFiniteSet(A \cup B)
           /\ Cardinality(A \cup B) = Cardinality(A) + Cardinality(B)
<1>1. /\ IsFiniteSet(A \cup B)
      /\ Cardinality(A \cup B) = Cardinality(A) + Cardinality(B) - Cardinality(A \cap B)
  BY FS_Union
<1>2. Cardinality(A \cap B) = 0
  BY FS_EmptySet
<1>3. Cardinality(A) \in Nat /\ Cardinality(B) \in Nat
  BY FS_CardinalityType
<1>. QED BY <1>1, <1>2, <1>3

\* GROUP BY status: each row is in one group.
LEMMA GroupsPartition ==
    ASSUME NEW a, NEW b, NEW c, NEW d, NEW e,
           a \notin {b, c, d, e}, b \notin {c, d, e}, c \notin {d, e}, d # e,
           NEW table, IsFiniteSet(DOMAIN table)
    PROVE  /\ \A status : Cardinality(WithStatus(table, status)) \in Nat
           /\ Cardinality({x \in DOMAIN table : table[x] \in {a, b, c, d, e}}) =
                Cardinality(WithStatus(table, a)) + Cardinality(WithStatus(table, b))
                + Cardinality(WithStatus(table, c)) + Cardinality(WithStatus(table, d))
                + Cardinality(WithStatus(table, e))
<1>. DEFINE G(status) == WithStatus(table, status)
            U2 == G(a) \cup G(b)  U3 == U2 \cup G(c)  U4 == U3 \cup G(d)  U5 == U4 \cup G(e)
<1>1. \A status : IsFiniteSet(G(status))
  BY FS_Subset DEF WithStatus
<1>2. \A status : Cardinality(G(status)) \in Nat
  BY <1>1, FS_CardinalityType
<1>3. /\ G(a) \cap G(b) = {} /\ U2 \cap G(c) = {} /\ U3 \cap G(d) = {} /\ U4 \cap G(e) = {}
  BY DEF WithStatus
<1>4. {x \in DOMAIN table : table[x] \in {a, b, c, d, e}} = U5
  BY DEF WithStatus
<1>. HIDE DEF G
<1>5. IsFiniteSet(U2) /\ Cardinality(U2) = Cardinality(G(a)) + Cardinality(G(b))
  BY <1>1, <1>3, DisjointUnion
<1>. HIDE DEF U2
<1>6. IsFiniteSet(U3) /\ Cardinality(U3) = Cardinality(U2) + Cardinality(G(c))
  BY <1>1, <1>3, <1>5, DisjointUnion
<1>. HIDE DEF U3
<1>7. IsFiniteSet(U4) /\ Cardinality(U4) = Cardinality(U3) + Cardinality(G(d))
  BY <1>1, <1>3, <1>6, DisjointUnion
<1>. HIDE DEF U4
<1>8. IsFiniteSet(U5) /\ Cardinality(U5) = Cardinality(U4) + Cardinality(G(e))
  BY <1>1, <1>3, <1>7, DisjointUnion
<1>. HIDE DEF U5
<1>. QED BY <1>2, <1>4, <1>5, <1>6, <1>7, <1>8 DEF G

LEMMA CountIsWithStatus ==
    ASSUME NEW table, IsFiniteSet(DOMAIN table), NEW statuses
    PROVE  /\ Count(table, statuses) \in [statuses -> Nat]
           /\ \A status \in statuses :
                Count(table, statuses)[status] = Cardinality(WithStatus(table, status))
<1>1. \A status : Cardinality(WithStatus(table, status)) \in Nat
  BY FS_Subset, FS_CardinalityType DEF WithStatus
<1>. QED BY <1>1 DEF Count, WithStatus

\* The number of hosts that are there is the sum of their donut.
LEMMA HostsAddUp ==
    ASSUME NEW table \in [Hosts -> RowValues(HostStatuses)]
    PROVE  /\ Count(table, HostStatus) \in [HostStatus -> Nat]
           /\ Total(Count(table, HostStatus)) = Cardinality(Present(table))
<1>. DEFINE N(status) == Cardinality(WithStatus(table, status))
            counts == Count(table, HostStatus)
<1>1. IsFiniteSet(DOMAIN table)
  BY OverviewAssumption
<1>2. counts \in [HostStatus -> Nat] /\ \A status \in HostStatus : counts[status] = N(status)
  BY <1>1, CountIsWithStatus
<1>3. Present(table) = {x \in DOMAIN table : table[x] \in
            {"healthy", "degraded", "unreachable", "unknown", "pending_setup"}}
  BY OverviewAssumption DEF Present, RowValues, HostStatus
<1>4. Cardinality(Present(table)) = N("healthy") + N("degraded") + N("unreachable")
                                    + N("unknown") + N("pending_setup")
  BY <1>1, <1>3, GroupsPartition
<1>. HIDE DEF counts, N
<1>5. Total(counts) = counts["healthy"] + counts["degraded"] + counts["unreachable"]
                        + counts["unknown"] + counts["pending_setup"]
  BY <1>2, HostSum
<1>6. Total(counts) = Cardinality(Present(table))
  BY <1>2, <1>4, <1>5 DEF HostStatus
<1>. QED BY <1>2, <1>6 DEF counts

LEMMA ServicesAddUp ==
    ASSUME NEW table \in [Hosts -> ServiceStatuses \cup {Missing}]
    PROVE  /\ Count(table, ServiceStatus) \in [ServiceStatus -> Nat]
           /\ Total(Count(table, ServiceStatus)) = Cardinality(Present(table))
<1>. DEFINE N(status) == Cardinality(WithStatus(table, status))
            counts == Count(table, ServiceStatus)
<1>1. IsFiniteSet(DOMAIN table)
  BY OverviewAssumption
<1>2. counts \in [ServiceStatus -> Nat] /\ \A status \in ServiceStatus : counts[status] = N(status)
  BY <1>1, CountIsWithStatus
<1>3. Present(table) = {x \in DOMAIN table : table[x] \in
            {"running", "unhealthy", "stopped", "crash_loop", "unknown"}}
  BY OverviewAssumption DEF Present, ServiceStatus
<1>4. Cardinality(Present(table)) = N("running") + N("unhealthy") + N("stopped")
                                    + N("crash_loop") + N("unknown")
  BY <1>1, <1>3, GroupsPartition
<1>. HIDE DEF counts, N
<1>5. Total(counts) = counts["running"] + counts["unhealthy"] + counts["stopped"]
                        + counts["crash_loop"] + counts["unknown"]
  BY <1>2, ServiceSum
<1>6. Total(counts) = Cardinality(Present(table))
  BY <1>2, <1>4, <1>5 DEF ServiceStatus
<1>. QED BY <1>2, <1>6 DEF counts

\* Of some domains there are no more certificates than domains.
LEMMA CertificatesFit ==
    ASSUME NEW ids \in SUBSET Domains
    PROVE  /\ CertsOf(ids) \in [SslCertificateStatus -> Nat]
           /\ Total(CertsOf(ids)) =< Cardinality(ids)
           /\ Cardinality(ids) \in Nat
<1>. DEFINE table == [d \in ids |-> cert[d]]
            N(status) == Cardinality(WithStatus(table, status))
            counts == Count(table, SslCertificateStatus)
            Counted == {x \in DOMAIN table : table[x] \in
                            {"valid", "expiring_soon", "expired", "invalid", "unknown"}}
<1>1. IsFiniteSet(ids) /\ DOMAIN table = ids
  BY OverviewAssumption, FS_Subset
<1>2. Cardinality(ids) \in Nat /\ Cardinality(Counted) =< Cardinality(ids)
      /\ Cardinality(Counted) \in Nat
  <2>1. Counted \in SUBSET ids
    OBVIOUS
  <2>. HIDE DEF Counted
  <2>. QED BY <1>1, <2>1, FS_Subset, FS_CardinalityType
<1>. HIDE DEF table
<1>3. /\ counts \in [SslCertificateStatus -> Nat]
      /\ \A status \in SslCertificateStatus : counts[status] = N(status)
  BY <1>1, CountIsWithStatus
<1>4. Cardinality(Counted) = N("valid") + N("expiring_soon") + N("expired")
                                + N("invalid") + N("unknown")
  BY <1>1, GroupsPartition
<1>. HIDE DEF counts, N, Counted
<1>5. Total(counts) = counts["valid"] + counts["expiring_soon"] + counts["expired"]
                        + counts["invalid"] + counts["unknown"]
  BY <1>3, CertificateSum
<1>6. Total(counts) = Cardinality(Counted)
  BY <1>3, <1>4, <1>5 DEF SslCertificateStatus
<1>7. counts = CertsOf(ids)
  BY DEF counts, table, CertsOf
<1>. QED BY <1>2, <1>3, <1>6, <1>7

-----------------------------------------------------------------------------
(* The inductive invariant *)

\* A count by status and the number of rows come from one table at one moment.
Whole(count, statuses) ==
    /\ count.by \in [statuses -> Nat] /\ count.total = Total(count.by)

\* The certificates are counted of the domains that were counted before them,
\* whatever became of these since: there are no more certificates than domains.
CertificatesWithin(certs, number) ==
    certs \in [SslCertificateStatus -> Nat] /\ number \in Nat /\ Total(certs) =< number

PartsAreWhole ==
    /\ DOMAIN parts = {"hosts", "services", "domains", "certs"}
    /\ parts["hosts"] # Missing => Whole(parts["hosts"], HostStatus)
    /\ parts["services"] # Missing => Whole(parts["services"], ServiceStatus)
    /\ parts["domains"] # Missing =>
            /\ parts["domains"].ids \subseteq Domains /\ parts["domains"].unresolved \in Nat
            /\ parts["domains"].unresolved =< Cardinality(parts["domains"].ids)
    /\ parts["certs"] # Missing =>
            /\ parts["domains"] # Missing
            /\ CertificatesWithin(parts["certs"], Cardinality(parts["domains"].ids))

OverviewIsWhole ==
    overview # Missing =>
        /\ Whole(overview.hosts, HostStatus) /\ Whole(overview.services, ServiceStatus)
        /\ CertificatesWithin(overview.certs, overview.total)
        /\ overview.unresolved \in Nat /\ overview.unresolved =< overview.total

ListingIsOfDomains == listing # Missing => DOMAIN listing \subseteq Domains

OverviewInv == OverviewTypeOK /\ PartsAreWhole /\ OverviewIsWhole /\ ListingIsOfDomains

-----------------------------------------------------------------------------
(* Types *)

LEMMA InitOverview == OverviewInit => OverviewInv
<1>. SUFFICES ASSUME OverviewInit PROVE OverviewInv
  OBVIOUS
<1>1. OverviewTypeOK
  <2>1. /\ host \in [Hosts -> RowValues(HostStatuses)]
        /\ dns \in [Domains -> RowValues(DnsStatuses)]
        /\ service \in [Hosts -> ServiceStatuses \cup {Missing}]
        /\ cert \in [Domains -> CertStatuses \cup {Missing}]
        /\ serviceRows \in [Hosts -> ServiceStatuses \cup {Missing, "error"}]
    BY DEF OverviewInit, RowValues, NoRows
  <2>. QED BY <2>1, OverviewAssumption DEF OverviewInit, OverviewTypeOK
<1>2. PartsAreWhole
  BY DEF OverviewInit, Pending, PartsAreWhole
<1>. QED BY <1>1, <1>2 DEF OverviewInit, OverviewInv, OverviewIsWhole, ListingIsOfDomains

\* Only Change counts them.
LEMMA ChangeBound == ASSUME changes \in 0..MaxChanges, changes < MaxChanges
                     PROVE  changes + 1 \in 0..MaxChanges
  BY OverviewAssumption

LEMMA TableTypes == ASSUME OverviewTypeOK, TableStep PROVE OverviewTypeOK'
<1>. DEFINE Tables == /\ host' \in [Hosts -> RowValues(HostStatuses)]
                      /\ service' \in [Hosts -> ServiceStatuses \cup {Missing}]
                      /\ dns' \in [Domains -> RowValues(DnsStatuses)]
                      /\ cert' \in [Domains -> CertStatuses \cup {Missing}]
<1>1. ASSUME NEW h \in Hosts, NEW status \in HostStatuses, SaveHost(h, status)
      PROVE  Change /\ Tables
  BY <1>1 DEF SaveHost, OverviewTypeOK, RowValues
<1>2. ASSUME NEW h \in Hosts, NEW status \in ServiceStatuses, SaveService(h, status)
      PROVE  Change /\ Tables
  BY <1>2 DEF SaveService, OverviewTypeOK
<1>3. ASSUME NEW h \in Hosts, RemoveHost(h) PROVE Change /\ Tables
  BY <1>3 DEF RemoveHost, OverviewTypeOK, RowValues
<1>4. ASSUME NEW d \in Domains, NEW status \in DnsStatuses, SaveDomain(d, status)
      PROVE  Change /\ Tables
  BY <1>4 DEF SaveDomain, OverviewTypeOK, RowValues
<1>5. ASSUME NEW d \in Domains, NEW status \in CertStatuses, SaveCertificate(d, status)
      PROVE  Change /\ Tables
  BY <1>5 DEF SaveCertificate, OverviewTypeOK
<1>6. ASSUME NEW d \in Domains, RemoveDomain(d) PROVE Change /\ Tables
  BY <1>6 DEF RemoveDomain, OverviewTypeOK, RowValues
<1>7. Change /\ Tables
  BY <1>1, <1>2, <1>3, <1>4, <1>5, <1>6 DEF TableStep
<1>. HIDE DEF Tables
<1>8. changes' \in 0..MaxChanges /\ UNCHANGED <<handlers, page>>
  BY <1>7, ChangeBound DEF Change, OverviewTypeOK
<1>. QED BY <1>7, <1>8 DEF Tables, OverviewTypeOK, page

LEMMA PresentRows ==
    ASSUME OverviewTypeOK
    PROVE  Present(host) \subseteq Hosts /\ Present(dns) \subseteq Domains
  BY DEF OverviewTypeOK, Present

LEMMA PageTypes ==
    ASSUME OverviewTypeOK, ListingIsOfDomains, UNCHANGED tables,
           \/ ListHosts \/ FindDomains \/ DomainsAnswered
           \/ \E h \in Hosts : ListServices(h) \/ PollFails(h)
    PROVE  OverviewTypeOK' /\ ListingIsOfDomains'
<1>. USE PresentRows DEF OverviewTypeOK, ListingIsOfDomains, tables, handlers, page
<1>1. CASE ListHosts
  BY <1>1 DEF ListHosts
<1>2. CASE FindDomains
  BY <1>2 DEF FindDomains
<1>3. CASE DomainsAnswered
  <2>1. DOMAIN listing \subseteq Domains
    BY <1>3 DEF DomainsAnswered
  <2>2. \A d \in Domains : SslStatus(d) \in SslCertificateStatus
    BY OverviewAssumption DEF SslStatus, SslCertificateStatus
  <2>3. DOMAIN domains' = DOMAIN listing /\
        \A d \in DOMAIN domains' : domains'[d].ssl = SslStatus(d)
    BY <1>3 DEF DomainsAnswered
  <2>. QED BY <1>3, <2>1, <2>2, <2>3 DEF DomainsAnswered
<1>4. ASSUME NEW h \in Hosts, ListServices(h) PROVE OverviewTypeOK' /\ ListingIsOfDomains'
  BY <1>4 DEF ListServices, HostServices
<1>5. ASSUME NEW h \in Hosts, PollFails(h) PROVE OverviewTypeOK' /\ ListingIsOfDomains'
  BY <1>5, ChangeBound DEF PollFails
<1>. QED BY <1>1, <1>2, <1>3, <1>4, <1>5

-----------------------------------------------------------------------------
(* GET /overview *)

\* What each of the four queries reads is whole.
LEMMA ReadsAreWhole ==
    ASSUME OverviewTypeOK
    PROVE  /\ Whole(HostCounts, HostStatus) /\ Whole(ServiceCounts, ServiceStatus)
           /\ CountedDomains.ids \subseteq Domains /\ CountedDomains.unresolved \in Nat
           /\ CountedDomains.unresolved =< Cardinality(CountedDomains.ids)
<1>1. Whole(HostCounts, HostStatus)
  BY HostsAddUp DEF Whole, HostCounts, OverviewTypeOK
<1>2. Whole(ServiceCounts, ServiceStatus)
  BY ServicesAddUp DEF Whole, ServiceCounts, OverviewTypeOK
<1>3. Present(dns) \subseteq Domains /\ IsFiniteSet(Present(dns))
  BY PresentRows, OverviewAssumption, FS_Subset
<1>4. {d \in Domains : dns[d] = "not_resolving"} \subseteq Present(dns)
  BY OverviewAssumption DEF OverviewTypeOK, Present, DomainDnsStatus
<1>5. /\ Cardinality({d \in Domains : dns[d] = "not_resolving"}) \in Nat
      /\ Cardinality({d \in Domains : dns[d] = "not_resolving"}) =< Cardinality(Present(dns))
  BY <1>3, <1>4, FS_Subset, FS_CardinalityType
<1>. QED BY <1>1, <1>2, <1>3, <1>5 DEF CountedDomains

LEMMA ReadsStep == ASSUME OverviewTypeOK, PartsAreWhole, OverviewReads PROVE PartsAreWhole'
<1>1. CASE ReadPart("hosts", HostCounts)
  BY <1>1, ReadsAreWhole DEF ReadPart, PartsAreWhole
<1>2. CASE ReadPart("services", ServiceCounts)
  BY <1>2, ReadsAreWhole DEF ReadPart, PartsAreWhole
<1>3. CASE ReadPart("domains", CountedDomains)
  BY <1>3, ReadsAreWhole DEF ReadPart, PartsAreWhole
<1>4. CASE parts["domains"] # Missing /\ ReadPart("certs", CertsOf(parts["domains"].ids))
  <2>1. CertificatesWithin(CertsOf(parts["domains"].ids), Cardinality(parts["domains"].ids))
    BY <1>4, CertificatesFit DEF PartsAreWhole, CertificatesWithin
  <2>. QED BY <1>4, <2>1 DEF ReadPart, PartsAreWhole
<1>. QED BY <1>1, <1>2, <1>3, <1>4 DEF OverviewReads

LEMMA AnswerStep ==
    ASSUME PartsAreWhole, OverviewAnswered
    PROVE  PartsAreWhole' /\ OverviewIsWhole'
<1>1. PartsAreWhole'
  BY DEF OverviewAnswered, Pending, PartsAreWhole
<1>2. /\ parts["hosts"] # Missing /\ parts["services"] # Missing /\ parts["domains"] # Missing
      /\ parts["certs"] # Missing /\ overview' = Answer
  BY DEF OverviewAnswered, PartsAreWhole
<1>3. /\ Whole(Answer.hosts, HostStatus) /\ Whole(Answer.services, ServiceStatus)
      /\ CertificatesWithin(Answer.certs, Answer.total)
      /\ Answer.unresolved \in Nat /\ Answer.unresolved =< Answer.total
  BY <1>2 DEF PartsAreWhole, Answer
<1>. QED BY <1>1, <1>2, <1>3 DEF OverviewIsWhole

LEMMA OverviewStep == ASSUME OverviewInv, [OverviewNext]_overviewVars PROVE OverviewInv'
<1>1. CASE TableStep
  <2>1. UNCHANGED <<handlers, page>>
    BY <1>1 DEF TableStep, SaveHost, SaveService, RemoveHost, SaveDomain, SaveCertificate,
                RemoveDomain, Change
  <2>. QED BY <1>1, <2>1, TableTypes
           DEF OverviewInv, PartsAreWhole, OverviewIsWhole, ListingIsOfDomains, handlers, page
<1>2. CASE OverviewReads
  <2>1. UNCHANGED <<tables, changes, listing, page>>
    BY <1>2 DEF OverviewReads, ReadPart
  <2>2. OverviewTypeOK'
    BY <2>1 DEF OverviewInv, OverviewTypeOK, tables, page
  <2>. QED BY <1>2, <2>1, <2>2, ReadsStep
           DEF OverviewInv, OverviewIsWhole, ListingIsOfDomains, page
<1>3. CASE OverviewAnswered
  <2>1. UNCHANGED <<tables, changes, listing, listed, serviceRows, domains>>
    BY <1>3 DEF OverviewAnswered
  <2>2. OverviewTypeOK'
    BY <2>1 DEF OverviewInv, OverviewTypeOK, tables
  <2>. QED BY <1>3, <2>1, <2>2, AnswerStep DEF OverviewInv, ListingIsOfDomains
<1>4. CASE \/ ListHosts \/ FindDomains \/ DomainsAnswered
           \/ \E h \in Hosts : ListServices(h) \/ PollFails(h)
  <2>1. UNCHANGED <<tables, parts, overview>>
    BY <1>4
    DEF ListHosts, FindDomains, DomainsAnswered, ListServices, PollFails, handlers, page
  <2>2. OverviewTypeOK' /\ ListingIsOfDomains'
    BY <1>4, <2>1, PageTypes DEF OverviewInv
  <2>. QED BY <2>1, <2>2 DEF OverviewInv, PartsAreWhole, OverviewIsWhole
<1>5. CASE UNCHANGED overviewVars
  BY <1>5 DEF overviewVars, tables, handlers, page, OverviewInv, OverviewTypeOK, PartsAreWhole,
              OverviewIsWhole, ListingIsOfDomains
<1>. QED BY <1>1, <1>2, <1>3, <1>4, <1>5 DEF OverviewNext

-----------------------------------------------------------------------------
(* The page *)

\* Certificates that are not there count as unknown, as those whose status is.
LEMMA SslSegmentsAddUp ==
    ASSUME CertificatesWithin(overview.certs, overview.total)
    PROVE  /\ Total(SslSegments) = overview.total
           /\ overview.certs["expired"] + overview.certs["invalid"] =< overview.total
<1>. DEFINE certs == overview.certs
            total == overview.total
            known == certs["valid"] + certs["expiring_soon"] + certs["expired"] + certs["invalid"]
<1>1. certs \in [SslCertificateStatus -> Nat] /\ total \in Nat
  BY DEF CertificatesWithin
<1>2. /\ certs["valid"] \in Nat /\ certs["expiring_soon"] \in Nat /\ certs["expired"] \in Nat
      /\ certs["invalid"] \in Nat /\ certs["unknown"] \in Nat
  BY <1>1 DEF SslCertificateStatus
<1>3. known + certs["unknown"] =< total
  BY <1>1, CertificateSum DEF CertificatesWithin
<1>4. UnknownCertificates = IF known > total THEN 0 ELSE total - known
  BY <1>1, KnownSum DEF UnknownCertificates
<1>. HIDE DEF certs, total
<1>5. UnknownCertificates = total - known /\ UnknownCertificates \in Nat
  BY <1>1, <1>2, <1>3, <1>4
<1>6. SslSegments = [certs EXCEPT !["unknown"] = UnknownCertificates]
  BY DEF SslSegments, certs
<1>7. SslSegments \in [SslCertificateStatus -> Nat]
  BY <1>1, <1>5, <1>6
<1>8. Total(SslSegments) = known + UnknownCertificates
  <2>1. Total(SslSegments) = SslSegments["valid"] + SslSegments["expiring_soon"]
            + SslSegments["expired"] + SslSegments["invalid"] + SslSegments["unknown"]
    BY <1>7, CertificateSum
  <2>2. /\ SslSegments["valid"] = certs["valid"] /\ SslSegments["expired"] = certs["expired"]
        /\ SslSegments["expiring_soon"] = certs["expiring_soon"]
        /\ SslSegments["invalid"] = certs["invalid"]
        /\ SslSegments["unknown"] = UnknownCertificates
    BY <1>1, <1>6 DEF SslCertificateStatus
  <2>. QED BY <2>1, <2>2
<1>9. Total(SslSegments) = total
  BY <1>1, <1>2, <1>5, <1>8
<1>10. certs["expired"] + certs["invalid"] =< total
  BY <1>1, <1>2, <1>3
<1>. QED BY <1>9, <1>10 DEF certs, total

LEMMA CountsFollow == OverviewInv => CountsAreSound
<1>. SUFFICES ASSUME OverviewInv, overview # Missing
              PROVE  /\ Total(HostSegments) = overview.hosts.total
                     /\ Total(ServiceSegments) = overview.services.total
                     /\ Total(SslSegments) = overview.total
                     /\ AttentionIsBounded
  BY DEF OverviewInv, CountsAreSound, SegmentsAddUp
<1>1. /\ overview.hosts.by \in [HostStatus -> Nat]
      /\ overview.hosts.total = Total(overview.hosts.by)
      /\ overview.services.by \in [ServiceStatus -> Nat]
      /\ overview.services.total = Total(overview.services.by)
      /\ CertificatesWithin(overview.certs, overview.total)
      /\ overview.unresolved =< overview.total
  BY DEF OverviewInv, OverviewIsWhole, Whole
<1>2. overview.hosts.by["degraded"] + overview.hosts.by["unreachable"] =< overview.hosts.total
  <2>. DEFINE by == overview.hosts.by
  <2>1. /\ by["healthy"] \in Nat /\ by["degraded"] \in Nat /\ by["unreachable"] \in Nat
        /\ by["unknown"] \in Nat /\ by["pending_setup"] \in Nat
    BY <1>1 DEF HostStatus
  <2>2. overview.hosts.total = by["healthy"] + by["degraded"] + by["unreachable"]
                                + by["unknown"] + by["pending_setup"]
    BY <1>1, HostSum
  <2>. HIDE DEF by
  <2>3. by["degraded"] + by["unreachable"] =< overview.hosts.total
    BY <2>1, <2>2
  <2>. QED BY <2>3 DEF by
<1>3. overview.services.by["unhealthy"] + overview.services.by["crash_loop"]
            =< overview.services.total
  <2>. DEFINE by == overview.services.by
  <2>1. /\ by["running"] \in Nat /\ by["unhealthy"] \in Nat /\ by["stopped"] \in Nat
        /\ by["crash_loop"] \in Nat /\ by["unknown"] \in Nat
    BY <1>1 DEF ServiceStatus
  <2>2. overview.services.total = by["running"] + by["unhealthy"] + by["stopped"]
                                    + by["crash_loop"] + by["unknown"]
    BY <1>1, ServiceSum
  <2>. HIDE DEF by
  <2>3. by["unhealthy"] + by["crash_loop"] =< overview.services.total
    BY <2>1, <2>2
  <2>. QED BY <2>3 DEF by
<1>. QED BY <1>1, <1>2, <1>3, SslSegmentsAddUp
         DEF HostSegments, ServiceSegments, AttentionIsBounded

\* The numbers of the overview page and the segments of its donuts are those of
\* tables that existed (overview.service.ts reads each count in a query of its
\* own, and the certificates of the domains that it counted before), whatever
\* is added, checked and removed between the queries.
THEOREM CountsSound == OverviewSpec => []CountsAreSound
<1>1. OverviewInit => OverviewInv
  BY InitOverview
<1>2. OverviewInv /\ [OverviewNext]_overviewVars => OverviewInv'
  BY OverviewStep
<1>3. OverviewInv => CountsAreSound
  BY CountsFollow
<1>. QED BY <1>1, <1>2, <1>3, PTL DEF OverviewSpec
=============================================================================
