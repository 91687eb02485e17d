--------------------------- MODULE CloudAccounts ---------------------------
(***************************************************************************)
(* Connecting a cloud provider: cloud-accounts.service.ts keeps a row per  *)
(* organization and provider, and each tab of InvoicesPage.tsx shows the   *)
(* row it last fetched.  One organization and one provider; a tab has one  *)
(* mutation at a time.  TypeORM's save of a row is its SELECT and then its *)
(* INSERT, or its UPDATE of the columns that differ from what it selected. *)
(***************************************************************************)
EXTENDS Naturals, FiniteSets

CONSTANTS
    Tabs, Labels,
    MaxConnects,    \* bound: connect requests; each has its own number
    Null

ConstantsAssumption ==
    /\ Null \notin Tabs \cup Labels \cup 1..MaxConnects
    /\ MaxConnects \in Nat /\ IsFiniteSet(Tabs)

VARIABLES
    open, lossy,    \* the tabs that are used, and may their responses be lost (both fixed)
    rows,           \* cloud_accounts of the provider
    made, given,    \* connect requests so far, and the label each was made with
    spc, number, copy, seen,    \* the server's side of each tab's mutation
    shown, qpc, answer,         \* each tab: card, query in flight, its answer
    form            \* is the card's form open

Numbers == 1..MaxConnects
\* A row has the id of the request that inserted it and the key of the one that
\* wrote it last: ciphertexts and times of two requests always differ.
CloudAccount == [id : Numbers, label : Labels, key : Numbers]

server == <<open, lossy, rows, made, given, spc, number, copy, seen>>
page == <<shown, qpc, answer, form>>
vars == <<server, page>>

Row(n, id) == [id |-> id, label |-> given[n], key |-> n]
WithId(id) == {row \in rows : row.id = id}

-----------------------------------------------------------------------------
(* The service *)

Init ==
    /\ open \in SUBSET Tabs /\ lossy \in BOOLEAN /\ (Cardinality(open) > 1 => lossy)
    /\ rows = {} /\ made = 0 /\ given = [n \in Numbers |-> Null]
    /\ spc = [t \in Tabs |-> "idle"] /\ number = [t \in Tabs |-> Null]
    /\ copy = [t \in Tabs |-> {}] /\ seen = [t \in Tabs |-> {}]
    /\ shown = [t \in Tabs |-> {}] /\ qpc = [t \in Tabs |-> "sent"]
    /\ answer = [t \in Tabs |-> {}] /\ form = [t \in Tabs |-> FALSE]

Go(t, from, to) == spc[t] = from /\ spc' = [spc EXCEPT ![t] = to]

\* connect: is there a row
ConnectFind(t) ==
    /\ Go(t, "connect", "select") /\ copy' = [copy EXCEPT ![t] = rows]
    /\ UNCHANGED <<open, lossy, rows, made, given, number, seen, page>>

\* save selects by the id of the copy; a new row has none
SaveSelects(t) ==
    /\ Go(t, "select", "write")
    /\ seen' = [seen EXCEPT ![t] = UNION {WithId(row.id) : row \in copy[t]}]
    /\ UNCHANGED <<open, lossy, rows, made, given, number, copy, page>>

\* IDX_cloud_accounts_org_id_provider, and the primary key
Taken(id) == rows # {}

\* {...existing, label, ...}, with the id of the row that was found
Saved(t) == Row(number[t], IF copy[t] = {} THEN number[t] ELSE (CHOOSE row \in copy[t] : TRUE).id)

SaveInserts(t) ==
    /\ seen[t] = {} /\ UNCHANGED <<open, lossy, made, given, number, copy, seen, page>>
    /\ IF Taken(Saved(t).id) THEN Go(t, "write", "rejected") /\ UNCHANGED rows
       ELSE Go(t, "write", "done") /\ rows' = rows \cup {Saved(t)}

\* The label is written if it differs from the one selected, the key always.
Updated(row, saved, old) ==
    [row EXCEPT !.key = saved.key, !.label = IF saved.label = old.label THEN @ ELSE saved.label]

\* (an UPDATE of a row that is gone by now changes nothing)
SaveUpdates(t) ==
    /\ Go(t, "write", "done")
    /\ \E old \in seen[t] : rows' = {IF row.id = old.id THEN Updated(row, Saved(t), old) ELSE row
                                        : row \in rows}
    /\ UNCHANGED <<open, lossy, made, given, number, copy, seen, page>>

\* disconnect: not found is a 404, else the row is removed by its id
DisconnectFind(t) ==
    /\ spc[t] = "disconnect"
    /\ copy' = [copy EXCEPT ![t] = UNION {WithId(row.id) : row \in shown[t]}]
    /\ Go(t, "disconnect", IF copy'[t] = {} THEN "rejected" ELSE "remove")
    /\ UNCHANGED <<open, lossy, rows, made, given, number, seen, page>>

Remove(t) ==
    /\ Go(t, "remove", "done")
    /\ rows' = {row \in rows : \A old \in copy[t] : row.id # old.id}
    /\ UNCHANGED <<open, lossy, made, given, number, copy, seen, page>>

-----------------------------------------------------------------------------
(* The page *)

ToggleForm(t) ==
    /\ shown[t] = {} /\ form' = [form EXCEPT ![t] = ~ @]
    /\ UNCHANGED <<server, shown, qpc, answer>>

\* handleConnect
Connect(t, label) ==
    /\ shown[t] = {} /\ form[t] /\ made < MaxConnects /\ Go(t, "idle", "connect")
    /\ made' = made + 1 /\ number' = [number EXCEPT ![t] = made']
    /\ given' = [given EXCEPT ![made'] = label]
    /\ UNCHANGED <<open, lossy, rows, copy, seen, page>>

\* handleDisconnect
Disconnect(t) ==
    /\ shown[t] # {} /\ Go(t, "idle", "disconnect")
    /\ UNCHANGED <<open, lossy, rows, made, given, number, copy, seen, page>>

Settle(t, from) ==
    /\ Go(t, from, "idle") /\ number' = [number EXCEPT ![t] = Null]
    /\ copy' = [copy EXCEPT ![t] = {}] /\ seen' = [seen EXCEPT ![t] = {}]
    /\ UNCHANGED <<open, lossy, rows, made, given, shown>>

\* Variant: the list is not fetched again.
NoRefetch(t) == UNCHANGED <<qpc, answer>>

\* invalidateQueries: a query in flight is cancelled, a new one is sent
Invalidate(t) ==
    /\ qpc' = [qpc EXCEPT ![t] = "sent"] /\ answer' = [answer EXCEPT ![t] = {}]

Succeeds(t) ==
    /\ Settle(t, "done") /\ Invalidate(t)
    /\ form' = [form EXCEPT ![t] = IF number[t] = Null THEN @ ELSE FALSE]

\* A 404 or a 500, or no response: the card stays as it is.
Fails(t) ==
    /\ \/ Settle(t, "rejected")
       \/ lossy /\ Settle(t, "done")
    /\ UNCHANGED <<qpc, answer, form>>

\* findAllForOrg
QueryReads(t) ==
    /\ qpc[t] = "sent" /\ qpc' = [qpc EXCEPT ![t] = "read"]
    /\ answer' = [answer EXCEPT ![t] = rows] /\ UNCHANGED <<server, shown, form>>

QueryEnds(t) ==
    /\ qpc[t] = "read" /\ qpc' = [qpc EXCEPT ![t] = "idle"]
    /\ shown' = [shown EXCEPT ![t] = answer[t]] /\ answer' = [answer EXCEPT ![t] = {}]
    /\ UNCHANGED <<server, form>>

\* The page is opened anew.
Reopen(t) ==
    /\ spc[t] = "idle" /\ qpc[t] = "idle"
    /\ qpc' = [qpc EXCEPT ![t] = "sent"] /\ form' = [form EXCEPT ![t] = FALSE]
    /\ UNCHANGED <<server, shown, answer>>

Next == \E t \in open :
    \/ ConnectFind(t) \/ SaveSelects(t) \/ SaveInserts(t) \/ SaveUpdates(t)
    \/ DisconnectFind(t) \/ Remove(t) \/ Succeeds(t) \/ Fails(t)
    \/ ToggleForm(t) \/ Disconnect(t) \/ QueryReads(t) \/ QueryEnds(t) \/ Reopen(t)
    \/ \E label \in Labels : Connect(t, label)

Spec == Init /\ [][Next]_vars

-----------------------------------------------------------------------------
(* Properties *)

\* Types of every variable.
TypeOK ==
    /\ open \subseteq Tabs /\ lossy \in BOOLEAN
    /\ rows \subseteq CloudAccount /\ made \in 0..MaxConnects
    /\ given \in [Numbers -> Labels \cup {Null}]
    /\ spc \in [Tabs -> {"idle", "connect", "select", "write", "disconnect", "remove", "done",
                         "rejected"}]
    /\ number \in [Tabs -> Numbers \cup {Null}]
    /\ \A t \in Tabs : copy[t] \cup seen[t] \cup shown[t] \cup answer[t] \subseteq CloudAccount
    /\ qpc \in [Tabs -> {"idle", "sent", "read"}] /\ form \in [Tabs -> BOOLEAN]

\* "One row per org+provider connection", however connects overlap.
OneAccountPerProvider == Cardinality(rows) <= 1

OneTab == Cardinality(open) = 1

\* "Connect a provider with an API key": with one tab, a row's label is the one
\* its key was given with, whichever responses were lost before (connect writes
\* both; TypeORM writes a column only if it differs from what it selected).
KeyHasItsLabel == OneTab => \A row \in rows : row.label = given[row.key]

\* With one tab, once its mutation and query are over, the card shows the row
\* (both hooks invalidate the list when the response arrives).
ShownIsStored ==
    OneTab /\ ~ lossy => \A t \in open : spc[t] = "idle" /\ qpc[t] = "idle" => shown[t] = rows
=============================================================================
