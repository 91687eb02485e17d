-------------------------- MODULE DomainCheckProofs --------------------------
(***************************************************************************)
(* Proofs about DomainCheck, for any numbers of domains, hostnames,        *)
(* requests and worker slots and every bound.                              *)
(***************************************************************************)
EXTENDS DomainCheck, TLAPS

\* The types of TypeOK, by the part of the system the variables belong to.
TableTypes ==
    /\ domain \in [Domains -> DomainRows \cup {Null}]
    /\ cert \in [Domains -> SslCertificateStatus \cup {Null}]
    /\ hosted \in BOOLEAN /\ removed \subseteq Domains

QueueTypes ==
    /\ armed \subseteq Domains
    /\ manual \in [Domains -> 0..2] /\ told \in [Domains -> SslCertificateStatus]
    /\ queued \in [Domains -> 0..MaxQueued] /\ tick \in BOOLEAN

RequestTypes ==
    /\ hpc \in [Handlers -> {"idle", "domain", "cert", "enqueue", "acquire", "enqueue_check"}]
    /\ hon \in [Handlers -> Domains \cup {Null}] /\ hmem \in [Handlers -> BOOLEAN]

Locals == [row : DomainRows, dns : DomainDnsStatus, ssl : SslCertificateStatus,
           dated : BOOLEAN, previous : SslCertificateStatus]

SlotTypes ==
    /\ pc \in [Workers -> {"idle", "dns", "whois", "save", "skip", "tls", "cert",
                           "save_cert", "alert"}]
    /\ on \in [Workers -> Domains \cup {Null}] /\ mem \in [Workers -> Locals]

NetTypes ==
    /\ resolves \in [Hostnames -> BOOLEAN] /\ peer \in [Hostnames -> Peers]
    /\ overlap \in Handlers /\ changes \in 0..MaxChanges[overlap]

\* A request or a slot at work has its domain, and an idle one has none.
HandlersAtWork == \A h \in Handlers : hpc[h] = "idle" <=> hon[h] = Null
SlotsAtWork == \A w \in Workers : pc[w] = "idle" <=> on[w] = Null
AtWork == HandlersAtWork /\ SlotsAtWork

LEMMA TypeParts ==
    TypeOK <=> TableTypes /\ QueueTypes /\ RequestTypes /\ SlotTypes /\ NetTypes
BY DEF TypeOK, TableTypes, QueueTypes, RequestTypes, SlotTypes, NetTypes, Locals

LEMMA NoLocalsTyped == NoLocals \in Locals
BY DEF NoLocals, Locals, NewDomain, DomainRows, DomainDnsStatus, SslCertificateStatus

LEMMA NewDomainTyped == ASSUME NEW b \in BOOLEAN PROVE NewDomain(b) \in DomainRows
BY DEF NewDomain, DomainRows, DomainDnsStatus

-----------------------------------------------------------------------------
(* Types *)

LEMMA InitTyped == Init => TypeOK /\ AtWork
<1>. SUFFICES ASSUME Init PROVE TypeOK /\ AtWork
  OBVIOUS
<1>1. TableTypes
  BY Zenon DEF Init, TableTypes
<1>2. QueueTypes
  <2>1. tick \in BOOLEAN
    BY Zenon DEF Init
  <2>. QED BY <2>1, ConstantsAssumption DEF Init, QueueTypes, SslCertificateStatus
<1>3. RequestTypes
  <2>1. hmem \in [Handlers -> BOOLEAN]
    BY Zenon DEF Init
  <2>. QED BY <2>1 DEF Init, RequestTypes
<1>4. SlotTypes
  BY NoLocalsTyped DEF Init, SlotTypes
<1>5. NetTypes
  <2>1. [kind |-> "dated", days |-> SSL_EXPIRY_WARNING_DAYS + 1] \in Peers
    BY ConstantsAssumption DEF Peers, DaysLeft
  <2>2. resolves \in [Hostnames -> BOOLEAN]
    BY Zenon DEF Init
  <2>3. overlap \in Handlers /\ changes \in 0..MaxChanges[overlap]
    BY ConstantsAssumption DEF Init
  <2>. QED BY <2>1, <2>2, <2>3 DEF Init, NetTypes
<1>6. AtWork
  BY DEF Init, AtWork, HandlersAtWork, SlotsAtWork
<1>. QED BY <1>1, <1>2, <1>3, <1>4, <1>5, <1>6, TypeParts

\* The next step of a handler, its answer and its start.
LEMMA HandlerMoves ==
    ASSUME RequestTypes, HandlersAtWork, NEW h \in Handlers
    PROVE  /\ \A s \in {"cert", "enqueue", "enqueue_check"} :
                  hpc[h] # "idle" /\ HGoto(h, s) => RequestTypes' /\ HandlersAtWork'
           /\ Answer(h) => RequestTypes' /\ HandlersAtWork'
           /\ \A d \in Domains, s \in {"domain", "acquire"}, m \in BOOLEAN :
                  Begin(h, d, s, m) => RequestTypes' /\ HandlersAtWork'
<1>. USE DEF RequestTypes, HandlersAtWork
<1>1. ASSUME NEW s \in {"cert", "enqueue", "enqueue_check"}, hpc[h] # "idle", HGoto(h, s)
      PROVE  RequestTypes' /\ HandlersAtWork'
  BY <1>1 DEF HGoto
<1>2. ASSUME Answer(h) PROVE RequestTypes' /\ HandlersAtWork'
  <2>1. hmem' \in [Handlers -> BOOLEAN]
    BY <1>2, Zenon DEF Answer
  <2>. QED BY <1>2, <2>1 DEF Answer
<1>3. ASSUME NEW d \in Domains, NEW s \in {"domain", "acquire"}, NEW m \in BOOLEAN,
             Begin(h, d, s, m)
      PROVE  RequestTypes' /\ HandlersAtWork'
  BY <1>3, ConstantsAssumption DEF Begin
<1>. QED BY <1>1, <1>2, <1>3

\* A slot goes on with its copies, ends, or takes a job.
LEMMA SlotMoves ==
    ASSUME SlotTypes, SlotsAtWork, NEW w \in Workers
    PROVE  /\ \A s, t \in {"dns", "whois", "save", "skip", "tls", "cert", "save_cert", "alert"} :
                  Passed(w, s, t) /\ mem' \in [Workers -> Locals] => SlotTypes' /\ SlotsAtWork'
           /\ Finish(w) => SlotTypes' /\ SlotsAtWork'
<1>. USE DEF SlotTypes, SlotsAtWork
<1>1. ASSUME NEW s \in {"dns", "whois", "save", "skip", "tls", "cert", "save_cert", "alert"},
             NEW t \in {"dns", "whois", "save", "skip", "tls", "cert", "save_cert", "alert"},
             Passed(w, s, t), mem' \in [Workers -> Locals]
      PROVE  SlotTypes' /\ SlotsAtWork'
  BY <1>1 DEF Passed
<1>2. ASSUME Finish(w) PROVE SlotTypes' /\ SlotsAtWork'
  BY <1>2, NoLocalsTyped DEF Finish
<1>. QED BY <1>1, <1>2

\* What TlsStatus says of a certificate.
LEMMA TlsTyped == ASSUME NEW p \in Peers PROVE TlsStatus(p) \in SslCertificateStatus
BY ConstantsAssumption DEF Peers, DaysLeft, TlsStatus, SslStatusFromValidTo, SslCertificateStatus

\* What a step leaves alone keeps its types.
LEMMA KeptTypes ==
    ASSUME TypeOK, AtWork
    PROVE  /\ UNCHANGED tables => TableTypes'
           /\ UNCHANGED <<armed, manual, told, queued, tick>> => QueueTypes'
           /\ UNCHANGED requests => RequestTypes' /\ HandlersAtWork'
           /\ UNCHANGED slots => SlotTypes' /\ SlotsAtWork'
           /\ UNCHANGED net => NetTypes'
           /\ UNCHANGED <<resolves, peer, overlap>> /\ (Change \/ UNCHANGED changes) => NetTypes'
<1>. TableTypes /\ QueueTypes /\ RequestTypes /\ SlotTypes /\ NetTypes
  BY TypeParts
<1>. HandlersAtWork /\ SlotsAtWork
  BY DEF AtWork
<1>1. Change => changes' \in 0..MaxChanges[overlap]
  BY ConstantsAssumption DEF Change, NetTypes
<1>2. UNCHANGED tables => TableTypes'
  BY DEF TableTypes, tables
<1>3. UNCHANGED <<armed, manual, told, queued, tick>> => QueueTypes'
  BY DEF QueueTypes
<1>4. UNCHANGED requests => RequestTypes' /\ HandlersAtWork'
  BY DEF RequestTypes, HandlersAtWork, requests
<1>5. UNCHANGED slots => SlotTypes' /\ SlotsAtWork'
  BY DEF SlotTypes, SlotsAtWork, slots
<1>6. UNCHANGED net => NetTypes'
  BY DEF NetTypes, net
<1>7. UNCHANGED <<resolves, peer, overlap>> /\ (Change \/ UNCHANGED changes) => NetTypes'
  BY <1>1 DEF NetTypes
<1>. QED BY <1>2, <1>3, <1>4, <1>5, <1>6, <1>7

\* The actions of the requests and of the world around them.
LEMMA RequestsTyped ==
    ASSUME TypeOK, AtWork,
           Ask \/ RemoveHost \/ Schedule \/ \E h \in Handlers : RequestStep(h) \/ RequestThrows(h)
    PROVE  TypeOK' /\ AtWork'
<1>. USE DEF tables, requests, slots, net
<1>. TableTypes /\ QueueTypes /\ RequestTypes /\ SlotTypes /\ NetTypes
  BY TypeParts
<1>. HandlersAtWork /\ SlotsAtWork
  BY DEF AtWork
<1>. DEFINE Goal == TypeOK' /\ AtWork'
<1>g. TableTypes' /\ QueueTypes' /\ RequestTypes' /\ HandlersAtWork' /\ SlotTypes' /\ SlotsAtWork'
        /\ NetTypes' => Goal
  BY TypeParts, PTL DEF AtWork
<1>. HIDE DEF Goal
<1>1. ASSUME NEW h \in Handlers, NEW d \in Domains, StartCreate(h, d) PROVE Goal
  <2>1. RequestTypes' /\ HandlersAtWork'
    BY <1>1, HandlerMoves DEF StartCreate, TableTypes
  <2>. QED BY <1>1, <2>1, KeptTypes, <1>g DEF StartCreate
<1>2. ASSUME NEW h \in Handlers, NEW d \in Domains, StartCheck(h, d) PROVE Goal
  <2>1. RequestTypes' /\ HandlersAtWork'
    BY <1>2, HandlerMoves DEF StartCheck
  <2>. QED BY <1>2, <2>1, KeptTypes, <1>g DEF StartCheck
<1>3. ASSUME NEW d \in Domains, RemoveDomain(d) PROVE Goal
  <2>1. TableTypes'
    BY <1>3 DEF RemoveDomain, TableTypes
  <2>. QED BY <1>3, <2>1, KeptTypes, <1>g DEF RemoveDomain
<1>4. ASSUME RemoveHost PROVE Goal
  <2>1. \A r \in DomainRows : [r EXCEPT !.host = FALSE] \in DomainRows
    BY DEF DomainRows
  <2>2. domain' \in [Domains -> DomainRows \cup {Null}]
    BY <1>4, <2>1 DEF RemoveHost, TableTypes
  <2>3. hosted' \in BOOLEAN
    BY <1>4, Zenon DEF RemoveHost
  <2>4. TableTypes'
    BY <1>4, <2>2, <2>3 DEF RemoveHost, TableTypes
  <2>. QED BY <1>4, <2>4, KeptTypes, <1>g DEF RemoveHost
<1>5. ASSUME Schedule PROVE Goal
  <2>1. tick' \in BOOLEAN
    BY <1>5, Zenon DEF Schedule
  <2>2. QueueTypes'
    BY <1>5, <2>1 DEF Schedule, QueueTypes
  <2>. QED BY <1>5, <2>2, KeptTypes, <1>g DEF Schedule
<1>6. ASSUME NEW h \in Handlers, InsertDomain(h) PROVE Goal
  <2>1. hon[h] \in Domains
    BY <1>6 DEF InsertDomain, RequestTypes, HandlersAtWork
  <2>2. NewDomain(hmem[h]) \in DomainRows
    BY NewDomainTyped DEF RequestTypes
  <2>3. TableTypes'
    BY <1>6, <2>1, <2>2 DEF InsertDomain, TableTypes
  <2>4. RequestTypes' /\ HandlersAtWork'
    BY <1>6, HandlerMoves DEF InsertDomain
  <2>. QED BY <1>6, <2>3, <2>4, KeptTypes, <1>g DEF InsertDomain
<1>7. ASSUME NEW h \in Handlers, InsertCert(h) PROVE Goal
  <2>1. TableTypes'
    BY <1>7 DEF InsertCert, TableTypes, SslCertificateStatus
  <2>2. RequestTypes' /\ HandlersAtWork'
    BY <1>7, HandlerMoves DEF InsertCert
  <2>. QED BY <1>7, <2>1, <2>2, KeptTypes, <1>g DEF InsertCert
<1>8. ASSUME NEW h \in Handlers, Acquire(h) PROVE Goal
  <2>1. hon[h] \in Domains
    BY <1>8 DEF Acquire, RequestTypes, HandlersAtWork
  <2>2. QueueTypes'
    BY <1>8, <2>1 DEF Acquire, QueueTypes
  <2>3. RequestTypes' /\ HandlersAtWork'
    BY <1>8, HandlerMoves DEF Acquire
  <2>. QED BY <1>8, <2>2, <2>3, KeptTypes, <1>g DEF Acquire
<1>9. ASSUME NEW h \in Handlers, Enqueue(h) PROVE Goal
  <2>1. hon[h] \in Domains
    BY <1>9 DEF Enqueue, RequestTypes, HandlersAtWork
  <2>2. queued' \in [Domains -> 0..MaxQueued]
    BY <1>9, <2>1, ConstantsAssumption DEF Enqueue, QueueTypes
  <2>3. manual' \in [Domains -> 0..2]
    BY <1>9, <2>1 DEF Enqueue, QueueTypes
  <2>4. QueueTypes'
    BY <1>9, <2>2, <2>3 DEF Enqueue, QueueTypes
  <2>5. RequestTypes' /\ HandlersAtWork'
    BY <1>9, HandlerMoves DEF Enqueue
  <2>. QED BY <1>9, <2>4, <2>5, KeptTypes, <1>g DEF Enqueue
<1>10. ASSUME NEW h \in Handlers, RequestThrows(h) PROVE Goal
  <2>1. RequestTypes' /\ HandlersAtWork'
    BY <1>10, HandlerMoves DEF RequestThrows
  <2>. QED BY <1>10, <2>1, KeptTypes, <1>g DEF RequestThrows
<1>11. Goal
  BY <1>1, <1>2, <1>3, <1>4, <1>5, <1>6, <1>7, <1>8, <1>9, <1>10 DEF Ask, RequestStep
<1>. QED BY <1>11 DEF Goal

\* The actions of the queue and of checkDomain.
LEMMA ChecksTyped ==
    ASSUME TypeOK, AtWork, NEW w \in Workers,
           FanOut(w) \/ CheckStep(w) \/ DatabaseThrows(w) \/ \E d \in Domains : Take(w, d)
    PROVE  TypeOK' /\ AtWork'
<1>. USE DEF tables, requests, slots, net
<1>. TableTypes /\ QueueTypes /\ RequestTypes /\ SlotTypes /\ NetTypes
  BY TypeParts
<1>. HandlersAtWork /\ SlotsAtWork
  BY DEF AtWork
<1>. DEFINE Goal == TypeOK' /\ AtWork'
<1>g. TableTypes' /\ QueueTypes' /\ RequestTypes' /\ HandlersAtWork' /\ SlotTypes' /\ SlotsAtWork'
        /\ NetTypes' => Goal
  BY TypeParts, PTL DEF AtWork
<1>. HIDE DEF Goal
<1>0. /\ mem[w].row \in DomainRows /\ mem[w].dns \in DomainDnsStatus
      /\ mem[w].ssl \in SslCertificateStatus /\ (pc[w] # "idle" => on[w] \in Domains)
  BY DEF SlotTypes, SlotsAtWork, Locals
<1>m. \A m \in Locals : mem' = [mem EXCEPT ![w] = m] => mem' \in [Workers -> Locals]
  BY DEF SlotTypes
<1>1. ASSUME FanOut(w) PROVE Goal
  <2>1. tick' \in BOOLEAN
    BY <1>1, Zenon DEF FanOut
  <2>2. queued' \in [Domains -> 0..MaxQueued]
    BY <1>1, ConstantsAssumption DEF FanOut, QueueTypes
  <2>3. QueueTypes'
    BY <1>1, <2>1, <2>2 DEF FanOut, QueueTypes
  <2>. QED BY <1>1, <2>3, KeptTypes, <1>g DEF FanOut
<1>2. ASSUME NEW d \in Domains, Take(w, d) PROVE Goal
  <2>1. queued' \in [Domains -> 0..MaxQueued]
    BY <1>2, ConstantsAssumption DEF Take, QueueTypes
  <2>2. QueueTypes'
    BY <1>2, <2>1 DEF Take, QueueTypes
  <2>3. SlotTypes' /\ SlotsAtWork'
    <3>1. CASE domain[d] = Null
      BY <1>2, <3>1, KeptTypes DEF Take
    <3>2. CASE domain[d] # Null
      <4>1. [NoLocals EXCEPT !.row = domain[d]] \in Locals
        BY <3>2, NoLocalsTyped DEF Locals, TableTypes
      <4>2. mem' \in [Workers -> Locals]
        BY <1>2, <3>2, <4>1, <1>m DEF Take
      <4>. QED BY <1>2, <3>2, <4>2, ConstantsAssumption DEF Take, SlotTypes, SlotsAtWork
    <3>. QED BY <3>1, <3>2
  <2>. QED BY <1>2, <2>2, <2>3, KeptTypes, <1>g DEF Take
<1>3. ASSUME Dns(w) PROVE Goal
  <2>1. PICK late \in BOOLEAN : Answered(late) /\ mem' = [mem EXCEPT ![w].dns =
            IF resolves[NameOn(w)] /\ ~ late THEN "resolving" ELSE "not_resolving"]
    BY <1>3 DEF Dns
  <2>2. mem' \in [Workers -> Locals]
    BY <2>1 DEF SlotTypes, Locals, DomainDnsStatus
  <2>3. Change \/ UNCHANGED changes
    BY <2>1 DEF Answered
  <2>. QED BY <1>3, <2>2, <2>3, SlotMoves, KeptTypes, <1>g DEF Dns, Passed
<1>4. ASSUME Whois(w) PROVE Goal
  <2>. mem' \in [Workers -> Locals]
    BY <1>4 DEF Whois, SlotTypes
  <2>. QED BY <1>4, SlotMoves, KeptTypes, <1>g DEF Whois, Step, Passed
<1>5. ASSUME SaveDomain(w) PROVE Goal
  <2>1. mem' \in [Workers -> Locals]
    BY <1>5 DEF SaveDomain, SlotTypes
  <2>2. PICK t \in {"tls", "skip"} : Passed(w, "save", t)
    BY <1>5 DEF SaveDomain, Step
  <2>3. SlotTypes' /\ SlotsAtWork'
    BY <2>1, <2>2, SlotMoves
  <2>4. [mem[w].row EXCEPT !.dns = mem[w].dns] \in DomainRows
    BY <1>0 DEF DomainRows
  <2>5. TableTypes'
    BY <1>5, <2>4 DEF SaveDomain, TableTypes
  <2>. QED BY <1>5, <2>3, <2>5, KeptTypes, <1>g DEF SaveDomain, Step, Passed
<1>6. ASSUME SaveDomainRejected(w) PROVE Goal
  BY <1>6, SlotMoves, KeptTypes, <1>g DEF SaveDomainRejected, End
<1>7. ASSUME NothingToSave(w) PROVE Goal
  BY <1>7, SlotMoves, KeptTypes, <1>g DEF NothingToSave, End
<1>8. ASSUME Tls(w) PROVE Goal
  <2>1. PICK late \in BOOLEAN : Answered(late) /\ mem' =
          [mem EXCEPT ![w].ssl = IF late THEN "invalid" ELSE TlsStatus(peer[NameOn(w)]),
                      ![w].dated = peer[NameOn(w)].kind # "unreadable"]
    BY <1>8 DEF Tls
  <2>2. NameOn(w) \in Hostnames
    BY <1>8, <1>0, ConstantsAssumption DEF Tls, Passed, NameOn
  <2>3. TlsStatus(peer[NameOn(w)]) \in SslCertificateStatus
    BY <2>2, TlsTyped DEF NetTypes
  <2>. DEFINE ssl == IF late THEN "invalid" ELSE TlsStatus(peer[NameOn(w)])
              dated == peer[NameOn(w)].kind # "unreadable"
  <2>4. ssl \in SslCertificateStatus
    BY <2>3 DEF SslCertificateStatus
  <2>5. dated \in BOOLEAN
    OBVIOUS
  <2>6. mem' = [mem EXCEPT ![w].ssl = ssl, ![w].dated = dated]
    BY <2>1
  <2>. HIDE DEF ssl, dated
  <2>7. mem' \in [Workers -> Locals]
    BY <2>4, <2>5, <2>6 DEF SlotTypes, Locals
  <2>8. Change \/ UNCHANGED changes
    BY <2>1 DEF Answered
  <2>. QED BY <1>8, <2>7, <2>8, SlotMoves, KeptTypes, <1>g DEF Tls, Passed
<1>9. ASSUME FindCert(w) PROVE Goal
  <2>1. cert[on[w]] \in SslCertificateStatus
    BY <1>9, <1>0 DEF FindCert, Step, Passed, TableTypes
  <2>2. mem' \in [Workers -> Locals]
    BY <1>9, <2>1 DEF FindCert, SlotTypes, Locals
  <2>. QED BY <1>9, <2>2, SlotMoves, KeptTypes, <1>g DEF FindCert, Step, Passed
<1>10. ASSUME SaveCert(w) PROVE Goal
  <2>1. mem' \in [Workers -> Locals]
    BY <1>10 DEF SaveCert, SlotTypes
  <2>2. TableTypes'
    BY <1>10, <1>0 DEF SaveCert, TableTypes
  <2>. QED BY <1>10, <2>1, <2>2, SlotMoves, KeptTypes, <1>g DEF SaveCert, Step, Passed
<1>11. ASSUME SaveCertRejected(w) PROVE Goal
  BY <1>11, SlotMoves, KeptTypes, <1>g DEF SaveCertRejected, End
<1>12. ASSUME Announce(w) PROVE Goal
  <2>1. QueueTypes'
    BY <1>12, <1>0 DEF Announce, End, QueueTypes
  <2>. QED BY <1>12, <2>1, SlotMoves, KeptTypes, <1>g DEF Announce, End
<1>13. ASSUME DatabaseThrows(w) PROVE Goal
  BY <1>13, SlotMoves, KeptTypes, <1>g DEF DatabaseThrows, End
<1>14. Goal
  BY <1>1, <1>2, <1>3, <1>4, <1>5, <1>6, <1>7, <1>8, <1>9, <1>10, <1>11, <1>12, <1>13
  DEF CheckStep
<1>. QED BY <1>14 DEF Goal

LEMMA TypesStep == TypeOK /\ AtWork /\ [Next]_vars => TypeOK' /\ AtWork'
<1>. SUFFICES ASSUME TypeOK, AtWork, [Next]_vars PROVE TypeOK' /\ AtWork'
  OBVIOUS
<1>. USE DEF tables, requests, slots, net
<1>. TableTypes /\ QueueTypes /\ RequestTypes /\ SlotTypes /\ NetTypes
  BY TypeParts
<1>. DEFINE Goal == TypeOK' /\ AtWork'
<1>g. TableTypes' /\ QueueTypes' /\ RequestTypes' /\ HandlersAtWork' /\ SlotTypes' /\ SlotsAtWork'
        /\ NetTypes' => Goal
  BY TypeParts, PTL DEF AtWork
<1>. HIDE DEF Goal
<1>1. ASSUME NEW d \in Domains, WindowEnds(d) PROVE Goal
  <2>1. QueueTypes'
    BY <1>1 DEF WindowEnds, QueueTypes
  <2>. QED BY <1>1, <2>1, KeptTypes, <1>g DEF WindowEnds
<1>2. ASSUME NEW n \in Hostnames, ChangeNet(n) PROVE Goal
  <2>1. changes' \in 0..MaxChanges[overlap] /\ overlap' \in Handlers
    BY <1>2, ConstantsAssumption DEF ChangeNet, Change, NetTypes
  <2>2. resolves' \in [Hostnames -> BOOLEAN] /\ peer' \in [Hostnames -> Peers]
    BY <1>2 DEF ChangeNet, NetTypes
  <2>3. NetTypes'
    BY <1>2, <2>1, <2>2 DEF ChangeNet, NetTypes
  <2>. QED BY <1>2, <2>3, KeptTypes, <1>g DEF ChangeNet
<1>3. ASSUME UNCHANGED vars PROVE Goal
  BY <1>3, KeptTypes, <1>g DEF vars
<1>4. Goal \/ Next
  BY <1>3
<1>5. ASSUME Next PROVE Goal
  BY <1>1, <1>2, <1>5, RequestsTyped, ChecksTyped DEF Next, Goal
<1>. QED BY <1>4, <1>5 DEF Goal

-----------------------------------------------------------------------------
(* One row per hostname, and one "check now" per window *)

\* A step adds at most one row, and only where the hostname has none: the unique
\* index sees the insert of create and the one of a save alike.
LEMMA InsertsAreFree ==
    ASSUME TypeOK, AtWork, [Next]_vars,
           NEW d \in Domains, domain[d] = Null, domain'[d] # Null
    PROVE  SameName(d) = {} /\ \A e \in Domains \ {d} : domain'[e] # Null => domain[e] # Null
<1>. USE DEF tables, TypeOK, AtWork, HandlersAtWork, SlotsAtWork
<1>. DEFINE Goal == SameName(d) = {}
                      /\ \A e \in Domains \ {d} : domain'[e] # Null => domain[e] # Null
<1>. HIDE DEF Goal
<1>1. ASSUME NEW e \in Domains, RemoveDomain(e) PROVE Goal
  BY <1>1 DEF RemoveDomain
<1>2. ASSUME RemoveHost PROVE Goal
  BY <1>2 DEF RemoveHost
<1>3. ASSUME NEW h \in Handlers, InsertDomain(h) PROVE Goal
  <2>1. NameTaken(hon[h]) = {} /\ domain' = [domain EXCEPT ![hon[h]] = NewDomain(hmem[h])]
    BY <1>3 DEF InsertDomain
  <2>. QED BY <2>1 DEF NameTaken, Goal
<1>4. ASSUME NEW w \in Workers, SaveDomain(w) PROVE Goal
  <2>1. /\ ~ (domain[on[w]] = Null /\ NameTaken(on[w]) # {})
        /\ domain' = [domain EXCEPT ![on[w]] = [mem[w].row EXCEPT !.dns = mem[w].dns]]
    BY <1>4 DEF SaveDomain, Rejected
  <2>. QED BY <2>1 DEF NameTaken, Goal
<1>5. ASSUME UNCHANGED domain PROVE Goal
  BY <1>5
<1>6. \/ UNCHANGED domain \/ RemoveHost \/ \E e \in Domains : RemoveDomain(e)
      \/ \E h \in Handlers : InsertDomain(h)
      \/ \E w \in Workers : SaveDomain(w)
  BY Zenon DEF Next, Ask, RequestStep, CheckStep, vars, StartCreate, StartCheck, Schedule,
         InsertCert, Acquire, Enqueue, RequestThrows, FanOut, Take, Dns, Whois,
         SaveDomainRejected, NothingToSave, Tls, FindCert, SaveCert, SaveCertRejected,
         Announce, DatabaseThrows, WindowEnds, ChangeNet
<1>. QED BY <1>1, <1>2, <1>3, <1>4, <1>5, <1>6 DEF Goal

LEMMA OneRowStep ==
    TypeOK /\ AtWork /\ OneRowPerHostname /\ [Next]_vars => OneRowPerHostname'
<1>. SUFFICES ASSUME TypeOK, AtWork, OneRowPerHostname, [Next]_vars,
                     NEW d \in Domains, NEW e \in Domains, d # e,
                     domain'[d] # Null, domain'[e] # Null
              PROVE  HostnameOf[e] # HostnameOf[d]
  BY DEF OneRowPerHostname, SameName
<1>1. CASE domain[d] = Null
  BY <1>1, InsertsAreFree DEF SameName
<1>2. CASE domain[e] = Null
  BY <1>2, InsertsAreFree DEF SameName
<1>3. CASE domain[d] # Null /\ domain[e] # Null
  BY <1>3 DEF OneRowPerHostname, SameName
<1>. QED BY <1>1, <1>2, <1>3

\* A handler that acquired the cooldown of a domain is alone, its window is open
\* and holds no check yet.
Triggering(h, d) == hpc[h] = "enqueue_check" /\ hon[h] = d

WindowInv ==
    \A d \in Domains :
        /\ manual[d] <= 1 /\ (manual[d] # 0 => d \in armed)
        /\ \A h \in Handlers : Triggering(h, d) => d \in armed /\ manual[d] = 0
        /\ \A g, h \in Handlers : Triggering(g, d) /\ Triggering(h, d) => g = h

LEMMA WindowStep == TypeOK /\ AtWork /\ WindowInv /\ [Next]_vars => WindowInv'
<1>. SUFFICES ASSUME TypeOK, AtWork, WindowInv, [Next]_vars PROVE WindowInv'
  OBVIOUS
<1>. USE DEF requests, TypeOK, HandlersAtWork, Triggering
<1>. HandlersAtWork
  BY DEF AtWork
<1>1. ASSUME UNCHANGED <<armed, manual>>, NEW g \in Handlers,
             \A h \in Handlers \ {g} : hpc'[h] = hpc[h] /\ hon'[h] = hon[h],
             hpc'[g] # "enqueue_check"
      PROVE  WindowInv'
  <2>1. \A h \in Handlers, d \in Domains : Triggering(h, d)' => Triggering(h, d)
    BY <1>1
  <2>. HIDE DEF Triggering, TypeOK, HandlersAtWork
  <2>. QED BY <1>1, <2>1 DEF WindowInv
<1>2. ASSUME NEW h \in Handlers, NEW d \in Domains, StartCreate(h, d) \/ StartCheck(h, d)
      PROVE  WindowInv'
  <2>1. hpc'[h] # "enqueue_check" /\ \A g \in Handlers \ {h} : hpc'[g] = hpc[g] /\ hon'[g] = hon[g]
    BY <1>2 DEF StartCreate, StartCheck, Begin
  <2>2. UNCHANGED <<armed, manual>>
    BY <1>2 DEF StartCreate, StartCheck
  <2>. QED BY <2>1, <2>2, <1>1
<1>3. ASSUME NEW h \in Handlers, InsertDomain(h) \/ InsertCert(h) \/ RequestThrows(h)
      PROVE  WindowInv'
  <2>1. hpc'[h] # "enqueue_check" /\ \A g \in Handlers \ {h} : hpc'[g] = hpc[g] /\ hon'[g] = hon[g]
    BY <1>3 DEF InsertDomain, InsertCert, RequestThrows, HGoto, Answer
  <2>2. UNCHANGED <<armed, manual>>
    BY <1>3 DEF InsertDomain, InsertCert, RequestThrows
  <2>. QED BY <2>1, <2>2, <1>1
<1>4. ASSUME NEW h \in Handlers, Acquire(h) PROVE WindowInv'
  <2>1. CASE hon[h] \in armed
    <3>1. armed' = armed /\ manual' = manual
      BY <1>4, <2>1 DEF Acquire
    <3>2. hpc'[h] # "enqueue_check" /\ \A g \in Handlers \ {h} : hpc'[g] = hpc[g] /\ hon'[g] = hon[g]
      BY <1>4, <2>1 DEF Acquire, TryAcquire, Answer
    <3>. QED BY <3>1, <3>2, <1>1
  <2>2. CASE hon[h] \notin armed
    <3>1. hpc' = [hpc EXCEPT ![h] = "enqueue_check"] /\ hon' = hon
      BY <1>4, <2>2 DEF Acquire, TryAcquire, HGoto
    <3>2. armed' = armed \cup {hon[h]} /\ manual' = manual
      BY <1>4 DEF Acquire
    <3>. QED BY <2>2, <3>1, <3>2 DEF WindowInv
  <2>. QED BY <2>1, <2>2
<1>5. ASSUME NEW h \in Handlers, Enqueue(h) PROVE WindowInv'
  <2>1. /\ armed' = armed /\ hpc'[h] # "enqueue_check"
        /\ \A g \in Handlers \ {h} : hpc'[g] = hpc[g] /\ hon'[g] = hon[g]
    BY <1>5 DEF Enqueue, Answer
  <2>2. CASE hpc[h] = "enqueue"
    BY <1>5, <2>1, <2>2, <1>1 DEF Enqueue
  <2>3. CASE hpc[h] = "enqueue_check"
    <3>1. hon[h] \in Domains /\ manual[hon[h]] = 0 /\ hon[h] \in armed
      BY <2>3 DEF WindowInv
    <3>2. manual' = [manual EXCEPT ![hon[h]] = 1]
      BY <1>5, <2>3, <3>1 DEF Enqueue
    <3>3. \A g \in Handlers, d \in Domains :
             Triggering(g, d)' => Triggering(g, d) /\ d # hon[h]
      BY <2>1, <2>3, <3>1 DEF WindowInv
    <3>4. manual'[hon[h]] = 1 /\ \A d \in Domains \ {hon[h]} : manual'[d] = manual[d]
      BY <3>1, <3>2
    <3>. HIDE DEF Triggering, TypeOK, HandlersAtWork
    <3>. QED BY <2>1, <3>1, <3>3, <3>4 DEF WindowInv
  <2>. QED BY <1>5, <2>2, <2>3 DEF Enqueue
<1>6. ASSUME NEW d \in Domains, WindowEnds(d) PROVE WindowInv'
  BY <1>6 DEF WindowEnds, WindowInv
<1>7. ASSUME UNCHANGED <<armed, manual, hpc, hon>> PROVE WindowInv'
  BY <1>7 DEF WindowInv
<1>8. \/ UNCHANGED <<armed, manual, hpc, hon>>
      \/ \E h \in Handlers, d \in Domains : StartCreate(h, d) \/ StartCheck(h, d)
      \/ \E h \in Handlers : InsertDomain(h) \/ InsertCert(h) \/ RequestThrows(h)
      \/ \E h \in Handlers : Acquire(h) \/ Enqueue(h)
      \/ \E d \in Domains : WindowEnds(d)
  BY Zenon DEF Next, Ask, RequestStep, CheckStep, vars, RemoveDomain, RemoveHost, Schedule,
         FanOut, Take, Dns, Whois, Step, Passed, End, SaveDomain,
         SaveDomainRejected, NothingToSave, Tls, FindCert, SaveCert, SaveCertRejected,
         Announce, DatabaseThrows, ChangeNet
<1>. QED BY <1>2, <1>3, <1>4, <1>5, <1>6, <1>7, <1>8

-----------------------------------------------------------------------------
(* Certificate rows *)

\* As long as nothing failed and nothing was removed, no row is missing under a
\* request or a check that is about to write it again.
RegistrationInv ==
    changes = 0 =>
        /\ EveryDomainHasCert
        /\ \A w \in Workers : pc[w] # "idle" => domain[on[w]] # Null
        /\ \A h \in Handlers : hpc[h] = "cert" => domain[hon[h]] # Null

LEMMA RegistrationStep ==
    TypeOK /\ AtWork /\ RegistrationInv /\ [Next]_vars => RegistrationInv'
<1>. SUFFICES ASSUME TypeOK, AtWork, RegistrationInv, [Next]_vars, changes' = 0
              PROVE  RegistrationInv'
  BY DEF RegistrationInv
<1>. USE DEF tables, requests, slots, net, HandlersAtWork, SlotsAtWork
<1>. HandlersAtWork /\ SlotsAtWork
  BY DEF AtWork
<1>0. changes = 0 /\ ~ Change
  <2>1. changes \in Nat
    BY ConstantsAssumption DEF TypeOK
  <2>2. ~ Change
    BY <2>1 DEF Change
  <2>3. changes' = changes \/ Change
    BY DEF Next, Ask, RequestStep, CheckStep, vars, StartCreate, StartCheck, RemoveDomain,
           RemoveHost, Schedule, InsertDomain, InsertCert, Acquire, Enqueue, RequestThrows,
           FanOut, Take, Dns, Answered, Whois, Step, SaveDomain, SaveDomainRejected,
           NothingToSave, Tls, FindCert, SaveCert, SaveCertRejected, Announce,
           DatabaseThrows, WindowEnds, ChangeNet
  <2>. QED BY <2>2, <2>3
<1>i. /\ EveryDomainHasCert
      /\ \A w \in Workers : pc[w] # "idle" => domain[on[w]] # Null
      /\ \A h \in Handlers : hpc[h] = "cert" => domain[hon[h]] # Null
  BY <1>0 DEF RegistrationInv
<1>. USE DEF TypeOK
<1>1. ASSUME NEW h \in Handlers, InsertDomain(h) PROVE RegistrationInv'
  <2>1. CASE Answer(h) /\ UNCHANGED domain
    <3>1. \A g \in Handlers : hpc[g] = "cert" <=> hpc'[g] = "cert"
      BY <1>1, <2>1 DEF InsertDomain, Answer
    <3>2. \A g \in Handlers : hpc[g] = "cert" => hon'[g] = hon[g]
      BY <1>1, <2>1 DEF InsertDomain, Answer
    <3>3. EveryDomainHasCert'
      BY <1>1, <1>0, <1>i, <2>1, <3>1, <3>2 DEF InsertDomain, EveryDomainHasCert
    <3>. QED BY <1>1, <1>i, <2>1, <3>1, <3>2, <3>3 DEF InsertDomain, RegistrationInv
  <2>2. CASE HGoto(h, "cert") /\ domain' = [domain EXCEPT ![hon[h]] = NewDomain(hmem[h])]
    <3>1. hon[h] \in Domains
      BY <1>1 DEF InsertDomain
    <3>2. hpc' = [hpc EXCEPT ![h] = "cert"] /\ hon' = hon
      BY <2>2 DEF HGoto
    <3>3. domain'[hon[h]] # Null
      BY <2>2, <3>1, NewDomainTyped, ConstantsAssumption
    <3>4. \A d \in Domains \ {hon[h]} : domain'[d] = domain[d]
      BY <2>2
    <3>5. cert' = cert /\ pc' = pc /\ on' = on
      BY <1>1 DEF InsertDomain
    <3>6. EveryDomainHasCert'
      <4>. SUFFICES ASSUME NEW d \in Domains, domain'[d] # Null, cert'[d] = Null
                    PROVE  \E g \in Handlers : hon'[g] = d /\ hpc'[g] = "cert"
        BY DEF EveryDomainHasCert
      <4>1. CASE d = hon[h]
        BY <3>2, <4>1
      <4>2. CASE d # hon[h]
        BY <1>0, <1>1, <1>i, <3>2, <3>4, <3>5, <4>2 DEF EveryDomainHasCert, InsertDomain
      <4>. QED BY <4>1, <4>2
    <3>7. \A w \in Workers : pc'[w] # "idle" => domain'[on'[w]] # Null
      BY <1>i, <3>3, <3>4, <3>5
    <3>8. \A g \in Handlers : hpc'[g] = "cert" => domain'[hon'[g]] # Null
      BY <1>i, <3>2, <3>3, <3>4
    <3>. QED BY <3>6, <3>7, <3>8 DEF RegistrationInv
  <2>. QED BY <1>1, <2>1, <2>2 DEF InsertDomain
<1>2. ASSUME NEW h \in Handlers, InsertCert(h) PROVE RegistrationInv'
  <2>1. domain[hon[h]] # Null /\ hon[h] \in Domains
    BY <1>2, <1>i DEF InsertCert
  <2>2. /\ hpc' = [hpc EXCEPT ![h] = "enqueue"] /\ hon' = hon
        /\ cert' = [cert EXCEPT ![hon[h]] = "unknown"] /\ domain' = domain
        /\ pc' = pc /\ on' = on
    BY <1>2, <2>1 DEF InsertCert, HGoto
  <2>3. EveryDomainHasCert'
    <3>. SUFFICES ASSUME NEW d \in Domains, domain[d] # Null, cert'[d] = Null
                  PROVE  \E g \in Handlers : hon'[g] = d /\ hpc'[g] = "cert"
      BY <2>2 DEF EveryDomainHasCert
    <3>1. d # hon[h] /\ cert[d] = Null
      BY <2>2, ConstantsAssumption DEF SslCertificateStatus
    <3>2. PICK g \in Handlers : hon[g] = d /\ hpc[g] = "cert"
      BY <1>0, <1>i, <3>1 DEF EveryDomainHasCert
    <3>. QED BY <2>2, <3>1, <3>2
  <2>. QED BY <1>i, <2>2, <2>3 DEF RegistrationInv
<1>3. ASSUME NEW h \in Handlers,
             \/ Acquire(h) \/ Enqueue(h)
             \/ \E d \in Domains : StartCreate(h, d) \/ StartCheck(h, d)
      PROVE  RegistrationInv'
  <2>1. hpc[h] # "cert" /\ hpc'[h] # "cert"
    BY <1>3 DEF Acquire, Enqueue, StartCreate, StartCheck, Begin, HGoto, Answer
  <2>2. \A g \in Handlers \ {h} : hpc'[g] = hpc[g] /\ hon'[g] = hon[g]
    BY <1>3 DEF Acquire, Enqueue, StartCreate, StartCheck, Begin, HGoto, Answer
  <2>3. UNCHANGED <<domain, cert, pc, on>>
    BY <1>3 DEF Acquire, Enqueue, StartCreate, StartCheck
  <2>4. EveryDomainHasCert'
    BY <1>0, <1>i, <2>1, <2>2, <2>3 DEF EveryDomainHasCert
  <2>. QED BY <1>i, <2>1, <2>2, <2>3, <2>4 DEF RegistrationInv
<1>4. ASSUME NEW w \in Workers, SaveDomain(w) PROVE RegistrationInv'
  <2>1. domain[on[w]] # Null /\ on[w] \in Domains
    BY <1>4, <1>i DEF SaveDomain, Step, Passed
  <2>2. [mem[w].row EXCEPT !.dns = mem[w].dns] \in DomainRows
    BY DEF DomainRows
  <2>3. \A d \in Domains : domain'[d] # Null <=> domain[d] # Null
    BY <1>4, <2>1, <2>2, ConstantsAssumption DEF SaveDomain
  <2>4. /\ UNCHANGED <<cert, hpc, hon, on>>
        /\ \A v \in Workers : pc'[v] # "idle" => pc[v] # "idle"
    BY <1>4 DEF SaveDomain, Step, Passed
  <2>5. EveryDomainHasCert'
    BY <1>0, <1>i, <2>3, <2>4 DEF EveryDomainHasCert
  <2>. QED BY <1>i, <2>3, <2>4, <2>5 DEF RegistrationInv
<1>5. ASSUME NEW w \in Workers, SaveCert(w) PROVE RegistrationInv'
  <2>1. \A d \in Domains : cert'[d] = Null => cert[d] = Null
    BY <1>5, ConstantsAssumption DEF SaveCert
  <2>2. /\ UNCHANGED <<domain, hpc, hon, on>>
        /\ \A v \in Workers : pc'[v] # "idle" => pc[v] # "idle"
    BY <1>5 DEF SaveCert, Step, Passed
  <2>3. EveryDomainHasCert'
    BY <1>0, <1>i, <2>1, <2>2 DEF EveryDomainHasCert
  <2>. QED BY <1>i, <2>2, <2>3 DEF RegistrationInv
<1>6. ASSUME UNCHANGED <<domain, cert, hpc, hon>>,
             \A w \in Workers : pc'[w] # "idle" => domain[on'[w]] # Null
      PROVE  RegistrationInv'
  <2>1. EveryDomainHasCert'
    BY <1>0, <1>6, <1>i DEF EveryDomainHasCert
  <2>. QED BY <1>i, <1>6, <2>1 DEF RegistrationInv
<1>7. ASSUME NEW w \in Workers, NEW d \in Domains, Take(w, d) PROVE RegistrationInv'
  <2>1. \A v \in Workers : pc'[v] # "idle" => domain[on'[v]] # Null
    BY <1>i, <1>7 DEF Take
  <2>. QED BY <1>6, <1>7, <2>1 DEF Take
<1>8. ASSUME NEW w \in Workers,
             Dns(w) \/ Whois(w) \/ Tls(w) \/ FindCert(w)
      PROVE  RegistrationInv'
  <2>1. \A v \in Workers : pc'[v] # "idle" => domain[on'[v]] # Null
    BY <1>i, <1>8 DEF Dns, Whois, Tls, FindCert, Step, Passed
  <2>. QED BY <1>6, <1>8, <2>1 DEF Dns, Whois, Tls, FindCert, Step, Passed
<1>9. ASSUME NEW w \in Workers,
             SaveDomainRejected(w) \/ NothingToSave(w) \/ SaveCertRejected(w) \/ Announce(w)
      PROVE  RegistrationInv'
  <2>1. Finish(w) /\ UNCHANGED <<domain, cert, hpc, hon>>
    BY <1>9 DEF SaveDomainRejected, NothingToSave, SaveCertRejected, Announce, End
  <2>2. \A v \in Workers : pc'[v] # "idle" => domain[on'[v]] # Null
    BY <1>i, <2>1 DEF Finish
  <2>. QED BY <1>6, <2>1, <2>2
<1>10. ASSUME UNCHANGED <<domain, cert, hpc, hon, pc, on>> PROVE RegistrationInv'
  BY <1>i, <1>6, <1>10
<1>. QED
  <2>1. \/ UNCHANGED <<domain, cert, hpc, hon, pc, on>>
        \/ \E h \in Handlers : \/ InsertDomain(h) \/ InsertCert(h) \/ Acquire(h) \/ Enqueue(h)
                               \/ \E d \in Domains : StartCreate(h, d) \/ StartCheck(h, d)
        \/ \E w \in Workers : CheckStep(w) \/ \E d \in Domains : Take(w, d)
    BY <1>0, Zenon DEF Next, Ask, RequestStep, vars, RemoveDomain, RemoveHost, Schedule,
           RequestThrows, FanOut, DatabaseThrows, WindowEnds, ChangeNet
  <2>. QED BY <1>1, <1>2, <1>3, <1>4, <1>5, <1>7, <1>8, <1>9, <1>10, <2>1 DEF CheckStep

-----------------------------------------------------------------------------
(* Ids without a certificate row yet *)

\* A domain that is being created, up to the insert of its certificate row, or
\* whose id is not used yet: once gone, it is not created again.
Creating(h, d) == hon[h] = d /\ hpc[h] \in {"domain", "cert"}
Fresh(d) == \/ domain[d] = Null /\ d \notin removed
            \/ \E h \in Handlers : Creating(h, d)

\* Nothing was said of such a domain and no check is about to say something;
\* one request creates it; and a certificate row is never without its domain.
FreshInv ==
    \A d \in Domains :
        /\ Fresh(d) => /\ cert[d] = Null /\ told[d] = "unknown"
                       /\ \A w \in Workers : on[w] = d => pc[w] \notin {"save_cert", "alert"}
        /\ \A g, h \in Handlers : Creating(g, d) /\ Creating(h, d) => g = h
        /\ cert[d] # Null => domain[d] # Null

\* A domain whose host is gone is still a row.
LEMMA HostlessRow ==
    ASSUME TypeOK, NEW d \in Domains, domain[d] # Null
    PROVE  [domain[d] EXCEPT !.host = FALSE] # Null
<1>1. domain[d] \in DomainRows
  BY DEF TypeOK
<1>2. ASSUME NEW r \in DomainRows PROVE [r EXCEPT !.host = FALSE] \in DomainRows
  BY DEF DomainRows
<1>. QED BY <1>1, <1>2, ConstantsAssumption

\* How the creation of a domain goes on: a step makes no domain fresh, and only
\* the start of create makes a creator.
LEMMA CreatorsStep ==
    ASSUME TypeOK, AtWork, FreshInv, [Next]_vars, NEW d \in Domains
    PROVE  /\ Fresh(d)' => Fresh(d)
           /\ \A g, h \in Handlers : Creating(g, d)' /\ Creating(h, d)' => g = h
<1>. USE DEF tables, requests, slots, net, TypeOK, HandlersAtWork, SlotsAtWork, Creating
<1>. HandlersAtWork /\ SlotsAtWork
  BY DEF AtWork
<1>. DEFINE Goal == /\ Fresh(d)' => Fresh(d)
                    /\ \A g, h \in Handlers : Creating(g, d)' /\ Creating(h, d)' => g = h
<1>i. \A g, h \in Handlers : Creating(g, d) /\ Creating(h, d) => g = h
  BY DEF FreshInv
<1>1. ASSUME \A h \in Handlers : Creating(h, d)' => Creating(h, d),
             domain'[d] = Null => domain[d] = Null \/ d \in removed',
             removed \subseteq removed'
      PROVE  Goal
  <2>. HIDE DEF Creating
  <2>. QED BY <1>1, <1>i DEF Fresh
<1>. HIDE DEF Goal
<1>2. ASSUME NEW h \in Handlers, NEW e \in Domains, StartCreate(h, e) PROVE Goal
  <2>1. e \in Unused
    BY <1>2 DEF StartCreate, NewDomainId
  <2>2. domain[e] = Null /\ e \notin removed /\ \A g \in Handlers : hon[g] # e
    BY <2>1 DEF Unused
  <2>3. PICK b \in BOOLEAN : Begin(h, e, "domain", b)
    BY <1>2 DEF StartCreate
  <2>4. UNCHANGED tables
    BY <1>2 DEF StartCreate
  <2>5. \A g \in Handlers : Creating(g, d)' <=> Creating(g, d) \/ (g = h /\ d = e)
    BY <2>2, <2>3 DEF Begin
  <2>. HIDE DEF Creating
  <2>6. Fresh(d)' => Fresh(d)
    BY <2>2, <2>4, <2>5 DEF Fresh
  <2>7. d = e => \A g \in Handlers : ~ Creating(g, d)
    BY <2>2 DEF Creating
  <2>. QED BY <1>i, <2>5, <2>6, <2>7 DEF Goal
<1>3. ASSUME NEW h \in Handlers, NEW e \in Domains, StartCheck(h, e) PROVE Goal
  <2>1. \A g \in Handlers : Creating(g, d)' => Creating(g, d)
    BY <1>3 DEF StartCheck, Begin
  <2>. QED BY <1>1, <1>3, <2>1 DEF StartCheck
<1>4. ASSUME NEW e \in Domains, RemoveDomain(e) PROVE Goal
  BY <1>1, <1>4 DEF RemoveDomain
<1>5. ASSUME RemoveHost PROVE Goal
  <2>1. domain[d] # Null => [domain[d] EXCEPT !.host = FALSE] # Null
    BY HostlessRow
  <2>2. domain'[d] = Null => domain[d] = Null
    BY <1>5, <2>1 DEF RemoveHost
  <2>. QED BY <1>1, <1>5, <2>2 DEF RemoveHost
<1>6. ASSUME NEW h \in Handlers, InsertDomain(h) PROVE Goal
  <2>1. \A g \in Handlers : Creating(g, d)' => Creating(g, d)
    BY <1>6 DEF InsertDomain, HGoto, Answer
  <2>2. NewDomain(hmem[h]) # Null
    BY NewDomainTyped, ConstantsAssumption
  <2>3. domain'[d] = Null => domain[d] = Null
    BY <1>6, <2>2 DEF InsertDomain
  <2>. QED BY <1>1, <1>6, <2>1, <2>3 DEF InsertDomain
<1>7. ASSUME NEW h \in Handlers, InsertCert(h) \/ Acquire(h) \/ Enqueue(h) \/ RequestThrows(h)
      PROVE  Goal
  <2>1. \A g \in Handlers : Creating(g, d)' => Creating(g, d)
    BY <1>7 DEF InsertCert, Acquire, Enqueue, RequestThrows, HGoto, Answer
  <2>. QED BY <1>1, <1>7, <2>1 DEF InsertCert, Acquire, Enqueue, RequestThrows
<1>8. ASSUME NEW w \in Workers, SaveDomain(w) PROVE Goal
  <2>1. [mem[w].row EXCEPT !.dns = mem[w].dns] # Null
    BY ConstantsAssumption DEF DomainRows
  <2>2. domain'[d] = Null => domain[d] = Null
    BY <1>8, <2>1 DEF SaveDomain
  <2>. QED BY <1>1, <1>8, <2>2 DEF SaveDomain, Step, Passed
<1>9. ASSUME UNCHANGED <<domain, removed, hpc, hon>> PROVE Goal
  BY <1>1, <1>9
<1>10. \/ UNCHANGED <<domain, removed, hpc, hon>> \/ RemoveHost
       \/ \E h \in Handlers : \/ RequestStep(h) \/ RequestThrows(h)
                              \/ \E e \in Domains : StartCreate(h, e) \/ StartCheck(h, e)
       \/ \E e \in Domains : RemoveDomain(e)
       \/ \E w \in Workers : SaveDomain(w)
  BY Zenon DEF Next, Ask, CheckStep, vars, Schedule, FanOut, Take, Dns, Whois,
         Step, Passed, End, SaveDomainRejected, NothingToSave, Tls, FindCert, SaveCert,
         SaveCertRejected, Announce, DatabaseThrows, WindowEnds, ChangeNet
<1>. QED
  BY <1>2, <1>3, <1>4, <1>5, <1>6, <1>7, <1>8, <1>9, <1>10 DEF RequestStep, Goal

LEMMA FreshStep == TypeOK /\ AtWork /\ FreshInv /\ [Next]_vars => FreshInv'
<1>. SUFFICES ASSUME TypeOK, AtWork, FreshInv, [Next]_vars, NEW d \in Domains
              PROVE  /\ Fresh(d)' => /\ cert'[d] = Null /\ told'[d] = "unknown"
                                     /\ \A w \in Workers :
                                            on'[w] = d => pc'[w] \notin {"save_cert", "alert"}
                     /\ cert'[d] # Null => domain'[d] # Null
  BY CreatorsStep DEF FreshInv
<1>. USE DEF tables, requests, slots, net, TypeOK, HandlersAtWork, SlotsAtWork
<1>. HandlersAtWork /\ SlotsAtWork
  BY DEF AtWork
<1>. DEFINE Quiet == /\ cert[d] = Null /\ told[d] = "unknown"
                     /\ \A w \in Workers : on[w] = d => pc[w] \notin {"save_cert", "alert"}
            Backed == cert[d] # Null => domain[d] # Null
            Goal == (Fresh(d) => Quiet)' /\ Backed'
<1>i. (Fresh(d) => Quiet) /\ Backed /\ (Fresh(d)' => Fresh(d))
  BY CreatorsStep DEF FreshInv
<1>k. ASSUME Quiet => Quiet', Backed' PROVE Goal
  BY <1>i, <1>k
<1>w. ASSUME NEW w \in Workers, pc'[w] \notin {"save_cert", "alert"},
             \A v \in Workers \ {w} : pc'[v] = pc[v] /\ on'[v] = on[v],
             cert' = cert, told' = told, Backed'
      PROVE  Goal
  BY <1>i, <1>w
<1>. HIDE DEF Goal
<1>1. ASSUME NEW e \in Domains, RemoveDomain(e) PROVE Goal
  BY <1>1, <1>i, <1>k DEF RemoveDomain
<1>2. ASSUME RemoveHost PROVE Goal
  <2>1. domain[d] # Null => [domain[d] EXCEPT !.host = FALSE] # Null
    BY HostlessRow
  <2>. QED BY <1>2, <1>i, <1>k, <2>1 DEF RemoveHost
<1>3. ASSUME NEW h \in Handlers, InsertDomain(h) PROVE Goal
  <2>1. NewDomain(hmem[h]) # Null
    BY NewDomainTyped, ConstantsAssumption
  <2>2. Backed'
    BY <1>3, <1>i, <2>1 DEF InsertDomain
  <2>. QED BY <1>3, <1>k, <2>2 DEF InsertDomain
<1>4. ASSUME NEW h \in Handlers, InsertCert(h) PROVE Goal
  <2>1. CASE domain[hon[h]] # Null
    <3>1. /\ hpc' = [hpc EXCEPT ![h] = "enqueue"] /\ hon' = hon
          /\ cert' = [cert EXCEPT ![hon[h]] = "unknown"]
      BY <1>4, <2>1 DEF InsertCert, HGoto
    <3>2. UNCHANGED <<domain, removed, told, pc, on>>
      BY <1>4 DEF InsertCert
    <3>3. d = hon[h] => ~ Fresh(d)'
      <4>1. d = hon[h] => Creating(h, d) /\ \A g \in Handlers : Creating(g, d)' => Creating(g, d) /\ g # h
        BY <1>4, <3>1 DEF Creating, InsertCert
      <4>2. d = hon[h] => \A g \in Handlers : ~ Creating(g, d)'
        BY <4>1 DEF FreshInv
      <4>. QED BY <2>1, <3>2, <4>2 DEF Fresh
    <3>4. Backed'
      BY <1>i, <2>1, <3>1, <3>2
    <3>5. d # hon[h] => cert'[d] = cert[d]
      BY <3>1
    <3>. QED BY <1>i, <3>2, <3>3, <3>4, <3>5 DEF Goal
  <2>2. CASE domain[hon[h]] = Null
    <3>1. UNCHANGED <<cert, domain, told, pc, on>>
      BY <1>4, <2>2 DEF InsertCert
    <3>. QED BY <1>i, <1>k, <3>1
  <2>. QED BY <2>1, <2>2
<1>5. ASSUME NEW w \in Workers, NEW e \in Domains, Take(w, e) PROVE Goal
  <2>1. Quiet => Quiet'
    BY <1>5 DEF Take
  <2>. QED BY <1>5, <1>i, <1>k, <2>1 DEF Take
<1>6. ASSUME NEW w \in Workers, Dns(w) \/ Whois(w) \/ Tls(w) PROVE Goal
  <2>1. /\ pc'[w] \notin {"save_cert", "alert"}
        /\ \A v \in Workers \ {w} : pc'[v] = pc[v] /\ on'[v] = on[v]
    BY <1>6 DEF Dns, Whois, Tls, Step, Passed
  <2>2. cert' = cert /\ told' = told /\ Backed'
    BY <1>6, <1>i DEF Dns, Whois, Tls, Step, Passed
  <2>. QED BY <1>w, <2>1, <2>2
<1>7. ASSUME NEW w \in Workers, SaveDomain(w) PROVE Goal
  <2>1. /\ pc'[w] \notin {"save_cert", "alert"}
        /\ \A v \in Workers \ {w} : pc'[v] = pc[v] /\ on'[v] = on[v]
    BY <1>7 DEF SaveDomain, Step, Passed
  <2>2. [mem[w].row EXCEPT !.dns = mem[w].dns] # Null
    BY ConstantsAssumption DEF DomainRows
  <2>3. cert' = cert /\ told' = told /\ Backed'
    BY <1>7, <1>i, <2>2 DEF SaveDomain, Step, Passed
  <2>. QED BY <1>w, <2>1, <2>3
<1>8. ASSUME NEW w \in Workers,
             SaveDomainRejected(w) \/ NothingToSave(w) \/ SaveCertRejected(w) \/ DatabaseThrows(w)
      PROVE  Goal
  <2>1. Finish(w) /\ cert' = cert /\ told' = told /\ domain' = domain
    BY <1>8 DEF SaveDomainRejected, NothingToSave, SaveCertRejected, DatabaseThrows, End
  <2>2. /\ pc'[w] \notin {"save_cert", "alert"}
        /\ \A v \in Workers \ {w} : pc'[v] = pc[v] /\ on'[v] = on[v]
    BY <2>1 DEF Finish
  <2>. QED BY <1>i, <1>w, <2>1, <2>2
<1>9. ASSUME NEW w \in Workers, FindCert(w) PROVE Goal
  <2>1. cert[on[w]] # Null /\ on[w] \in Domains
    BY <1>9 DEF FindCert, Step, Passed
  <2>2. Quiet => Quiet'
    BY <1>9, <2>1 DEF FindCert, Step, Passed
  <2>. QED BY <1>9, <1>i, <1>k, <2>2 DEF FindCert, Step, Passed
<1>10. ASSUME NEW w \in Workers, SaveCert(w) PROVE Goal
  <2>1. on[w] = d => ~ Quiet
    BY <1>10 DEF SaveCert, Step, Passed
  <2>2. /\ cert' = [cert EXCEPT ![on[w]] = mem[w].ssl] /\ domain[on[w]] # Null
        /\ told' = told /\ domain' = domain /\ on' = on
        /\ \A v \in Workers \ {w} : pc'[v] = pc[v]
    BY <1>10 DEF SaveCert, Step, Passed
  <2>3. Quiet => Quiet'
    BY <2>1, <2>2
  <2>4. Backed'
    BY <1>i, <2>2
  <2>. QED BY <1>k, <2>3, <2>4
<1>11. ASSUME NEW w \in Workers, Announce(w) PROVE Goal
  <2>1. on[w] = d => ~ Quiet
    BY <1>11 DEF Announce, End
  <2>2. /\ cert' = cert /\ domain' = domain /\ Finish(w)
        /\ on[w] # d => told'[d] = told[d]
    BY <1>11 DEF Announce, End
  <2>3. Quiet => Quiet'
    BY <2>1, <2>2 DEF Finish
  <2>. QED BY <1>i, <1>k, <2>2, <2>3
<1>12. ASSUME UNCHANGED <<domain, cert, told, pc, on>> PROVE Goal
  BY <1>i, <1>k, <1>12
<1>13. \/ UNCHANGED <<domain, cert, told, pc, on>> \/ RemoveHost
       \/ \E e \in Domains : RemoveDomain(e)
       \/ \E h \in Handlers : InsertDomain(h) \/ InsertCert(h)
       \/ \E w \in Workers : CheckStep(w) \/ DatabaseThrows(w) \/ \E e \in Domains : Take(w, e)
  BY Zenon DEF Next, Ask, RequestStep, vars, StartCreate, StartCheck, Schedule, Acquire,
         Enqueue, RequestThrows, FanOut, WindowEnds, ChangeNet
<1>. QED
  BY <1>1, <1>2, <1>3, <1>4, <1>5, <1>6, <1>7, <1>8, <1>9, <1>10, <1>11, <1>12, <1>13
  DEF CheckStep, Goal

-----------------------------------------------------------------------------
(* Announcements, as long as the checks of a domain do not overlap *)

\* From the read of a certificate row to its announcement, what a slot remembers
\* is what the row says or said last, and that is what was announced.  Only a
\* slot that is about to announce may know better than the last announcement.
AnnouncementInv ==
    /\ \A w \in Workers :
          /\ pc[w] = "save_cert" /\ domain[on[w]] # Null => cert[on[w]] = mem[w].previous
          /\ pc[w] = "alert" /\ cert[on[w]] # Null
                => mem[w].ssl = cert[on[w]] /\ mem[w].previous = told[on[w]]
    /\ \A d \in Domains :
          cert[d] # Null => told[d] = cert[d] \/ \E w \in Workers : on[w] = d /\ pc[w] = "alert"

LEMMA AnnouncementStep ==
    TypeOK /\ AtWork /\ FreshInv /\ ChecksApart /\ AnnouncementInv /\ [Next]_vars
        => AnnouncementInv'
<1>. SUFFICES ASSUME TypeOK, AtWork, FreshInv, ChecksApart, AnnouncementInv, [Next]_vars
              PROVE  AnnouncementInv'
  OBVIOUS
<1>. USE DEF tables, requests, slots, net, TypeOK, HandlersAtWork, SlotsAtWork
<1>. HandlersAtWork /\ SlotsAtWork
  BY DEF AtWork
<1>. DEFINE Knows(w) ==
                /\ pc[w] = "save_cert" /\ domain[on[w]] # Null => cert[on[w]] = mem[w].previous
                /\ pc[w] = "alert" /\ cert[on[w]] # Null
                      => mem[w].ssl = cert[on[w]] /\ mem[w].previous = told[on[w]]
            Spoken(d) ==
                cert[d] # Null => told[d] = cert[d] \/ \E w \in Workers : on[w] = d /\ pc[w] = "alert"
<1>i. (\A w \in Workers : Knows(w)) /\ \A d \in Domains : Spoken(d)
  BY DEF AnnouncementInv
<1>g. (\A w \in Workers : Knows(w)') /\ (\A d \in Domains : Spoken(d)') => AnnouncementInv'
  BY DEF AnnouncementInv
\* Steps of a slot that touch neither certificates nor announcements.
<1>w. ASSUME NEW w \in Workers, pc[w] # "alert", pc'[w] \notin {"save_cert", "alert"},
             \A v \in Workers \ {w} : pc'[v] = pc[v] /\ on'[v] = on[v] /\ mem'[v] = mem[v],
             cert' = cert, told' = told,
             \A v \in Workers \ {w} : pc[v] = "save_cert" /\ domain'[on[v]] # Null => domain[on[v]] # Null
      PROVE  AnnouncementInv'
  <2>1. ASSUME NEW v \in Workers PROVE Knows(v)'
    BY <1>i, <1>w
  <2>2. ASSUME NEW d \in Domains PROVE Spoken(d)'
    BY <1>i, <1>w
  <2>. QED BY <1>g, <2>1, <2>2
\* Steps of anyone else.
<1>. DEFINE Outside ==
                /\ pc' = pc /\ on' = on /\ mem' = mem /\ told' = told
                /\ \A d \in Domains : \/ cert'[d] = cert[d]
                                      \/ cert'[d] = Null /\ domain'[d] = Null
                                      \/ Fresh(d) /\ cert'[d] = "unknown"
                /\ \A w \in Workers :
                      pc[w] = "save_cert" /\ domain'[on[w]] # Null => domain[on[w]] # Null
<1>h. ASSUME Outside PROVE AnnouncementInv'
  <2>1. ASSUME NEW v \in Workers PROVE Knows(v)'
    <3>1. CASE pc[v] \in {"save_cert", "alert"}
      <4>1. on[v] \in Domains /\ ~ Fresh(on[v])
        BY <3>1 DEF FreshInv
      <4>. QED BY <1>i, <1>h, <3>1, <4>1
    <3>2. CASE pc[v] \notin {"save_cert", "alert"}
      BY <1>h, <3>2
    <3>. QED BY <3>1, <3>2
  <2>2. ASSUME NEW d \in Domains PROVE Spoken(d)'
    BY <1>i, <1>h DEF FreshInv
  <2>. QED BY <1>g, <2>1, <2>2
<1>. HIDE DEF Knows, Spoken
<1>1. ASSUME NEW e \in Domains, RemoveDomain(e) PROVE AnnouncementInv'
  <2>1. /\ domain' = [domain EXCEPT ![e] = Null] /\ cert' = [cert EXCEPT ![e] = Null]
        /\ UNCHANGED <<pc, on, mem, told>>
    BY <1>1 DEF RemoveDomain
  <2>2. \A d \in Domains : cert'[d] = cert[d] \/ (cert'[d] = Null /\ domain'[d] = Null)
    BY <2>1
  <2>3. \A w \in Workers : pc[w] = "save_cert" /\ domain'[on[w]] # Null => domain[on[w]] # Null
    BY <2>1
  <2>. QED BY <1>h, <2>1, <2>2, <2>3
<1>2. ASSUME RemoveHost PROVE AnnouncementInv'
  <2>1. \A w \in Workers : pc[w] = "save_cert" /\ domain'[on[w]] # Null => domain[on[w]] # Null
    BY <1>2 DEF RemoveHost
  <2>. QED BY <1>h, <1>2, <2>1 DEF RemoveHost
<1>3. ASSUME NEW h \in Handlers, InsertDomain(h) PROVE AnnouncementInv'
  <2>1. Fresh(hon[h])
    BY <1>3 DEF InsertDomain, Fresh, Creating
  <2>2. \A w \in Workers : pc[w] = "save_cert" => on[w] # hon[h] /\ on[w] \in Domains
    BY <2>1 DEF FreshInv
  <2>3. \A w \in Workers : pc[w] = "save_cert" /\ domain'[on[w]] # Null => domain[on[w]] # Null
    BY <1>3, <2>2 DEF InsertDomain
  <2>. QED BY <1>h, <1>3, <2>3 DEF InsertDomain
<1>4. ASSUME NEW h \in Handlers, InsertCert(h) PROVE AnnouncementInv'
  <2>1. Fresh(hon[h])
    BY <1>4 DEF InsertCert, Fresh, Creating
  <2>2. \A d \in Domains : cert'[d] = cert[d] \/ (Fresh(d) /\ cert'[d] = "unknown")
    BY <1>4, <2>1 DEF InsertCert
  <2>. QED BY <1>h, <1>4, <2>2 DEF InsertCert
<1>5. ASSUME NEW w \in Workers, NEW e \in Domains, Take(w, e) PROVE AnnouncementInv'
  <2>1. CASE domain[e] = Null
    <3>1. UNCHANGED <<pc, on, mem, cert, told, domain>>
      BY <1>5, <2>1 DEF Take
    <3>. QED BY <1>h, <3>1
  <2>2. CASE domain[e] # Null
    <3>1. pc[w] = "idle" /\ UNCHANGED <<cert, told, domain>>
      BY <1>5 DEF Take
    <3>2. /\ pc' = [pc EXCEPT ![w] = "dns"] /\ on' = [on EXCEPT ![w] = e]
          /\ mem' = [mem EXCEPT ![w] = [NoLocals EXCEPT !.row = domain[e]]]
      BY <1>5, <2>2 DEF Take
    <3>. QED BY <1>w, <3>1, <3>2
  <2>. QED BY <2>1, <2>2
<1>6. ASSUME NEW w \in Workers, Dns(w) \/ Whois(w) \/ Tls(w) PROVE AnnouncementInv'
  <2>1. /\ pc[w] # "alert" /\ pc'[w] \notin {"save_cert", "alert"} /\ UNCHANGED <<cert, told, domain>>
        /\ \A v \in Workers \ {w} : pc'[v] = pc[v] /\ on'[v] = on[v] /\ mem'[v] = mem[v]
    BY <1>6 DEF Dns, Whois, Tls, Step, Passed
  <2>. QED BY <1>w, <2>1
<1>7. ASSUME NEW w \in Workers, SaveDomain(w) PROVE AnnouncementInv'
  <2>1. /\ pc[w] = "save" /\ pc'[w] \notin {"save_cert", "alert"} /\ UNCHANGED <<cert, told>>
        /\ \A v \in Workers \ {w} : pc'[v] = pc[v] /\ on'[v] = on[v] /\ mem'[v] = mem[v]
    BY <1>7 DEF SaveDomain, Step, Passed
  <2>2. \A v \in Workers \ {w} : on[v] # Null => on[v] # on[w]
    BY DEF ChecksApart
  <2>3. \A v \in Workers \ {w} : pc[v] = "save_cert" /\ domain'[on[v]] # Null => domain[on[v]] # Null
    BY <1>7, <2>2 DEF SaveDomain
  <2>. QED BY <1>w, <2>1, <2>3
<1>8. ASSUME NEW w \in Workers,
             \/ SaveDomainRejected(w) \/ NothingToSave(w) \/ SaveCertRejected(w)
             \/ DatabaseThrows(w)
      PROVE  AnnouncementInv'
  <2>1. Finish(w) /\ pc[w] # "alert" /\ UNCHANGED <<cert, told, domain>>
    BY <1>8 DEF SaveDomainRejected, NothingToSave, SaveCertRejected, DatabaseThrows, End
  <2>2. /\ pc'[w] \notin {"save_cert", "alert"}
        /\ \A v \in Workers \ {w} : pc'[v] = pc[v] /\ on'[v] = on[v] /\ mem'[v] = mem[v]
    BY <2>1 DEF Finish
  <2>. QED BY <1>w, <2>1, <2>2
<1>9. ASSUME NEW w \in Workers, FindCert(w) PROVE AnnouncementInv'
  <2>1. /\ pc' = [pc EXCEPT ![w] = "save_cert"] /\ on' = on /\ pc[w] = "cert"
        /\ mem' = [mem EXCEPT ![w].previous = cert[on[w]]] /\ UNCHANGED <<cert, told, domain>>
    BY <1>9 DEF FindCert, Step, Passed
  <2>2. ASSUME NEW v \in Workers PROVE Knows(v)'
    BY <1>i, <2>1 DEF Knows
  <2>3. ASSUME NEW d \in Domains PROVE Spoken(d)'
    BY <1>i, <2>1 DEF Spoken
  <2>. QED BY <1>g, <2>2, <2>3
<1>10. ASSUME NEW w \in Workers, SaveCert(w) PROVE AnnouncementInv'
  <2>1. /\ pc' = [pc EXCEPT ![w] = "alert"] /\ on' = on /\ mem' = mem /\ pc[w] = "save_cert"
        /\ cert' = [cert EXCEPT ![on[w]] = mem[w].ssl] /\ UNCHANGED <<told, domain>>
        /\ domain[on[w]] # Null /\ on[w] \in Domains
    BY <1>10 DEF SaveCert, Step, Passed
  <2>2. \A v \in Workers \ {w} : on[v] # on[w]
    BY <2>1, ConstantsAssumption DEF ChecksApart
  <2>3. cert[on[w]] = mem[w].previous /\ cert[on[w]] # Null
    BY <1>i, <2>1, ConstantsAssumption DEF Knows
  <2>4. told[on[w]] = cert[on[w]]
    BY <1>i, <2>1, <2>2, <2>3 DEF Spoken
  <2>5. ASSUME NEW v \in Workers PROVE Knows(v)'
    BY <1>i, <2>1, <2>2, <2>3, <2>4 DEF Knows
  <2>6. ASSUME NEW d \in Domains PROVE Spoken(d)'
    BY <1>i, <2>1 DEF Spoken
  <2>. QED BY <1>g, <2>5, <2>6
<1>11. ASSUME NEW w \in Workers, Announce(w) PROVE AnnouncementInv'
  <2>1. pc[w] = "alert" /\ on[w] \in Domains /\ UNCHANGED <<cert, domain>>
    BY <1>11 DEF Announce, End
  <2>2. pc' = [pc EXCEPT ![w] = "idle"] /\ on' = [on EXCEPT ![w] = Null] /\ mem' = [mem EXCEPT ![w] = NoLocals]
    BY <1>11 DEF Announce, End, Finish
  <2>3. cert[on[w]] # Null => told'[on[w]] = cert[on[w]]
    BY <1>11, <1>i, <2>1 DEF Knows, Announce
  <2>4. \A d \in Domains \ {on[w]} : told'[d] = told[d]
    BY <1>11 DEF Announce
  <2>5. \A v \in Workers \ {w} : on[v] # on[w]
    BY <2>1, ConstantsAssumption DEF ChecksApart
  <2>6. ASSUME NEW v \in Workers PROVE Knows(v)'
    BY <1>i, <2>1, <2>2, <2>4, <2>5 DEF Knows
  <2>7. ASSUME NEW d \in Domains PROVE Spoken(d)'
    BY <1>i, <2>1, <2>2, <2>3, <2>4 DEF Spoken
  <2>. QED BY <1>g, <2>6, <2>7
<1>12. ASSUME UNCHANGED <<domain, cert, told, pc, on, mem>> PROVE AnnouncementInv'
  BY <1>h, <1>12
<1>13. \/ UNCHANGED <<domain, cert, told, pc, on, mem>> \/ RemoveHost
       \/ \E e \in Domains : RemoveDomain(e)
       \/ \E h \in Handlers : InsertDomain(h) \/ InsertCert(h)
       \/ \E w \in Workers : CheckStep(w) \/ DatabaseThrows(w) \/ \E e \in Domains : Take(w, e)
  BY Zenon DEF Next, Ask, RequestStep, vars, StartCreate, StartCheck, Schedule, Acquire,
         Enqueue, RequestThrows, FanOut, WindowEnds, ChangeNet
<1>. QED
  BY <1>1, <1>2, <1>3, <1>4, <1>5, <1>6, <1>7, <1>8, <1>9, <1>10, <1>11, <1>12, <1>13
  DEF CheckStep

-----------------------------------------------------------------------------
(* Theorems *)

DomainInv ==
    TypeOK /\ AtWork /\ OneRowPerHostname /\ RegistrationInv /\ WindowInv /\ FreshInv

LEMMA InitDomain == Init => DomainInv /\ AnnouncementInv
<1>. SUFFICES ASSUME Init PROVE DomainInv /\ AnnouncementInv
  OBVIOUS
<1>1. TypeOK /\ AtWork
  BY InitTyped
<1>2. OneRowPerHostname /\ RegistrationInv
  BY DEF Init, OneRowPerHostname, RegistrationInv, EveryDomainHasCert
<1>3. WindowInv
  BY DEF Init, WindowInv, Triggering
<1>4. FreshInv
  BY DEF Init, FreshInv, Creating
<1>5. AnnouncementInv
  BY DEF Init, AnnouncementInv
<1>. QED BY <1>1, <1>2, <1>3, <1>4, <1>5 DEF DomainInv

LEMMA DomainHolds == Spec => []DomainInv
<1>1. DomainInv /\ [Next]_vars => DomainInv'
  BY TypesStep, OneRowStep, RegistrationStep, WindowStep, FreshStep DEF DomainInv
<1>. QED BY <1>1, InitDomain, PTL DEF Spec

\* A hostname has one row however requests overlap and whatever a check inserts
\* again, and as long as nothing fails every registered domain has the
\* certificate row its page needs (domains.service.ts, create).
THEOREM RowsSound == Spec => []RowsAreSound
<1>1. DomainInv => RowsAreSound
  <2>. SUFFICES ASSUME DomainInv PROVE RowsAreSound
    OBVIOUS
  <2>1. TypeOK /\ OneRowPerHostname
    BY DEF DomainInv
  <2>2. EveryDomainHasCert
    <3>1. CASE changes = 0
      BY <3>1 DEF DomainInv, RegistrationInv
    <3>2. CASE changes # 0
      BY <3>2 DEF EveryDomainHasCert
    <3>. QED BY <3>1, <3>2
  <2>. QED BY <2>1, <2>2 DEF RowsAreSound
<1>. QED BY <1>1, DomainHolds, PTL

\* "Check now" runs "max once/minute", however many requests ask at once:
\* RateLimiterService.tryAcquire lets one of them through.
THEOREM OneManualCheck == Spec => []OneManualCheckPerWindow
<1>1. DomainInv => OneManualCheckPerWindow
  BY DEF DomainInv, WindowInv, OneManualCheckPerWindow
<1>. QED BY <1>1, DomainHolds, PTL

\* With any number of slots, as long as no two of them check one domain, every
\* change of a certificate's status is announced, also over failed jobs and over
\* removals and registrations in between (checkTls).
THEOREM Announcements == Spec => AnnouncedIsCurrent
<1>. DEFINE Quiet == (\A w \in Workers : pc[w] = "idle")
                        => \A d \in Domains : cert[d] # Null => told[d] = cert[d]
<1>1. DomainInv /\ ChecksApart /\ AnnouncementInv /\ [Next]_vars => AnnouncementInv'
  BY AnnouncementStep DEF DomainInv
<1>2. AnnouncementInv => Quiet
  BY DEF AnnouncementInv
<1>. HIDE DEF Quiet
<1>3. Spec => ([]ChecksApart => []Quiet)
  BY <1>1, <1>2, InitDomain, DomainHolds, PTL DEF Spec
<1>. QED BY <1>3 DEF AnnouncedIsCurrent, Quiet

=============================================================================
