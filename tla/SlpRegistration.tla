--------------------------- MODULE SlpRegistration ---------------------------
(***************************************************************************)
(* slpd of OpenSLP 2.0.0 as a service agent (SA) that registers its        *)
(* services with a directory agent (DA) over UDP.                          *)
(*                                                                         *)
(* The SA learns of the DA by its adverts.  Every message, or batch of     *)
(* them, gets a datagram socket of its own, which resends what has not     *)
(* been acknowledged and gives the DA up after MaxTries.  Messages may be  *)
(* lost, doubled by resending, and overtake each other; both daemons may   *)
(* be stopped, crash and start again.  Lost messages never arrive: net     *)
(* holds what still may.                                                   *)
(*                                                                         *)
(* The DA is another slpd: it runs the same code in its other role.        *)
(***************************************************************************)
EXTENDS Integers, FiniteSets

CONSTANTS
  Services,     \* URLs of services on the SA's host
  Static,       \* those of slp.reg
  Immortal,     \* those with SLP_LIFETIME_MAXIMUM
  Xid,          \* header.xid of the registration of a service
  MaxTries,     \* MAX_RETRANSMITS
  MaxStale,     \* staleDACheckPeriod in units of SLPD_AGE_INTERVAL
  MaxSockets, MaxOps, MaxBoots

ASSUME ServiceAssumption == Static \subseteq Services /\ Immortal \subseteq Services
ASSUME CountAssumption ==
  /\ MaxTries \in Nat \ {0} /\ MaxStale \in Nat
  /\ MaxSockets \in Nat /\ MaxOps \in Nat /\ MaxBoots \in Nat \ {0}

VARIABLES
  sa, local,    \* the SA runs; its database of registrations
  known, stale, \* bootstamp of the DA in G_SlpdKnownDAs, or 0; its entryvalue
  socks,        \* G_OutgoingSocketList
  net,          \* registrations and deregistrations on their way to the DA
  acks,         \* acknowledgements on their way to a socket
  up, boot, db, \* the DA runs; its bootstamp and database
  adverts,      \* bootstamps of adverts of an earlier DA that still arrive
  crossed,      \* services registered while a deregistration was under way
  ops

client == <<sa, local, known, stale>>
wire == <<socks, net, acks, crossed>>
agent == <<up, boot, db, adverts>>
vars == <<client, wire, agent, ops>>

Socket == 1 .. MaxSockets
Closed == [kind |-> "closed", left |-> {}, tries |-> 0]
Message == [sock : Socket \cup {0}, kind : {"reg", "dereg"}, srv : Services]

TypeOK ==
  /\ sa \in BOOLEAN /\ up \in BOOLEAN
  /\ local \subseteq Services /\ db \subseteq Services /\ crossed \subseteq Services
  /\ known \in 0 .. MaxBoots /\ boot \in 1 .. MaxBoots
  /\ stale \in 0 .. MaxStale
  /\ socks \in [Socket -> [kind : {"closed", "reg", "dereg"}, left : SUBSET Services,
                           tries : 0 .. MaxTries - 1]]
  /\ net \subseteq Message
  /\ acks \subseteq Message
  /\ adverts \subseteq 0 .. MaxBoots
  /\ ops \in 0 .. MaxOps

Init ==
  /\ sa = TRUE /\ local = Static
  /\ known = 0 /\ stale = 0
  /\ socks = [i \in Socket |-> Closed]
  /\ net = {} /\ acks = {} /\ crossed = {}
  /\ up = TRUE /\ boot = 1 /\ db = {} /\ adverts = {}
  /\ ops = 0

Operation == ops < MaxOps /\ ops' = ops + 1

-----------------------------------------------------------------------------
(* Sockets                                                                 *)

Free == {i \in Socket : socks[i].kind = "closed"}
Copies(i, kind, S) == {[sock |-> i, kind |-> kind, srv |-> s] : s \in S}

\* A message of this kind for s is on its way, or will be sent again.
Outstanding(kind, s) ==
  \/ \E i \in Socket : socks[i].kind = kind /\ s \in socks[i].left
  \/ \E m \in net : m.kind = kind /\ m.srv = s

\* SLPDOutgoingConnect with UDP, and SLPDOutgoingDatagramWrite for each
\* message put on the sendlist.
Send(kind, S) ==
  IF S = {} THEN UNCHANGED wire
  ELSE /\ Free # {}
       /\ LET i == CHOOSE f \in Free : TRUE
          IN  /\ socks' = [socks EXCEPT ![i] = [kind |-> kind, left |-> S, tries |-> 0]]
              /\ net' = net \cup Copies(i, kind, S)
       /\ crossed' = IF kind = "reg"
                     THEN (crossed \ S) \cup {s \in S : Outstanding("dereg", s)}
                     ELSE crossed
       /\ UNCHANGED acks

\* What sockets that are closed have sent still travels; the answers are lost.
Orphans(I) == {IF m.sock \in I THEN [m EXCEPT !.sock = 0] ELSE m : m \in net}
Close(I) ==
  /\ socks' = [i \in Socket |-> IF i \in I THEN Closed ELSE socks[i]]
  /\ acks' = {m \in acks : m.sock \notin I}

\* Mutant of Retry: the DA that does not answer stays in the list.
RetryKeepingDa(i) ==
  /\ sa /\ socks[i].kind # "closed"
  /\ IF socks[i].left = {} \/ socks[i].tries + 1 = MaxTries
     THEN /\ Close({i})
          /\ net' = Orphans({i})
     ELSE /\ socks' = [socks EXCEPT ![i].tries = @ + 1]
          /\ net' = net \cup Copies(i, socks[i].kind, socks[i].left)
          /\ UNCHANGED acks
  /\ UNCHANGED <<client, crossed, agent, ops>>

\* SLPDOutgoingRetry for one socket whose age has come: freed when all is
\* acknowledged; else sent again, or the DA is given up.
Retry(i) ==
  /\ sa /\ socks[i].kind # "closed"
  /\ IF socks[i].left = {} \/ socks[i].tries + 1 = MaxTries
     THEN /\ Close({i})
          /\ net' = Orphans({i})
          /\ known' = IF socks[i].left = {} THEN known ELSE 0
     ELSE /\ socks' = [socks EXCEPT ![i].tries = @ + 1]
          /\ net' = net \cup Copies(i, socks[i].kind, socks[i].left)
          /\ UNCHANGED <<known, acks>>
  /\ UNCHANGED <<sa, local, stale, crossed, agent, ops>>

\* OutgoingDatagramRead of a SrvAck: what bears its xid is off the sendlist.
RecvAck(m) ==
  /\ sa /\ m \in acks
  /\ acks' = acks \ {m}
  /\ socks' = [socks EXCEPT ![m.sock].left = {s \in @ : Xid[s] # Xid[m.srv]}]
  /\ UNCHANGED <<client, net, crossed, agent, ops>>

-----------------------------------------------------------------------------
(* The service agent                                                       *)

\* SLPDKnownDAEcho, SLPDKnownDARegisterAll, SLPDKnownDADeregisterAll
ToDA(kind, S) == IF known = 0 THEN UNCHANGED wire ELSE Send(kind, S)

\* ProcessSrvReg: a client registers, or renews, a service.
ClientReg(s) ==
  /\ sa /\ s \notin Static
  /\ Operation
  /\ local' = local \cup {s}
  /\ ToDA("reg", {s})
  /\ UNCHANGED <<sa, known, stale, agent>>

\* ProcessSrvDeReg, and SLPDDatabaseAge when the client's process is gone
Leave(s) ==
  /\ sa /\ s \in local \ Static
  /\ Operation
  /\ local' = local \ {s}
  /\ ToDA("dereg", {s})
  /\ UNCHANGED <<sa, known, stale, agent>>

\* SLPDDatabaseAge: the lifetime is over; the DA finds out for itself.
Lapse(s) ==
  /\ sa /\ s \in local \ (Static \cup Immortal)
  /\ Operation
  /\ local' = local \ {s}
  /\ UNCHANGED <<sa, known, stale, wire, agent>>

\* SLPDKnownDAImmortalRefresh
Refresh ==
  /\ sa /\ known # 0
  /\ Operation
  /\ Send("reg", local \cap Immortal)
  /\ UNCHANGED <<client, agent>>

\* Mutant of RecvAdvert: a restart of the DA is not noticed.
RecvAdvertOfNew(b) ==
  /\ sa
  /\ \/ up /\ b = boot /\ UNCHANGED adverts
     \/ b \in adverts /\ adverts' = adverts \ {b}
  /\ known' = b
  /\ IF b = 0 THEN UNCHANGED <<stale, wire>>
     ELSE /\ stale' = MaxStale
          /\ IF known = 0 THEN Send("reg", local) ELSE UNCHANGED wire
  /\ UNCHANGED <<sa, local, up, boot, db, ops>>

\* SLPDKnownDAAdd for an advert: a dying DA is forgotten, a new or restarted
\* one gets all registrations.
RecvAdvert(b) ==
  /\ sa
  /\ \/ up /\ b = boot /\ UNCHANGED adverts
     \/ b \in adverts /\ adverts' = adverts \ {b}
  /\ known' = b
  /\ IF b = 0 THEN UNCHANGED <<stale, wire>>
     ELSE /\ stale' = MaxStale
          /\ IF b # known THEN Send("reg", local) ELSE UNCHANGED wire
  /\ UNCHANGED <<sa, local, up, boot, db, ops>>

\* SLPDKnownDAStaleDACheck
StaleTick ==
  /\ sa /\ known # 0
  /\ IF stale = 0 THEN known' = 0 /\ UNCHANGED stale
                  ELSE stale' = stale - 1 /\ UNCHANGED known
  /\ UNCHANGED <<sa, local, wire, agent, ops>>

\* HandleSigHup: everything is deregistered, slp.reg read again, and the
\* search for DAs begins anew.
Sighup ==
  /\ sa
  /\ Operation
  /\ ToDA("dereg", local)
  /\ \E file \in SUBSET Static : local' = (local \ Static) \cup file
  /\ known' = 0
  /\ UNCHANGED <<sa, stale, agent>>

\* The SA is gone, with its database and its sockets.
Gone ==
  /\ sa' = FALSE /\ local' = {} /\ known' = 0
  /\ Close(Socket)
  /\ UNCHANGED <<stale, crossed, agent>>

\* HandleSigTerm: the deregistrations are sent once, and SLPDOutgoingDeinit
\* closes their sockets without waiting, being datagram sockets.
Sigterm ==
  /\ sa
  /\ Operation
  /\ net' = Orphans(Socket) \cup (IF known = 0 THEN {} ELSE Copies(0, "dereg", local))
  /\ Gone

SaCrash ==
  /\ sa
  /\ Operation
  /\ net' = Orphans(Socket)
  /\ Gone

SaStart ==
  /\ ~sa
  /\ sa' = TRUE /\ local' = Static
  /\ UNCHANGED <<known, stale, wire, agent, ops>>

-----------------------------------------------------------------------------
(* The directory agent and the network                                     *)

\* ProcessSrvReg and ProcessSrvDeReg at the DA; both are acknowledged.
DaRecv(m) ==
  /\ up /\ m \in net
  /\ net' = net \ {m}
  /\ db' = IF m.kind = "reg" THEN db \cup {m.srv} ELSE db \ {m.srv}
  /\ acks' = IF m.sock = 0 THEN acks ELSE acks \cup {m}
  /\ UNCHANGED <<client, socks, crossed, up, boot, adverts, ops>>

\* SLPDDatabaseAge at the DA; a registration the SA still has is renewed.
DaExpire(s) ==
  /\ up /\ s \in db \ local
  /\ db' = db \ {s}
  /\ UNCHANGED <<client, wire, up, boot, adverts, ops>>

\* The DA stops: orderly, with an advert that says so, or not.
DaStop ==
  /\ up /\ Operation
  /\ up' = FALSE
  /\ \/ adverts' = adverts \cup {boot}
     \/ adverts' = adverts \cup {boot, 0}
  /\ UNCHANGED <<client, wire, boot, db>>

DaStart ==
  /\ ~up /\ boot < MaxBoots
  /\ up' = TRUE /\ boot' = boot + 1 /\ db' = {}
  /\ UNCHANGED <<client, wire, adverts, ops>>

Lose ==
  /\ \/ \E m \in net : net' = net \ {m} /\ UNCHANGED acks
     \/ \E m \in acks : acks' = acks \ {m} /\ UNCHANGED net
  /\ UNCHANGED <<client, socks, crossed, agent, ops>>

Next ==
  \/ \E s \in Services : ClientReg(s) \/ Leave(s) \/ Lapse(s) \/ DaExpire(s)
  \/ \E i \in Socket : Retry(i)
  \/ \E m \in acks : RecvAck(m)
  \/ \E b \in 0 .. MaxBoots : RecvAdvert(b)
  \/ Refresh \/ StaleTick \/ Sighup \/ Sigterm \/ SaCrash \/ SaStart
  \/ \E m \in net : DaRecv(m)
  \/ DaStop \/ DaStart \/ Lose

(***************************************************************************)
(* The main loop of the SA goes on, the DA advertises itself again and     *)
(* again, and a message sent again and again gets through at last.         *)
(***************************************************************************)
DaRegisters(s) == \E m \in net : m.kind = "reg" /\ m.srv = s /\ DaRecv(m)
Fairness ==
  /\ \A i \in Socket : WF_vars(Retry(i))
  /\ SF_vars(up /\ RecvAdvert(boot))
  /\ \A s \in Services : SF_vars(DaRegisters(s))

Spec == Init /\ [][Next]_vars /\ Fairness

-----------------------------------------------------------------------------
(***************************************************************************)
(* As long as the SA counts on the DA that runs, that DA has every         *)
(* registration of the SA, or a socket is still busy bringing it there:    *)
(* none is forgotten over resending, giving up, reboots, late adverts and  *)
(* late acknowledgements.  A service registered while a deregistration of  *)
(* it was under way is left out: the two may swap (crossed).               *)
(***************************************************************************)
Carried(s) == \E i \in Socket : socks[i].kind = "reg" /\ s \in socks[i].left
InSync ==
  sa /\ up /\ known = boot =>
    \A s \in local \ crossed : s \in db \/ Carried(s)

(***************************************************************************)
(* What the SA has registered comes to the DA, whatever is lost on the way *)
(* and however often one of them starts anew, once both of them stay.      *)
(***************************************************************************)
RegistrationArrives ==
  \A s \in Services :
    sa /\ up /\ s \in local \ crossed ~> s \in db \/ ~sa \/ ~up \/ s \notin local \/ s \in crossed
=============================================================================
