------------------------------ MODULE SlpProofs ------------------------------
(***************************************************************************)
(* InSync of SlpRegistration for any number of services and sockets, any   *)
(* retry limit and any number of crashes.                                  *)
(*                                                                         *)
(* InSync is not inductive.  A registration that a socket still carries is *)
(* safe only while no acknowledgement of it waits for that socket, for the *)
(* acknowledgement may come from a database the DA has lost since (Good);  *)
(* and one the DA has is safe only while no deregistration of it is on its *)
(* way (NoDereg).  Both rest on what is on the wire belonging to sockets   *)
(* that are open (WireOpen), and on adverts being of boots that were.      *)
(***************************************************************************)
EXTENDS SlpRegistration, TLAPS

Good(i, s) ==
  /\ socks[i].kind = "reg" /\ s \in socks[i].left
  /\ \A m \in acks : m.sock = i => m.srv # s

BootsPast == known <= boot /\ \A b \in adverts : b <= boot
WireOpen ==
  /\ \A m \in net : m.sock # 0 => socks[m.sock].kind # "closed"
  /\ \A m \in acks : m.sock # 0 /\ socks[m.sock].kind # "closed"
NoDereg ==
  sa /\ known # 0 => \A s \in local \ crossed : ~Outstanding("dereg", s)
Safe(s) == s \in db \/ \E i \in Socket : Good(i, s)
AllSafe == sa /\ up /\ known = boot => \A s \in local \ crossed : Safe(s)

Forgotten == ~sa => known = 0

IInv == TypeOK /\ BootsPast /\ Forgotten /\ WireOpen /\ NoDereg /\ AllSafe

DistinctXids == \A s, t \in Services : Xid[s] = Xid[t] => s = t

-----------------------------------------------------------------------------
\* The socket a message is sent from was closed.
LEMMA SendSocket ==
  ASSUME NEW kind, NEW S, S # {}, Send(kind, S)
  PROVE  \E i \in Socket :
           /\ socks[i].kind = "closed"
           /\ socks' = [socks EXCEPT ![i] = [kind |-> kind, left |-> S, tries |-> 0]]
           /\ net' = net \cup Copies(i, kind, S)
           /\ acks' = acks
           /\ crossed' = IF kind = "reg"
                         THEN (crossed \ S) \cup {s \in S : Outstanding("dereg", s)}
                         ELSE crossed
<1> DEFINE f == CHOOSE g \in Free : TRUE
<1>1. f \in Socket /\ socks[f].kind = "closed"
  BY DEF Send, Free
<1>2. /\ socks' = [socks EXCEPT ![f] = [kind |-> kind, left |-> S, tries |-> 0]]
      /\ net' = net \cup Copies(f, kind, S)
      /\ acks' = acks
      /\ crossed' = IF kind = "reg"
                    THEN (crossed \ S) \cup {s \in S : Outstanding("dereg", s)}
                    ELSE crossed
  BY DEF Send
<1> HIDE DEF f
<1> QED
  BY <1>1, <1>2

\* What a message that is sent does to the wire.
LEMMA SendWire ==
  ASSUME TypeOK, WireOpen, NEW kind \in {"reg", "dereg"}, NEW S \in SUBSET Services,
         Send(kind, S) \/ UNCHANGED wire
  PROVE  /\ socks' \in [Socket -> [kind : {"closed", "reg", "dereg"}, left : SUBSET Services,
                                   tries : 0 .. MaxTries - 1]]
         /\ net' \subseteq Message
         /\ acks' = acks
         /\ crossed' \subseteq Services
         /\ WireOpen'
<1>1. CASE S = {} \/ UNCHANGED wire
  BY <1>1 DEF Send, wire, TypeOK, WireOpen
<1>2. CASE S # {} /\ Send(kind, S)
  <2>1. PICK i \in Socket :
        /\ socks[i].kind = "closed"
        /\ socks' = [socks EXCEPT ![i] = [kind |-> kind, left |-> S, tries |-> 0]]
        /\ net' = net \cup Copies(i, kind, S)
        /\ acks' = acks
        /\ crossed' = IF kind = "reg"
                      THEN (crossed \ S) \cup {s \in S : Outstanding("dereg", s)}
                      ELSE crossed
    BY <1>2, SendSocket
  <2>3. 0 \in 0 .. MaxTries - 1
    BY CountAssumption
  <2>4. [kind |-> kind, left |-> S, tries |-> 0] \in
           [kind : {"closed", "reg", "dereg"}, left : SUBSET Services, tries : 0 .. MaxTries - 1]
    BY <2>3
  <2>5. socks' \in [Socket -> [kind : {"closed", "reg", "dereg"}, left : SUBSET Services,
                               tries : 0 .. MaxTries - 1]]
    BY <2>1, <2>4 DEF TypeOK
  <2>6. Copies(i, kind, S) \subseteq Message
    BY <2>1 DEF Copies, Message
  <2>7. net' \subseteq Message
    BY <2>1, <2>6 DEF TypeOK
  <2>8. crossed' \subseteq Services
    BY <2>1 DEF TypeOK
  <2>9. socks'[i].kind # "closed" /\ \A j \in Socket : j # i => socks'[j] = socks[j]
    BY <2>1 DEF TypeOK
  <2>10. \A m \in Copies(i, kind, S) : m.sock = i
    BY DEF Copies
  <2>11. \A m \in net \cup acks : m.sock # 0 => m.sock \in Socket /\ m.sock # i
    BY <2>1 DEF TypeOK, Message, WireOpen
  <2>12. WireOpen'
    BY <2>1, <2>9, <2>10, <2>11 DEF WireOpen
  <2> QED
    BY <2>1, <2>5, <2>7, <2>8, <2>12
<1> QED
  BY <1>1, <1>2

\* It disturbs nothing that a socket carries.
LEMMA SendKeeps ==
  ASSUME TypeOK, NEW kind \in {"reg", "dereg"}, NEW S \in SUBSET Services,
         Send(kind, S) \/ UNCHANGED wire,
         NEW s \in Services, NEW j \in Socket, Good(j, s)
  PROVE  Good(j, s)'
<1>1. CASE S = {} \/ UNCHANGED wire
  BY <1>1 DEF Send, wire, Good
<1>2. CASE S # {} /\ Send(kind, S)
  <2>1. PICK i \in Socket :
          /\ socks[i].kind = "closed"
          /\ socks' = [socks EXCEPT ![i] = [kind |-> kind, left |-> S, tries |-> 0]]
          /\ acks' = acks
    BY <1>2, SendSocket
  <2>2. j # i
    BY <2>1 DEF Good
  <2>3. socks'[j] = socks[j]
    BY <2>1, <2>2 DEF TypeOK
  <2> QED
    BY <2>1, <2>3 DEF Good
<1> QED
  BY <1>1, <1>2

\* A registration that is sent is carried.
LEMMA SendCarries ==
  ASSUME TypeOK, WireOpen, NEW S \in SUBSET Services, Send("reg", S), NEW s \in S
  PROVE  \E j \in Socket : Good(j, s)'
<1>1. PICK i \in Socket :
        /\ socks[i].kind = "closed"
        /\ socks' = [socks EXCEPT ![i] = [kind |-> "reg", left |-> S, tries |-> 0]]
        /\ acks' = acks
  BY SendSocket
<1>2. socks'[i] = [kind |-> "reg", left |-> S, tries |-> 0]
  BY <1>1 DEF TypeOK
<1>3. \A m \in acks : m.sock # i
  BY <1>1 DEF WireOpen
<1>4. Good(i, s)'
  BY <1>1, <1>2, <1>3 DEF Good
<1> QED
  BY <1>4

\* Sending puts no other deregistrations under way.
LEMMA SendDereg ==
  ASSUME TypeOK, NEW kind \in {"reg", "dereg"}, NEW S \in SUBSET Services,
         Send(kind, S) \/ UNCHANGED wire,
         NEW s \in Services, Outstanding("dereg", s)'
  PROVE  Outstanding("dereg", s) \/ (kind = "dereg" /\ s \in S)
<1>1. CASE S = {} \/ UNCHANGED wire
  BY <1>1 DEF Send, wire, Outstanding
<1>2. CASE S # {} /\ Send(kind, S)
  <2>1. PICK i \in Socket :
          /\ socks' = [socks EXCEPT ![i] = [kind |-> kind, left |-> S, tries |-> 0]]
          /\ net' = net \cup Copies(i, kind, S)
    BY <1>2, SendSocket
  <2>2. socks'[i] = [kind |-> kind, left |-> S, tries |-> 0]
    BY <2>1 DEF TypeOK
  <2>3. \A j \in Socket : j # i => socks'[j] = socks[j]
    BY <2>1 DEF TypeOK
  <2>4. \A m \in Copies(i, kind, S) : m.kind = kind /\ m.srv \in S
    BY DEF Copies
  <2> QED
    BY <2>1, <2>2, <2>3, <2>4 DEF Outstanding
<1> QED
  BY <1>1, <1>2

\* What has crossed: after a registration what it says; else nothing changes.
LEMMA RegCrossed ==
  ASSUME NEW S \in SUBSET Services, Send("reg", S), NEW s \in Services \ crossed'
  PROVE  IF s \in S THEN ~Outstanding("dereg", s) ELSE s \notin crossed
<1>1. CASE S = {}
  BY <1>1 DEF Send, wire
<1>2. CASE S # {}
  <2>1. crossed' = (crossed \ S) \cup {t \in S : Outstanding("dereg", t)}
    BY <1>2, SendSocket
  <2> QED
    BY <2>1
<1> QED
  BY <1>1, <1>2

LEMMA DeregCrossed ==
  ASSUME NEW S \in SUBSET Services, Send("dereg", S) \/ UNCHANGED wire
  PROVE  crossed' = crossed
<1>1. CASE S = {} \/ UNCHANGED wire
  BY <1>1 DEF Send, wire
<1>2. CASE S # {} /\ Send("dereg", S)
  BY <1>2, SendSocket
<1> QED
  BY <1>1, <1>2

-----------------------------------------------------------------------------
(* Closing sockets                                                         *)

LEMMA CloseWire ==
  ASSUME TypeOK, WireOpen, NEW I \in SUBSET Socket, Close(I)
  PROVE  /\ socks' \in [Socket -> [kind : {"closed", "reg", "dereg"}, left : SUBSET Services,
                                   tries : 0 .. MaxTries - 1]]
         /\ acks' \subseteq Message
         /\ Orphans(I) \subseteq Message
         /\ \A m \in Orphans(I) : m.sock # 0 => socks'[m.sock].kind # "closed"
         /\ \A m \in acks' : m.sock # 0 /\ socks'[m.sock].kind # "closed"
<1>1. Closed \in [kind : {"closed", "reg", "dereg"}, left : SUBSET Services,
                  tries : 0 .. MaxTries - 1]
  BY CountAssumption DEF Closed
<1>2. /\ socks' = [i \in Socket |-> IF i \in I THEN Closed ELSE socks[i]]
      /\ acks' = {m \in acks : m.sock \notin I}
  BY DEF Close
<1>3. socks' \in [Socket -> [kind : {"closed", "reg", "dereg"}, left : SUBSET Services,
                             tries : 0 .. MaxTries - 1]]
  BY <1>1, <1>2 DEF TypeOK
<1>4. acks' \subseteq Message
  BY <1>2 DEF TypeOK
<1>5. \A i \in Socket : i \notin I => socks'[i] = socks[i]
  BY <1>2
<1>6. \A m \in acks' : m.sock # 0 /\ socks'[m.sock].kind # "closed"
  BY <1>2, <1>4, <1>5 DEF WireOpen, Message
<1>7. ASSUME NEW n \in Orphans(I)
      PROVE  n \in Message /\ (n.sock # 0 => socks'[n.sock].kind # "closed")
  <2>1. PICK m \in net : n = IF m.sock \in I THEN [m EXCEPT !.sock = 0] ELSE m
    BY <1>7 DEF Orphans
  <2>2. m \in Message
    BY DEF TypeOK
  <2>3. CASE m.sock \in I
    <3>1. n = [m EXCEPT !.sock = 0]
      BY <2>1, <2>3
    <3>2. n \in Message /\ n.sock = 0
      BY <2>2, <3>1 DEF Message
    <3> QED
      BY <3>2
  <2>4. CASE m.sock \notin I
    <3>1. n = m
      BY <2>1, <2>4
    <3>2. n.sock # 0 => n.sock \in Socket
      BY <2>2, <3>1 DEF Message
    <3> QED
      BY <1>5, <2>2, <2>4, <3>1, <3>2 DEF WireOpen
  <2> QED
    BY <2>3, <2>4
<1> QED
  BY <1>3, <1>4, <1>6, <1>7

\* Closing loses no deregistration's trace and makes none.
LEMMA OrphansDereg ==
  ASSUME TypeOK, NEW I \in SUBSET Socket, NEW n \in Orphans(I)
  PROVE  \E m \in net : n.kind = m.kind /\ n.srv = m.srv
<1>1. PICK m \in net : n = IF m.sock \in I THEN [m EXCEPT !.sock = 0] ELSE m
  BY DEF Orphans
<1>2. m \in Message
  BY DEF TypeOK
<1>3. n.kind = m.kind /\ n.srv = m.srv
  BY <1>1, <1>2 DEF Message
<1> QED
  BY <1>3
-----------------------------------------------------------------------------
(* Types and the wire                                                      *)

LEMMA TypeStep ==
  ASSUME TypeOK, WireOpen, [Next]_vars
  PROVE  TypeOK' /\ WireOpen'
<1> USE CountAssumption, ServiceAssumption
<1>0. Operation => ops' \in 0 .. MaxOps
  BY DEF Operation, TypeOK
<1>1. ASSUME NEW s \in Services, ClientReg(s) PROVE TypeOK' /\ WireOpen'
  <2>1. Send("reg", {s}) \/ UNCHANGED wire
    BY <1>1 DEF ClientReg, ToDA
  <2>2. {s} \in SUBSET Services
    OBVIOUS
  <2>3. local' \subseteq Services
    BY <1>1 DEF ClientReg, TypeOK
  <2> QED
    BY <1>0, <1>1, <2>1, <2>2, <2>3, SendWire DEF ClientReg, TypeOK, agent
<1>2. ASSUME NEW s \in Services, Leave(s) PROVE TypeOK' /\ WireOpen'
  <2>1. Send("dereg", {s}) \/ UNCHANGED wire
    BY <1>2 DEF Leave, ToDA
  <2>2. {s} \in SUBSET Services
    OBVIOUS
  <2> QED
    BY <1>0, <1>2, <2>1, <2>2, SendWire DEF Leave, TypeOK, agent
<1>3. ASSUME NEW s \in Services, Lapse(s) PROVE TypeOK' /\ WireOpen'
  BY <1>0, <1>3 DEF Lapse, TypeOK, WireOpen, agent, wire
<1>4. ASSUME NEW s \in Services, DaExpire(s) PROVE TypeOK' /\ WireOpen'
  BY <1>4 DEF DaExpire, TypeOK, WireOpen, client, wire
<1>5. ASSUME NEW i \in Socket, Retry(i) PROVE TypeOK' /\ WireOpen'
  <2>1. CASE socks[i].left = {} \/ socks[i].tries + 1 = MaxTries
    <3>1. Close({i}) /\ net' = Orphans({i}) /\ known' \in {known, 0}
      BY <1>5, <2>1 DEF Retry
    <3>2. {i} \in SUBSET Socket
      OBVIOUS
    <3>3. /\ socks' \in [Socket -> [kind : {"closed", "reg", "dereg"}, left : SUBSET Services,
                                     tries : 0 .. MaxTries - 1]]
          /\ acks' \subseteq Message
          /\ net' \subseteq Message
          /\ WireOpen'
      BY <3>1, <3>2, CloseWire DEF WireOpen
    <3>4. known' \in 0 .. MaxBoots
      BY <3>1 DEF TypeOK
    <3> QED
      BY <1>5, <3>3, <3>4 DEF Retry, TypeOK, agent
  <2>2. CASE ~(socks[i].left = {} \/ socks[i].tries + 1 = MaxTries)
    <3>1. /\ socks' = [socks EXCEPT ![i].tries = @ + 1]
          /\ net' = net \cup Copies(i, socks[i].kind, socks[i].left)
          /\ known' = known /\ acks' = acks
          /\ socks[i].kind # "closed"
      BY <1>5, <2>2 DEF Retry
    <3>2. socks[i] \in [kind : {"closed", "reg", "dereg"}, left : SUBSET Services,
                        tries : 0 .. MaxTries - 1]
      BY DEF TypeOK
    <3>3. socks[i].tries + 1 \in 0 .. MaxTries - 1
      BY <2>2, <3>2
    <3>4. socks' \in [Socket -> [kind : {"closed", "reg", "dereg"}, left : SUBSET Services,
                                 tries : 0 .. MaxTries - 1]]
      BY <3>1, <3>2, <3>3 DEF TypeOK
    <3>5. Copies(i, socks[i].kind, socks[i].left) \subseteq Message
      BY <3>1, <3>2 DEF Copies, Message
    <3>6. \A j \in Socket : socks'[j].kind = socks[j].kind
      BY <3>1, <3>2 DEF TypeOK
    <3>7. \A m \in Copies(i, socks[i].kind, socks[i].left) : m.sock = i
      BY DEF Copies
    <3>8. \A m \in net \cup acks : m.sock # 0 => m.sock \in Socket
      BY DEF TypeOK, Message
    <3>9. WireOpen'
      BY <3>1, <3>6, <3>7, <3>8 DEF WireOpen
    <3> QED
      BY <1>5, <3>1, <3>4, <3>5, <3>9 DEF Retry, TypeOK, agent
  <2> QED
    BY <2>1, <2>2
<1>6. ASSUME NEW m \in acks, RecvAck(m) PROVE TypeOK' /\ WireOpen'
  <2>1. m.sock \in Socket
    BY DEF TypeOK, WireOpen, Message
  <2>2. /\ acks' = acks \ {m} /\ net' = net
        /\ socks' = [socks EXCEPT ![m.sock].left = {s \in @ : Xid[s] # Xid[m.srv]}]
    BY <1>6 DEF RecvAck
  <2>3. socks[m.sock] \in [kind : {"closed", "reg", "dereg"}, left : SUBSET Services,
                           tries : 0 .. MaxTries - 1]
    BY <2>1 DEF TypeOK
  <2>4. {s \in socks[m.sock].left : Xid[s] # Xid[m.srv]} \in SUBSET Services
    BY <2>3
  <2>5. socks' \in [Socket -> [kind : {"closed", "reg", "dereg"}, left : SUBSET Services,
                               tries : 0 .. MaxTries - 1]]
    BY <2>1, <2>2, <2>3, <2>4 DEF TypeOK
  <2>6. \A j \in Socket : socks'[j].kind = socks[j].kind
    BY <2>1, <2>2, <2>3 DEF TypeOK
  <2>7. \A n \in net \cup acks : n.sock # 0 => n.sock \in Socket
    BY DEF TypeOK, Message
  <2>8. WireOpen'
    BY <2>2, <2>6, <2>7 DEF WireOpen
  <2> QED
    BY <1>6, <2>2, <2>5, <2>8 DEF RecvAck, TypeOK, client, agent
<1>7. ASSUME NEW b \in 0 .. MaxBoots, RecvAdvert(b) PROVE TypeOK' /\ WireOpen'
  <2>1. Send("reg", local) \/ UNCHANGED wire
    BY <1>7 DEF RecvAdvert
  <2>2. local \in SUBSET Services
    BY DEF TypeOK
  <2>3. adverts' \subseteq adverts /\ stale' \in {stale, MaxStale} /\ known' = b
    BY <1>7 DEF RecvAdvert
  <2>4. adverts' \subseteq 0 .. MaxBoots /\ stale' \in 0 .. MaxStale /\ known' \in 0 .. MaxBoots
    BY <2>3 DEF TypeOK
  <2> QED
    BY <1>7, <2>1, <2>2, <2>4, SendWire DEF RecvAdvert, TypeOK
<1>8. ASSUME Refresh PROVE TypeOK' /\ WireOpen'
  <2>1. local \cap Immortal \in SUBSET Services
    BY DEF TypeOK
  <2> QED
    BY <1>0, <1>8, <2>1, SendWire DEF Refresh, TypeOK, client, agent
<1>9. ASSUME StaleTick PROVE TypeOK' /\ WireOpen'
  <2>1. known' \in 0 .. MaxBoots /\ stale' \in 0 .. MaxStale
    BY <1>9 DEF StaleTick, TypeOK
  <2> QED
    BY <1>9, <2>1 DEF StaleTick, TypeOK, WireOpen, wire, agent
<1>10. ASSUME Sighup PROVE TypeOK' /\ WireOpen'
  <2>1. Send("dereg", local) \/ UNCHANGED wire
    BY <1>10 DEF Sighup, ToDA
  <2>2. local \in SUBSET Services /\ local' \in SUBSET Services /\ known' \in 0 .. MaxBoots
    BY <1>10 DEF Sighup, TypeOK
  <2> QED
    BY <1>0, <1>10, <2>1, <2>2, SendWire DEF Sighup, TypeOK, agent
<1>11. ASSUME Gone, net' \in SUBSET (Orphans(Socket) \cup Copies(0, "dereg", local)),
              ops' \in 0 .. MaxOps
       PROVE  TypeOK' /\ WireOpen'
  <2>1. Close(Socket) /\ Socket \in SUBSET Socket
    BY <1>11 DEF Gone
  <2>2. /\ socks' \in [Socket -> [kind : {"closed", "reg", "dereg"}, left : SUBSET Services,
                                  tries : 0 .. MaxTries - 1]]
        /\ acks' \subseteq Message
        /\ \A n \in Orphans(Socket) :
             n \in Message /\ (n.sock # 0 => socks'[n.sock].kind # "closed")
        /\ \A n \in acks' : n.sock # 0 /\ socks'[n.sock].kind # "closed"
    BY <2>1, CloseWire
  <2>3. \A n \in Copies(0, "dereg", local) : n \in Message /\ n.sock = 0
    BY DEF Copies, Message, TypeOK
  <2>4. net' \subseteq Message /\ WireOpen'
    BY <1>11, <2>2, <2>3 DEF WireOpen
  <2>5. sa' \in BOOLEAN /\ local' \subseteq Services /\ known' \in 0 .. MaxBoots
    <3>1. sa' = FALSE /\ local' = {} /\ known' = 0
      BY <1>11 DEF Gone
    <3>2. 0 \in 0 .. MaxBoots
      OBVIOUS
    <3>3. sa' \in BOOLEAN
      BY <3>1
    <3> QED
      BY <3>1, <3>2, <3>3
  <2>6. /\ up' \in BOOLEAN /\ boot' \in 1 .. MaxBoots /\ stale' \in 0 .. MaxStale
        /\ db' \subseteq Services /\ crossed' \subseteq Services /\ adverts' \subseteq 0 .. MaxBoots
    BY <1>11 DEF Gone, TypeOK, agent
  <2> QED
    BY <1>11, <2>2, <2>4, <2>5, <2>6 DEF TypeOK
<1>12. ASSUME Sigterm PROVE TypeOK' /\ WireOpen'
  <2>1. net' \in SUBSET (Orphans(Socket) \cup Copies(0, "dereg", local))
    BY <1>12 DEF Sigterm
  <2> QED
    BY <1>0, <1>11, <1>12, <2>1 DEF Sigterm
<1>13. ASSUME SaCrash PROVE TypeOK' /\ WireOpen'
  <2>1. net' \in SUBSET (Orphans(Socket) \cup Copies(0, "dereg", local))
    BY <1>13 DEF SaCrash
  <2> QED
    BY <1>0, <1>11, <1>13, <2>1 DEF SaCrash
<1>14. ASSUME SaStart PROVE TypeOK' /\ WireOpen'
  BY <1>14 DEF SaStart, TypeOK, WireOpen, wire, agent
<1>15. ASSUME NEW m \in net, DaRecv(m) PROVE TypeOK' /\ WireOpen'
  <2>1. m \in Message
    BY DEF TypeOK
  <2>2. db' \subseteq Services /\ net' \subseteq Message /\ acks' \subseteq Message
    BY <1>15, <2>1 DEF DaRecv, TypeOK, Message
  <2>3. WireOpen'
    BY <1>15 DEF DaRecv, WireOpen
  <2> QED
    BY <1>15, <2>2, <2>3 DEF DaRecv, TypeOK, client
<1>16. ASSUME DaStop PROVE TypeOK' /\ WireOpen'
  <2>1. adverts' \subseteq adverts \cup {boot, 0}
    BY <1>16 DEF DaStop
  <2>2. adverts' \subseteq 0 .. MaxBoots
    BY <2>1 DEF TypeOK
  <2> QED
    BY <1>0, <1>16, <2>2 DEF DaStop, TypeOK, WireOpen, client, wire
<1>17. ASSUME DaStart PROVE TypeOK' /\ WireOpen'
  BY <1>17 DEF DaStart, TypeOK, WireOpen, client, wire
<1>18. ASSUME Lose PROVE TypeOK' /\ WireOpen'
  BY <1>18 DEF Lose, TypeOK, WireOpen, client, agent
<1>19. CASE UNCHANGED vars
  BY <1>19 DEF vars, TypeOK, WireOpen, client, wire, agent
<1> QED
  BY <1>1, <1>2, <1>3, <1>4, <1>5, <1>6, <1>7, <1>8, <1>9, <1>10, <1>12, <1>13, <1>14,
     <1>15, <1>16, <1>17, <1>18, <1>19 DEF Next

-----------------------------------------------------------------------------
(* The DA the SA counts on                                                 *)

LEMMA BootsStep ==
  ASSUME TypeOK, BootsPast, Forgotten, [Next]_vars
  PROVE  BootsPast' /\ Forgotten'
<1>0. boot \in Nat /\ 0 <= boot
  BY CountAssumption DEF TypeOK
<1>1. CASE UNCHANGED <<sa, known, boot, adverts>>
  BY <1>1 DEF BootsPast, Forgotten
<1>2. CASE sa' = sa /\ known' \in {known, 0} /\ boot' = boot /\ adverts' = adverts
  BY <1>0, <1>2 DEF BootsPast, Forgotten
<1>3. ASSUME NEW s \in Services, ClientReg(s) \/ Leave(s) \/ Lapse(s) \/ DaExpire(s)
      PROVE  UNCHANGED <<sa, known, boot, adverts>>
  BY <1>3 DEF ClientReg, Leave, Lapse, DaExpire, client, agent
<1>4. ASSUME NEW i \in Socket, Retry(i)
      PROVE  sa' = sa /\ known' \in {known, 0} /\ boot' = boot /\ adverts' = adverts
  BY <1>4 DEF Retry, agent
<1>5. ASSUME NEW m, RecvAck(m) \/ DaRecv(m)
      PROVE  UNCHANGED <<sa, known, boot, adverts>>
  BY <1>5 DEF RecvAck, DaRecv, client, agent
<1>6. ASSUME NEW b \in 0 .. MaxBoots, RecvAdvert(b) PROVE BootsPast' /\ Forgotten'
  <2>1. /\ sa /\ sa' = sa /\ known' = b /\ boot' = boot
        /\ adverts' \subseteq adverts /\ (b = boot \/ b \in adverts)
    BY <1>6 DEF RecvAdvert
  <2> QED
    BY <1>0, <2>1 DEF BootsPast, Forgotten
<1>7. CASE Refresh \/ Lose
  BY <1>1, <1>7 DEF Refresh, Lose, client, agent
<1>8. CASE StaleTick \/ Sighup
  BY <1>2, <1>8 DEF StaleTick, Sighup, agent
<1>9. ASSUME Sigterm \/ SaCrash PROVE BootsPast' /\ Forgotten'
  <2>1. known' = 0 /\ boot' = boot /\ adverts' = adverts
    BY <1>9 DEF Sigterm, SaCrash, Gone, agent
  <2> QED
    BY <1>0, <2>1 DEF BootsPast, Forgotten
<1>10. ASSUME SaStart PROVE BootsPast' /\ Forgotten'
  <2>1. sa' /\ known' = known /\ boot' = boot /\ adverts' = adverts
    BY <1>10 DEF SaStart, agent
  <2> QED
    BY <2>1 DEF BootsPast, Forgotten
<1>11. ASSUME DaStop PROVE BootsPast' /\ Forgotten'
  <2>1. sa' = sa /\ known' = known /\ boot' = boot /\ adverts' \subseteq adverts \cup {boot, 0}
    BY <1>11 DEF DaStop, client
  <2> QED
    BY <1>0, <2>1 DEF BootsPast, Forgotten
<1>12. ASSUME DaStart PROVE BootsPast' /\ Forgotten'
  <2>1. sa' = sa /\ known' = known /\ boot' = boot + 1 /\ adverts' = adverts
    BY <1>12 DEF DaStart, client
  <2>2. known \in Int /\ \A b \in adverts : b \in Int
    BY DEF TypeOK
  <2> QED
    BY <1>0, <2>1, <2>2 DEF BootsPast, Forgotten
<1>13. CASE UNCHANGED vars
  BY <1>1, <1>13 DEF vars, client, agent
<1> QED
  BY <1>1, <1>2, <1>3, <1>4, <1>5, <1>6, <1>7, <1>8, <1>9, <1>10, <1>11, <1>12, <1>13 DEF Next

-----------------------------------------------------------------------------
(* No deregistration of what is registered is under way                    *)

LEMMA DeregStep ==
  ASSUME IInv, [Next]_vars
  PROVE  NoDereg'
<1> USE DEF IInv
<1>0. local \in SUBSET Services
  BY DEF TypeOK
<1>1. CASE ~sa' \/ known' = 0
  BY <1>1 DEF NoDereg
<1>2. ASSUME sa' = sa, known' = known, local' \subseteq local, crossed' = crossed,
             \A s \in local : Outstanding("dereg", s)' => Outstanding("dereg", s)
      PROVE  NoDereg'
  BY <1>2 DEF NoDereg
<1>3. ASSUME NEW s \in Services, ClientReg(s), known' # 0 PROVE NoDereg'
  <2>1. sa /\ known # 0 /\ Send("reg", {s}) /\ local' = local \cup {s}
    BY <1>3 DEF ClientReg, ToDA
  <2>2. {s} \in SUBSET Services
    OBVIOUS
  <2>3. ASSUME NEW t \in local' \ crossed', Outstanding("dereg", t)' PROVE FALSE
    <3>1. t \in Services
      BY <1>0, <2>1
    <3>2. Outstanding("dereg", t)
      BY <2>1, <2>2, <2>3, <3>1, SendDereg
    <3>3. t # s /\ t \notin crossed
      BY <2>1, <2>2, <3>1, <3>2, RegCrossed
    <3> QED
      BY <2>1, <3>2, <3>3 DEF NoDereg
  <2> QED
    BY <2>3 DEF NoDereg
<1>4. ASSUME NEW s \in Services, Leave(s), known' # 0 PROVE NoDereg'
  <2>1. sa /\ known # 0 /\ Send("dereg", {s}) /\ local' = local \ {s}
    BY <1>4 DEF Leave, ToDA
  <2>2. {s} \in SUBSET Services
    OBVIOUS
  <2>3. crossed' = crossed
    BY <2>1, <2>2, DeregCrossed
  <2>4. ASSUME NEW t \in local' \ crossed', Outstanding("dereg", t)' PROVE FALSE
    <3>1. t \in Services /\ t # s /\ t \in local \ crossed
      BY <1>0, <2>1, <2>3
    <3>2. Outstanding("dereg", t)
      BY <2>1, <2>2, <2>4, <3>1, SendDereg
    <3> QED
      BY <2>1, <3>1, <3>2 DEF NoDereg
  <2> QED
    BY <2>4 DEF NoDereg
<1>5. ASSUME NEW s \in Services, Lapse(s) \/ DaExpire(s) PROVE NoDereg'
  <2>1. sa' = sa /\ known' = known /\ local' \subseteq local /\ UNCHANGED wire
    BY <1>5 DEF Lapse, DaExpire, client
  <2> QED
    BY <1>2, <2>1 DEF wire, Outstanding
<1>6. ASSUME NEW i \in Socket, Retry(i), known' # 0 PROVE NoDereg'
  <2>1. sa' = sa /\ known' = known /\ local' = local /\ crossed' = crossed
    BY <1>6 DEF Retry
  <2>2. CASE socks[i].left = {} \/ socks[i].tries + 1 = MaxTries
    <3>1. Close({i}) /\ net' = Orphans({i}) /\ {i} \in SUBSET Socket
      BY <1>6, <2>2 DEF Retry
    <3>2. \A n \in net' : \E m \in net : n.kind = m.kind /\ n.srv = m.srv
      BY <3>1, OrphansDereg
    <3>3. \A j \in Socket : socks'[j] \in {Closed, socks[j]}
      BY <3>1 DEF Close
    <3>4. Closed.kind # "dereg"
      BY DEF Closed
    <3>5. \A s \in local : Outstanding("dereg", s)' => Outstanding("dereg", s)
      BY <3>2, <3>3, <3>4 DEF Outstanding
    <3> QED
      BY <1>2, <2>1, <3>5
  <2>3. CASE ~(socks[i].left = {} \/ socks[i].tries + 1 = MaxTries)
    <3>1. /\ socks' = [socks EXCEPT ![i].tries = @ + 1]
          /\ net' = net \cup Copies(i, socks[i].kind, socks[i].left)
      BY <1>6, <2>3 DEF Retry
    <3>2. \A j \in Socket : socks'[j].kind = socks[j].kind /\ socks'[j].left = socks[j].left
      BY <3>1 DEF TypeOK
    <3>3. \A n \in Copies(i, socks[i].kind, socks[i].left) :
             n.kind = socks[i].kind /\ n.srv \in socks[i].left
      BY DEF Copies
    <3>4. \A s \in local : Outstanding("dereg", s)' => Outstanding("dereg", s)
      BY <3>1, <3>2, <3>3 DEF Outstanding
    <3> QED
      BY <1>2, <2>1, <3>4
  <2> QED
    BY <2>2, <2>3
<1>7. ASSUME NEW m \in acks, RecvAck(m) PROVE NoDereg'
  <2>1. /\ sa' = sa /\ known' = known /\ local' = local /\ crossed' = crossed /\ net' = net
        /\ socks' = [socks EXCEPT ![m.sock].left = {s \in @ : Xid[s] # Xid[m.srv]}]
    BY <1>7 DEF RecvAck, client
  <2>2. m.sock \in Socket
    BY DEF TypeOK, WireOpen, Message
  <2>3. \A j \in Socket : socks'[j].kind = socks[j].kind /\ socks'[j].left \subseteq socks[j].left
    BY <2>1, <2>2 DEF TypeOK
  <2>4. \A s \in local : Outstanding("dereg", s)' => Outstanding("dereg", s)
    BY <2>1, <2>3 DEF Outstanding
  <2> QED
    BY <1>2, <2>1, <2>4
<1>8. ASSUME NEW b \in 0 .. MaxBoots, RecvAdvert(b), known' # 0 PROVE NoDereg'
  <2>1. sa /\ sa' = sa /\ local' = local /\ known' = b /\ b # 0
    BY <1>8 DEF RecvAdvert
  <2>2. CASE b = known
    <3>1. UNCHANGED wire
      BY <1>8, <2>1, <2>2 DEF RecvAdvert
    <3> QED
      BY <1>2, <2>1, <2>2, <3>1 DEF wire, Outstanding
  <2>3. CASE b # known
    <3>1. Send("reg", local)
      BY <1>8, <2>1, <2>3 DEF RecvAdvert
    <3>2. ASSUME NEW t \in local' \ crossed', Outstanding("dereg", t)' PROVE FALSE
      <4>1. t \in local /\ t \in Services
        BY <1>0, <2>1
      <4>2. Outstanding("dereg", t)
        BY <1>0, <3>1, <3>2, <4>1, SendDereg
      <4> QED
        BY <1>0, <3>1, <4>1, <4>2, RegCrossed
    <3> QED
      BY <3>2 DEF NoDereg
  <2> QED
    BY <2>2, <2>3
<1>9. ASSUME Refresh PROVE NoDereg'
  <2> DEFINE S == local \cap Immortal
  <2>1. sa /\ known # 0 /\ Send("reg", S) /\ UNCHANGED client /\ S \in SUBSET Services
    BY <1>0, <1>9 DEF Refresh
  <2> HIDE DEF S
  <2>2. ASSUME NEW t \in local' \ crossed', Outstanding("dereg", t)' PROVE FALSE
    <3>1. t \in local /\ t \in Services
      BY <1>0, <2>1 DEF client
    <3>2. Outstanding("dereg", t)
      BY <2>1, <2>2, <3>1, SendDereg
    <3>3. t \notin crossed
      BY <2>1, <3>1, <3>2, RegCrossed
    <3> QED
      BY <2>1, <3>1, <3>2, <3>3 DEF NoDereg
  <2> QED
    BY <2>2 DEF NoDereg
<1>10. ASSUME StaleTick, known' # 0 PROVE NoDereg'
  BY <1>2, <1>10 DEF StaleTick, wire, Outstanding
<1>11. Sighup \/ Sigterm \/ SaCrash => known' = 0
  BY DEF Sighup, Sigterm, SaCrash, Gone
<1>12. SaStart => known' = 0
  BY DEF SaStart, Forgotten
<1>13. ASSUME NEW m \in net, DaRecv(m) PROVE NoDereg'
  BY <1>2, <1>13 DEF DaRecv, client, Outstanding
<1>14. ASSUME DaStop \/ DaStart PROVE NoDereg'
  BY <1>2, <1>14 DEF DaStop, DaStart, client, wire, Outstanding
<1>15. ASSUME Lose PROVE NoDereg'
  BY <1>2, <1>15 DEF Lose, client, Outstanding
<1>16. CASE UNCHANGED vars
  BY <1>2, <1>16 DEF vars, client, wire, Outstanding
<1> QED
  BY <1>1, <1>3, <1>4, <1>5, <1>6, <1>7, <1>8, <1>9, <1>10, <1>11, <1>12, <1>13, <1>14, <1>15,
     <1>16 DEF Next

-----------------------------------------------------------------------------
(* What is registered is at the DA, or carried there                       *)

LEMMA SendSafe ==
  ASSUME TypeOK, NEW kind \in {"reg", "dereg"}, NEW S \in SUBSET Services,
         Send(kind, S) \/ UNCHANGED wire, db' = db, NEW s \in Services, Safe(s)
  PROVE  Safe(s)'
<1>1. CASE s \in db
  BY <1>1 DEF Safe
<1>2. CASE s \notin db
  <2>1. PICK j \in Socket : Good(j, s)
    BY <1>2 DEF Safe
  <2>2. Good(j, s)'
    BY <2>1, SendKeeps
  <2> QED
    BY <2>2 DEF Safe
<1> QED
  BY <1>1, <1>2

LEMMA SafeStep ==
  ASSUME DistinctXids, IInv, [Next]_vars
  PROVE  AllSafe'
<1> USE DEF IInv
<1>0. local \in SUBSET Services /\ boot # 0
  BY DEF TypeOK
<1>1. CASE ~sa' \/ ~up' \/ known' # boot'
  BY <1>1 DEF AllSafe
<1>2. ASSUME sa' = sa, up' = up, known' = known, boot' = boot,
             local' \subseteq local, crossed' = crossed,
             sa /\ up /\ known = boot => \A s \in local \ crossed : Safe(s) => Safe(s)'
      PROVE  AllSafe'
  BY <1>2 DEF AllSafe
<1>3. ASSUME NEW s \in Services, ClientReg(s), sa', up', known' = boot' PROVE AllSafe'
  <2>1. /\ sa /\ up /\ known = boot /\ db' = db /\ local' = local \cup {s}
        /\ Send("reg", {s})
    BY <1>0, <1>3 DEF ClientReg, ToDA, agent
  <2>2. {s} \in SUBSET Services
    OBVIOUS
  <2>3. ASSUME NEW t \in local' \ crossed' PROVE Safe(t)'
    <3>1. CASE t = s
      <4>1. \E j \in Socket : Good(j, s)'
        BY <2>1, <2>2, SendCarries
      <4> QED
        BY <3>1, <4>1 DEF Safe
    <3>2. CASE t # s
      <4>1. t \in Services /\ t \in local
        BY <1>0, <2>1, <3>2
      <4>2. t \notin crossed
        BY <2>1, <2>2, <3>2, <4>1, RegCrossed
      <4>3. Safe(t)
        BY <2>1, <4>1, <4>2 DEF AllSafe
      <4> QED
        BY <2>1, <2>2, <4>1, <4>3, SendSafe
    <3> QED
      BY <3>1, <3>2
  <2> QED
    BY <2>3 DEF AllSafe
<1>4. ASSUME NEW s \in Services, Leave(s) PROVE AllSafe'
  <2>1. /\ Send("dereg", {s}) \/ UNCHANGED wire
        /\ sa' = sa /\ up' = up /\ known' = known /\ boot' = boot /\ db' = db
        /\ local' \subseteq local
    BY <1>4 DEF Leave, ToDA, agent
  <2>2. {s} \in SUBSET Services
    OBVIOUS
  <2>3. crossed' = crossed
    BY <2>1, <2>2, DeregCrossed
  <2>4. \A t \in local \ crossed : Safe(t) => Safe(t)'
    BY <1>0, <2>1, <2>2, SendSafe
  <2> QED
    BY <1>2, <2>1, <2>3, <2>4
<1>5. ASSUME NEW s \in Services, Lapse(s) PROVE AllSafe'
  BY <1>2, <1>5 DEF Lapse, wire, agent, Safe, Good
<1>6. ASSUME NEW s \in Services, DaExpire(s) PROVE AllSafe'
  BY <1>2, <1>6 DEF DaExpire, client, wire, Safe, Good
<1>7. ASSUME NEW i \in Socket, Retry(i), sa', up', known' = boot' PROVE AllSafe'
  <2>1. /\ sa' = sa /\ up' = up /\ boot' = boot /\ local' = local /\ crossed' = crossed /\ db' = db
    BY <1>7 DEF Retry, agent
  <2>2. CASE socks[i].left = {} \/ socks[i].tries + 1 = MaxTries
    <3>1. Close({i}) /\ known' = known /\ socks[i].left = {}
      BY <1>0, <1>7, <2>1, <2>2 DEF Retry
    <3>2. ASSUME NEW s \in local, NEW j \in Socket, Good(j, s) PROVE Good(j, s)'
      <4>1. j # i
        BY <3>1, <3>2 DEF Good
      <4>2. socks'[j] = socks[j] /\ acks' \subseteq acks
        BY <3>1, <4>1 DEF Close
      <4> QED
        BY <3>2, <4>2 DEF Good
    <3>3. \A s \in local : Safe(s) => Safe(s)'
      BY <2>1, <3>2 DEF Safe
    <3> QED
      BY <1>2, <2>1, <3>1, <3>3
  <2>3. CASE ~(socks[i].left = {} \/ socks[i].tries + 1 = MaxTries)
    <3>1. /\ socks' = [socks EXCEPT ![i].tries = @ + 1]
          /\ known' = known /\ acks' = acks
      BY <1>7, <2>3 DEF Retry
    <3>2. \A j \in Socket : socks'[j].kind = socks[j].kind /\ socks'[j].left = socks[j].left
      BY <3>1 DEF TypeOK
    <3>3. \A s \in local : Safe(s) => Safe(s)'
      BY <2>1, <3>1, <3>2 DEF Safe, Good
    <3> QED
      BY <1>2, <2>1, <3>1, <3>3
  <2> QED
    BY <2>2, <2>3
<1>8. ASSUME NEW m \in acks, RecvAck(m) PROVE AllSafe'
  <2>1. /\ UNCHANGED client /\ UNCHANGED agent /\ crossed' = crossed
        /\ acks' \subseteq acks
        /\ socks' = [socks EXCEPT ![m.sock].left = {s \in @ : Xid[s] # Xid[m.srv]}]
    BY <1>8 DEF RecvAck
  <2>2. m.sock \in Socket /\ m.srv \in Services
    BY DEF TypeOK, WireOpen, Message
  <2>3. ASSUME NEW s \in local, NEW j \in Socket, Good(j, s) PROVE Good(j, s)'
    <3>1. CASE j # m.sock
      <4>1. socks'[j] = socks[j]
        BY <2>1, <3>1 DEF TypeOK
      <4> QED
        BY <2>1, <2>3, <4>1 DEF Good
    <3>2. CASE j = m.sock
      <4>1. m.srv # s
        BY <2>3, <3>2 DEF Good
      <4>2. Xid[s] # Xid[m.srv]
        BY <1>0, <2>2, <4>1 DEF DistinctXids
      <4>3. /\ socks'[j].kind = socks[j].kind
            /\ socks'[j].left = {t \in socks[j].left : Xid[t] # Xid[m.srv]}
        BY <2>1, <3>2 DEF TypeOK
      <4> QED
        BY <2>1, <2>3, <4>2, <4>3 DEF Good
    <3> QED
      BY <3>1, <3>2
  <2>4. \A s \in local : Safe(s) => Safe(s)'
    BY <2>1, <2>3 DEF Safe, agent
  <2> QED
    BY <1>2, <2>1, <2>4 DEF client, agent
<1>9. ASSUME NEW b \in 0 .. MaxBoots, RecvAdvert(b), sa', up', known' = boot' PROVE AllSafe'
  <2>1. /\ sa' = sa /\ local' = local /\ known' = b /\ up' = up /\ boot' = boot /\ db' = db /\ b # 0
    BY <1>0, <1>9 DEF RecvAdvert
  <2>2. CASE b = known
    <3>1. UNCHANGED wire
      BY <1>9, <2>1, <2>2 DEF RecvAdvert
    <3> QED
      BY <1>2, <2>1, <2>2, <3>1 DEF wire, Safe, Good
  <2>3. CASE b # known
    <3>1. Send("reg", local)
      BY <1>9, <2>1, <2>3 DEF RecvAdvert
    <3>2. ASSUME NEW t \in local' \ crossed' PROVE Safe(t)'
      <4>1. \E j \in Socket : Good(j, t)'
        BY <1>0, <2>1, <3>1, SendCarries
      <4> QED
        BY <4>1 DEF Safe
    <3> QED
      BY <3>2 DEF AllSafe
  <2> QED
    BY <2>2, <2>3
<1>10. ASSUME Refresh, sa', up', known' = boot' PROVE AllSafe'
  <2> DEFINE S == local \cap Immortal
  <2>1. sa /\ up /\ known = boot /\ db' = db /\ local' = local
    BY <1>10 DEF Refresh, client, agent
  <2>2. Send("reg", S) /\ S \in SUBSET Services
    BY <1>0, <1>10 DEF Refresh
  <2> HIDE DEF S
  <2>3. ASSUME NEW t \in local' \ crossed' PROVE Safe(t)'
    <3>1. t \in Services /\ t \in local
      BY <1>0, <2>1
    <3>2. CASE t \in S
      <4>1. \E j \in Socket : Good(j, t)'
        BY <2>2, <3>2, SendCarries
      <4> QED
        BY <4>1 DEF Safe
    <3>3. CASE t \notin S
      <4>1. t \notin crossed
        BY <2>2, <3>1, <3>3, RegCrossed
      <4>2. Safe(t)
        BY <2>1, <3>1, <4>1 DEF AllSafe
      <4> QED
        BY <2>1, <2>2, <3>1, <4>2, SendSafe
    <3> QED
      BY <3>2, <3>3
  <2> QED
    BY <2>3 DEF AllSafe
<1>11. ASSUME StaleTick PROVE AllSafe'
  <2>1. CASE known' = 0
    BY <1>0, <1>1, <1>11, <2>1 DEF StaleTick, agent
  <2>2. CASE known' # 0
    BY <1>2, <1>11, <2>2 DEF StaleTick, wire, agent, Safe, Good
  <2> QED
    BY <2>1, <2>2
<1>12. ASSUME Sighup \/ Sigterm \/ SaCrash \/ SaStart PROVE AllSafe'
  <2>1. known' = 0 /\ boot' = boot
    BY <1>12 DEF Sighup, Sigterm, SaCrash, SaStart, Gone, Forgotten, agent
  <2> QED
    BY <1>0, <1>1, <2>1
<1>13. ASSUME NEW m \in net, DaRecv(m), sa', up', known' = boot' PROVE AllSafe'
  <2>1. /\ sa /\ up /\ known = boot /\ UNCHANGED client /\ socks' = socks /\ crossed' = crossed
        /\ db' = IF m.kind = "reg" THEN db \cup {m.srv} ELSE db \ {m.srv}
        /\ acks' \subseteq acks \cup {m}
    BY <1>13 DEF DaRecv, client
  <2>2. m.kind \in {"reg", "dereg"}
    BY DEF TypeOK, Message
  <2>3. ASSUME NEW s \in local \ crossed PROVE Safe(s)'
    <3>1. Safe(s)
      BY <2>1, <2>3 DEF AllSafe
    <3>2. CASE m.srv # s
      BY <2>1, <3>1, <3>2 DEF Safe, Good
    <3>3. CASE m.srv = s
      <4>1. ~Outstanding("dereg", s)
        BY <1>0, <2>1, <2>3 DEF NoDereg
      <4>2. m.kind = "reg"
        BY <2>2, <3>3, <4>1 DEF Outstanding
      <4> QED
        BY <2>1, <3>3, <4>2 DEF Safe
    <3> QED
      BY <3>2, <3>3
  <2> QED
    BY <2>1, <2>3 DEF AllSafe, client
<1>14. ASSUME DaStop PROVE AllSafe'
  BY <1>1, <1>14 DEF DaStop
<1>15. ASSUME DaStart PROVE AllSafe'
  <2>1. known' = known /\ boot' = boot + 1
    BY <1>15 DEF DaStart, client
  <2>2. known \in Int /\ boot \in Int
    BY DEF TypeOK
  <2>3. known' # boot'
    BY <2>1, <2>2 DEF BootsPast
  <2> QED
    BY <1>1, <2>3
<1>16. ASSUME Lose PROVE AllSafe'
  <2>1. acks' \subseteq acks /\ UNCHANGED <<client, socks, crossed, agent>>
    BY <1>16 DEF Lose
  <2> QED
    BY <1>2, <2>1 DEF client, agent, Safe, Good
<1>17. CASE UNCHANGED vars
  BY <1>2, <1>17 DEF vars, client, wire, agent, Safe, Good
<1> QED
  BY <1>1, <1>3, <1>4, <1>5, <1>6, <1>7, <1>8, <1>9, <1>10, <1>11, <1>12, <1>13, <1>14, <1>15,
     <1>16, <1>17 DEF Next

-----------------------------------------------------------------------------
LEMMA InitInv == Init => IInv
<1> SUFFICES ASSUME Init PROVE IInv
  OBVIOUS
<1> USE CountAssumption, ServiceAssumption DEF Init
<1>1. Closed \in [kind : {"closed", "reg", "dereg"}, left : SUBSET Services,
                  tries : 0 .. MaxTries - 1] /\ Closed.kind = "closed"
  BY DEF Closed
<1>2. TypeOK
  BY <1>1 DEF TypeOK
<1>3. BootsPast /\ Forgotten /\ WireOpen /\ NoDereg /\ AllSafe
  BY DEF BootsPast, Forgotten, WireOpen, NoDereg, AllSafe
<1> QED
  BY <1>2, <1>3 DEF IInv

\* Whatever is lost, resent, reordered or restarted, every message on the
\* wire that can still be answered belongs to a socket of G_OutgoingSocketList
\* that is open, and the tables keep their types.
THEOREM WireIsOpen == Spec => [](TypeOK /\ WireOpen)
<1>1. Init => TypeOK /\ WireOpen
  BY InitInv DEF IInv
<1>2. TypeOK /\ WireOpen /\ [Next]_vars => (TypeOK /\ WireOpen)'
  BY TypeStep
<1> QED
  BY <1>1, <1>2, PTL DEF Spec

\* While no two registrations share an xid, what the SA has registered is in
\* the database of the DA it counts on, or a socket still carries it there:
\* SLPDKnownDAAdd, SLPDOutgoingRetry and the acknowledgements forget nothing.
THEOREM RegistrationsInSync == ASSUME DistinctXids PROVE Spec => []InSync
<1>1. Init => IInv
  BY InitInv
<1>2. IInv /\ [Next]_vars => IInv'
  <2> SUFFICES ASSUME IInv, [Next]_vars PROVE IInv'
    OBVIOUS
  <2>1. TypeOK' /\ WireOpen'
    BY TypeStep DEF IInv
  <2>2. BootsPast' /\ Forgotten'
    BY BootsStep DEF IInv
  <2>3. NoDereg'
    BY DeregStep
  <2>4. AllSafe'
    BY SafeStep
  <2> QED
    BY <2>1, <2>2, <2>3, <2>4 DEF IInv
<1>3. IInv => InSync
  BY DEF IInv, AllSafe, Safe, Good, InSync, Carried
<1> QED
  BY <1>1, <1>2, <1>3, PTL DEF Spec
=============================================================================
