--------------------------- MODULE RMCPPlusProofs ---------------------------
(***************************************************************************)
(* Proofs about RMCPPlus, for any number of consoles, session IDs, draws   *)
(* and restarts, on a reliable and on an unreliable network, with session  *)
(* IDs drawn once or again, whatever commands are sent in sessions and     *)
(* outside of any.                                                         *)
(*                                                                         *)
(* The argument is about the BMC's random numbers.  A number is drawn once *)
(* and put into one session and one RAKP message 2, which agree on the     *)
(* console and its random number (Sessions).  A console answers one RAKP   *)
(* message 2, so all its RAKP messages 3 and commands are about one random *)
(* number (Packets), and a session that has this number is the console's   *)
(* own.  The key the BMC computes when it accepts a RAKP message 3 is      *)
(* therefore the key of the console that opened the session.  After the    *)
(* session was closed no session has the number, and none gets it again    *)
(* (Spent).                                                                *)
(***************************************************************************)
EXTENDS RMCPPlus, TLAPS

\* Console c was given the user and the password of bmcUser.
Good(c) == UserName[c] = "cybozu" /\ Password[c] = "cybozu"

\* What a console has computed from the RAKP message 2 it answered.
Answered(c) ==
  /\ console[c].random <= draws
  /\ console[c].state \in {"idle", "capabilities", "open", "rakp1"} => console[c].random = 0
  /\ console[c].state \in {"rakp3", "active", "closed"} => console[c].random # 0
  /\ console[c].random # 0 =>
       console[c].key = generateSessionIntegrityKey(Password[c], c, console[c].random, UserName[c])

\* Has console c got the ID of its session?
Named(c) == console[c].state \notin {"idle", "capabilities", "open"}

\* What a datagram says about its console.
PacketOK(p) ==
  /\ p.type \in {"plain", "plainResponse"} \/ p.at \in Consoles
  /\ p.type = "open"   => p.rc = p.at
  /\ p.type = "opened" => p.id \in Ids
  /\ p.type = "rakp1"  => p.rcRandom = p.at /\ p.id = console[p.at].id /\ Named(p.at)
  /\ p.type = "rakp2"  =>
       /\ p.random \in 1..draws
       /\ p.code = generateAuthCode("cybozu", p.rc, console[p.at].id, p.at, p.random, "cybozu")
       /\ Named(p.at)
  /\ p.type = "rakp3"  =>
       /\ console[p.at].random # 0
       /\ p.id = console[p.at].id
       /\ p.code = exchangeCode(Password[p.at], console[p.at].random, p.at, UserName[p.at])
  /\ p.type = "command" =>
       /\ console[p.at].random # 0
       /\ p.key = console[p.at].key
       /\ p.id = console[p.at].id /\ p.closes = p.id
  /\ p.type = "response" =>
       /\ p.rc \in Consoles
       /\ console[p.rc].random # 0
       /\ p.key = console[p.rc].key

\* What the session id says about the consoles and the RAKP messages 2.
SessionOK(id) ==
  LET s == sessions[id] IN
  /\ s.random <= draws
  /\ s.user = "cybozu" <=> s.random # 0
  /\ s.random # 0 => s.rcRandom \in Consoles
  /\ \A p \in net : p.type = "rakp2" /\ p.random = s.random =>
       p.code = generateAuthCode("cybozu", s.rc, id, s.rcRandom, s.random, "cybozu")
  /\ \A c \in Consoles : s.random # 0 /\ console[c].random = s.random =>
       s.rc = c /\ s.rcRandom = c /\ id = console[c].id
  /\ s.key # NoKey =>
       /\ Good(s.rc)
       /\ console[s.rc].random # 0
       /\ s.key = console[s.rc].key
       /\ id = console[s.rc].id

\* Does console c know that its session is closed, or will it?
Closed(c) ==
  \/ console[c].state = "closed"
  \/ \E p \in net : p.type = "response" /\ p.cmd = "CloseSession" /\ p.key = console[c].key

Spent(c) ==
  console[c].random # 0 /\ Closed(c) =>
    \A id \in DOMAIN sessions :
      sessions[id].key # console[c].key /\ sessions[id].random # console[c].random

Inv ==
  /\ TypeOK
  /\ \A c \in Consoles : Answered(c)
  /\ \A p \in net : PacketOK(p)
  /\ \A id \in DOMAIN sessions : SessionOK(id)
  /\ \A c \in Consoles : Spent(c)

\* The BMC's session of console c has its key.
Held(c) ==
  /\ console[c].id \in DOMAIN sessions
  /\ sessions[console[c].id].rc = c
  /\ sessions[console[c].id].key = console[c].key

\* Has the BMC accepted console c's RAKP message 3?
Accepted(c) ==
  \/ console[c].state = "active"
  \/ \E p \in net : \/ p.type = "rakp4" /\ p.rc = c
                    \/ p.type = "command" /\ p.at = c

\* May console c count on its session?
Counting(c) ==
  /\ ~Reliable /\ restarts = 0
  /\ Closing(console[c].id) = {}
  /\ Accepted(c)

\* An accepted console's session stays, but for a restart, until somebody asks
\* to close it; an ID that is drawn once never names another session.
Lasting(c) ==
  /\ Accepted(c) => console[c].random # 0
  /\ Accepted(c) /\ console[c].id \notin Reusable =>
       console[c].id \in issued /\ (console[c].id \in DOMAIN sessions => Held(c))
  /\ Counting(c) => Held(c)

Inv2 ==
  /\ DOMAIN sessions \subseteq issued
  /\ \A c \in Consoles : Lasting(c)

-----------------------------------------------------------------------------
(* Hashes are equal only if their inputs are.                              *)

\* generateAuthCode: the code of RAKP message 2 fixes everything in it.
LEMMA CodeInjective ==
  ASSUME NEW w, NEW r, NEW i, NEW m, NEW n, NEW u, NEW w1, NEW r1, NEW i1, NEW m1, NEW n1, NEW u1,
         generateAuthCode(w, r, i, m, n, u) = generateAuthCode(w1, r1, i1, m1, n1, u1)
  PROVE  w = w1 /\ r = r1 /\ i = i1 /\ m = m1 /\ n = n1 /\ u = u1
BY DEF generateAuthCode

\* validateAuthCode: so does the code of RAKP message 3.
LEMMA ExchangeInjective ==
  ASSUME NEW w, NEW n, NEW r, NEW u, NEW w1, NEW n1, NEW r1, NEW u1,
         exchangeCode(w, n, r, u) = exchangeCode(w1, n1, r1, u1)
  PROVE  w = w1 /\ n = n1 /\ r = r1 /\ u = u1
BY DEF exchangeCode

\* generateSessionIntegrityKey: keys of two consoles differ, and a key is a key.
LEMMA KeyInjective ==
  ASSUME NEW w, NEW m, NEW n, NEW u
  PROVE  /\ generateSessionIntegrityKey(w, m, n, u) # NoKey
         /\ \A w1, m1, n1, u1 :
              generateSessionIntegrityKey(w, m, n, u) = generateSessionIntegrityKey(w1, m1, n1, u1)
                => m = m1
BY DEF generateSessionIntegrityKey, NoKey

\* The keys of two consoles that have one differ.
LEMMA KeysDiffer ==
  ASSUME NEW c \in Consoles, NEW d \in Consoles, Answered(c), Answered(d),
         console[c].random # 0, console[d].random # 0
  PROVE  /\ console[c].key # NoKey
         /\ console[c].key = console[d].key => c = d
BY KeyInjective DEF Answered

\* bmcUser has the one user that SetupBMC adds.
LEMMA OneUser == /\ bmcUser["cybozu"] = "cybozu"
                 /\ \A u : u \in DOMAIN bmcUser <=> u = "cybozu"
BY DEF bmcUser

\* The numbers drawn so far.
LEMMA Numbers ==
  ASSUME Inv
  PROVE  /\ draws \in Nat
         /\ \A c \in Consoles : console[c].random \in Nat /\ console[c].random <= draws
         /\ \A id \in DOMAIN sessions : sessions[id].random \in Nat
<1>1. draws \in Nat
  BY RMCPAssumption DEF Inv, TypeOK
<1>2. ASSUME NEW c \in Consoles
      PROVE  console[c].random \in Nat /\ console[c].random <= draws
  BY RMCPAssumption DEF Inv, TypeOK, Answered
<1>3. ASSUME NEW id \in DOMAIN sessions
      PROVE  sessions[id].random \in Nat
  BY RMCPAssumption DEF Inv, TypeOK
<1> QED  BY <1>1, <1>2, <1>3

\* A map of sessions without any.
LEMMA NoDomain == DOMAIN <<>> = {}
OBVIOUS

-----------------------------------------------------------------------------
(* The BMC's steps.                                                        *)

\* The variables that no handler and no console but its own step changes.
Counts == issued' \subseteq Ids /\ restarts' \in 0..MaxRestarts /\ panicked' \in BOOLEAN

\* A step that changes neither a session nor a console keeps the invariant, if
\* what it sends is neither a RAKP message 2 nor the response to a Close
\* Session.
LEMMA FrameKeeps ==
  ASSUME Inv, Counts, UNCHANGED <<sessions, draws, console>>,
         \A p \in net' : \/ p \in net
                         \/ /\ PacketOK(p)
                            /\ p.type # "rakp2"
                            /\ ~(p.type = "response" /\ p.cmd = "CloseSession")
  PROVE  Inv'
<1>1. TypeOK'
  BY DEF Inv, TypeOK, Counts
<1>2. \A c \in Consoles : Answered(c)'
  BY DEF Inv, Answered
<1>3. \A p \in net' : PacketOK(p)'
  BY DEF Inv, PacketOK, Named
<1>4. \A id \in DOMAIN sessions' : SessionOK(id)'
  BY DEF Inv, SessionOK
<1>5. \A c \in Consoles : Spent(c)'
  BY DEF Inv, Spent, Closed
<1> QED  BY <1>1, <1>2, <1>3, <1>4, <1>5 DEF Inv

\* Every handler that returns an error or panics.
LEMMA NoSession ==
  ASSUME Inv, NEW p \in net, Ignore(p) \/ Panic(p)
  PROVE  Inv'
<1>1. Counts /\ UNCHANGED <<sessions, draws, console>>
  BY Zenon DEF Inv, TypeOK, Counts, Ignore, Panic
<1>2. \A q \in net' : q \in net
  BY DEF Ignore, Panic, Exchange
<1> QED  BY <1>1, <1>2, FrameKeeps

\* SendPlain: nobody's session is concerned before the request is handled.
LEMMA PlainSent ==
  ASSUME Inv, NEW cmd, SendPlain(cmd)
  PROVE  Inv'
<1>1. Counts /\ UNCHANGED <<sessions, draws, console>>
  BY Zenon DEF Inv, TypeOK, Counts, SendPlain
<1>2. \A q \in net' : q \in net \/ q.type = "plain"
  BY DEF SendPlain
<1>3. \A q : q.type = "plain" => PacketOK(q)
  BY DEF PacketOK
<1> QED  BY <1>1, <1>2, <1>3, FrameKeeps

\* handleOpenSessionRequest: a new session has no random number and no key.
LEMMA OpenKeeps ==
  ASSUME Inv, NEW p \in net, handleOpenSessionRequest(p)
  PROVE  Inv'
<1>1. PICK id \in Ids \ DOMAIN sessions :
        /\ sessions' = [i \in DOMAIN sessions \cup {id} |->
                          IF i = id THEN getNewRMCPPlusSession(p.rc) ELSE sessions[i]]
        /\ issued' = issued \cup {id}
        /\ Exchange(p, {[type |-> "opened", at |-> p.at, rc |-> p.rc, id |-> id]})
  BY Zenon DEF handleOpenSessionRequest
<1> DEFINE q == [type |-> "opened", at |-> p.at, rc |-> p.rc, id |-> id]
<1>2. UNCHANGED <<draws, panicked, console, restarts>> /\ p.type = "open"
  BY DEF handleOpenSessionRequest
<1>3. p.at \in Consoles /\ p.rc \in Consoles
  BY <1>2 DEF Inv, PacketOK
<1>4. \A r \in net' : r \in net \/ r = q
  BY <1>1 DEF Exchange
<1>5. DOMAIN sessions' = DOMAIN sessions \cup {id}
  BY <1>1
<1>6. sessions'[id] = getNewRMCPPlusSession(p.rc)
  BY <1>1
<1>7. \A i \in DOMAIN sessions : sessions'[i] = sessions[i]
  BY <1>1
<1>8. TypeOK'
  <2>1. sessions'[id] \in [rc : Consoles, rcRandom : Consoles \cup {"none"}, random : 0..MaxDraws,
                           user : {"none", "cybozu"}, key : Keys]
    BY <1>3, <1>6, RMCPAssumption DEF getNewRMCPPlusSession, Keys
  <2> QED  BY <2>1, <1>1, <1>2, <1>5, <1>7 DEF Inv, TypeOK
<1>9. \A c \in Consoles : Answered(c)'
  BY <1>2 DEF Inv, Answered
<1>10. \A r \in net' : PacketOK(r)'
  BY <1>1, <1>2, <1>3, <1>4 DEF Inv, PacketOK, Named
<1>11. \A i \in DOMAIN sessions' : SessionOK(i)'
  <2>1. SessionOK(id)'
    BY <1>2, <1>4, <1>6, <1>10 DEF SessionOK, PacketOK, getNewRMCPPlusSession, Inv, TypeOK
  <2>2. \A i \in DOMAIN sessions : SessionOK(i)'
    BY <1>2, <1>4, <1>7 DEF SessionOK, Inv
  <2> QED  BY <2>1, <2>2, <1>5
<1>12. \A c \in Consoles : Spent(c)'
  <2> SUFFICES ASSUME NEW c \in Consoles, console[c].random # 0, Closed(c)'
               PROVE  \A i \in DOMAIN sessions' : /\ sessions'[i].key # console[c].key
                                                  /\ sessions'[i].random # console[c].random
    BY <1>2 DEF Spent
  <2>1. Closed(c)
    BY <1>2, <1>4 DEF Closed
  <2>2. console[c].key # NoKey
    BY KeysDiffer DEF Inv
  <2> QED  BY <2>1, <2>2, <1>5, <1>6, <1>7 DEF Inv, Spent, getNewRMCPPlusSession
<1> QED  BY <1>8, <1>9, <1>10, <1>11, <1>12 DEF Inv


\* handleRAKPMessage1Request: the number drawn is in no other session, in no
\* other RAKP message 2 and at no console.
LEMMA RAKP1Keeps ==
  ASSUME Inv, NEW p \in net, handleRAKPMessage1Request(p)
  PROVE  Inv'
<1>1. CASE p.id \notin DOMAIN sessions \/ p.user \notin DOMAIN bmcUser
  BY <1>1, NoSession DEF handleRAKPMessage1Request
<1>2. CASE p.id \in DOMAIN sessions /\ p.user \in DOMAIN bmcUser
  <2> DEFINE id == p.id
             s  == [rc |-> sessions[id].rc, rcRandom |-> p.rcRandom, random |-> draws + 1,
                    user |-> "cybozu", key |-> sessions[id].key]
             q  == [type |-> "rakp2", at |-> p.at, rc |-> s.rc, random |-> draws + 1,
                    code |-> generateAuthCode("cybozu", s.rc, id, s.rcRandom, draws + 1, "cybozu")]
  <2>1. p.user = "cybozu"
    BY <1>2, OneUser
  <2>2. /\ draws < MaxDraws /\ draws' = draws + 1
        /\ sessions' = [sessions EXCEPT ![id] = s]
        /\ UNCHANGED <<panicked, console, issued, restarts>>
    BY <1>2, <2>1 DEF handleRAKPMessage1Request
  <2>3. DOMAIN sessions' = DOMAIN sessions /\ sessions'[id] = s
    BY <1>2, <2>2
  <2>4. \A i \in DOMAIN sessions : i # id => sessions'[i] = sessions[i]
    BY <2>2
  <2>5. /\ p.at \in Consoles /\ p.rcRandom = p.at
        /\ id = console[p.at].id /\ Named(p.at)
    BY Zenon DEF Inv, PacketOK, handleRAKPMessage1Request
  <2>6. \A r \in net' : r \in net \/ r = q
    BY <1>2, <2>1, <2>2, <2>3, OneUser DEF handleRAKPMessage1Request, Exchange
  <2>7. draws \in Nat /\ MaxDraws \in Nat
    BY RMCPAssumption DEF Inv, TypeOK
  <2>8. sessions[id] \in [rc : Consoles, rcRandom : Consoles \cup {"none"}, random : 0..MaxDraws,
                          user : {"none", "cybozu"}, key : Keys]
    BY <1>2 DEF Inv, TypeOK
  <2>9. TypeOK'
    <3>1. s \in [rc : Consoles, rcRandom : Consoles \cup {"none"}, random : 0..MaxDraws,
                 user : {"none", "cybozu"}, key : Keys]
      BY <2>2, <2>5, <2>7, <2>8
    <3>2. draws' \in 0..MaxDraws
      BY <2>2, <2>7
    <3> HIDE DEF s
    <3> QED  BY <3>1, <3>2, <2>2, <2>3, <2>4 DEF Inv, TypeOK
  <2>10. \A c \in Consoles : Answered(c)'
    BY <2>2, <2>7 DEF Inv, TypeOK, Answered
  <2>11. \A r \in net' : PacketOK(r)'
    <3>1. ASSUME NEW r, r = q
          PROVE  PacketOK(r)'
      BY <3>1, <2>2, <2>5, <2>7 DEF PacketOK, Named
    <3>2. \A r \in net : PacketOK(r)'
      BY <2>2, <2>7 DEF Inv, PacketOK, Named
    <3> QED  BY <3>1, <3>2, <2>6
  <2>12. \A i \in DOMAIN sessions' : SessionOK(i)'
    <3>1. SessionOK(id)'
      <4>1. \A r \in net : r.type = "rakp2" => r.random # draws + 1
        BY <2>7 DEF Inv, PacketOK
      <4>2. ASSUME NEW c \in Consoles
            PROVE  console[c].random # draws + 1
        BY Numbers
      <4>3. SessionOK(id)
        BY <1>2 DEF Inv
      <4>4. p.at \in Consoles /\ p.rcRandom = p.at
        BY <2>5
      <4> QED  BY <4>1, <4>2, <4>3, <4>4, <2>2, <2>3, <2>6, <2>7 DEF SessionOK
    <3>2. ASSUME NEW i \in DOMAIN sessions, i # id
          PROVE  SessionOK(i)'
      <4>1. SessionOK(i) /\ sessions'[i] = sessions[i] /\ sessions[i].random \in Nat
        BY <3>2, <2>4 DEF Inv, TypeOK
      <4> QED  BY <4>1, <2>2, <2>6, <2>7 DEF SessionOK
    <3> QED  BY <3>1, <3>2, <2>3
  <2>13. \A c \in Consoles : Spent(c)'
    <3> SUFFICES ASSUME NEW c \in Consoles, console[c].random # 0, Closed(c)'
                 PROVE  \A i \in DOMAIN sessions' : /\ sessions'[i].key # console[c].key
                                                    /\ sessions'[i].random # console[c].random
      BY <2>2 DEF Spent
    <3>1. Closed(c)
      BY <2>2, <2>6 DEF Closed
    <3>2. console[c].random # draws + 1
      BY <2>7 DEF Inv, TypeOK, Answered
    <3> QED  BY <3>1, <3>2, <1>2, <2>3, <2>4 DEF Inv, Spent
  <2> QED  BY <2>9, <2>10, <2>11, <2>12, <2>13 DEF Inv
<1> QED  BY <1>1, <1>2

\* validateAuthCode: a code that it accepts is about the session's random
\* number, so the session is that of the datagram's console and its key is the
\* one that the console has.
LEMMA ValidIsOwn ==
  ASSUME Inv, NEW p \in net, p.type = "rakp3", p.id \in DOMAIN sessions,
         UserFound(sessions[p.id]), validateAuthCode(p.code, sessions[p.id])
  PROVE  LET s == sessions[p.id] IN
         /\ p.at \in Consoles /\ console[p.at].random # 0 /\ p.id = console[p.at].id
         /\ Good(p.at) /\ s.random = console[p.at].random /\ s.rc = p.at
         /\ generateSessionIntegrityKey(bmcUser[s.user], s.rcRandom, s.random, s.user)
              = console[p.at].key
<1> DEFINE s == sessions[p.id]
           c == p.at
<1>1. /\ c \in Consoles /\ console[c].random # 0 /\ p.id = console[c].id
      /\ p.code = exchangeCode(Password[c], console[c].random, c, UserName[c])
  BY DEF Inv, PacketOK
<1>2. s.user = "cybozu" /\ bmcUser[s.user] = "cybozu"
  BY OneUser DEF UserFound
<1>3. Good(c) /\ s.random = console[c].random /\ s.rc = c
  BY <1>1, <1>2, ExchangeInjective DEF validateAuthCode, Good
<1>4. s.rcRandom = c
  BY <1>1, <1>3, Zenon DEF Inv, SessionOK
<1>5. generateSessionIntegrityKey(bmcUser[s.user], s.rcRandom, s.random, s.user) = console[c].key
  BY <1>1, <1>2, <1>3, <1>4, Zenon DEF Inv, Answered, Good
<1> QED  BY <1>1, <1>3, <1>5

\* handleRAKPMessage3Request: the session gets its console's key, or nothing
\* changes.
LEMMA RAKP3Keeps ==
  ASSUME Inv, NEW p \in net, handleRAKPMessage3Request(p)
  PROVE  Inv'
<1>1. CASE \/ p.id \notin DOMAIN sessions
           \/ ~UserFound(sessions[p.id])
           \/ ~validateAuthCode(p.code, sessions[p.id])
  BY <1>1, NoSession DEF handleRAKPMessage3Request
<1>2. CASE /\ p.id \in DOMAIN sessions
           /\ UserFound(sessions[p.id])
           /\ validateAuthCode(p.code, sessions[p.id])
  <2> DEFINE id  == p.id
             s   == sessions[id]
             c   == p.at
             key == generateSessionIntegrityKey(bmcUser[s.user], s.rcRandom, s.random, s.user)
  <2>1. c \in Consoles /\ console[c].random # 0 /\ id = console[c].id
    BY <1>2, ValidIsOwn DEF handleRAKPMessage3Request
  <2>2. Good(c) /\ s.random = console[c].random /\ s.rc = c
    BY <1>2, ValidIsOwn DEF handleRAKPMessage3Request
  <2>3. key = console[c].key
    BY <1>2, ValidIsOwn DEF handleRAKPMessage3Request
  <2>4. /\ sessions' = [sessions EXCEPT ![id].key = console[c].key]
        /\ UNCHANGED <<draws, panicked, console, issued, restarts>>
    BY <1>2, <2>3 DEF handleRAKPMessage3Request
  <2>5. \A r \in net' : r \in net \/ (r.type = "rakp4" /\ r.at = c)
    BY <1>2 DEF handleRAKPMessage3Request, Exchange
  <2>6. s \in [rc : Consoles, rcRandom : Consoles \cup {"none"}, random : 0..MaxDraws,
               user : {"none", "cybozu"}, key : Keys]
    BY <1>2 DEF Inv, TypeOK
  <2>7. /\ DOMAIN sessions' = DOMAIN sessions
        /\ sessions'[id] = [s EXCEPT !.key = console[c].key]
        /\ \A i \in DOMAIN sessions : i # id => sessions'[i] = sessions[i]
    BY <1>2, <2>4
  <2> HIDE DEF s, key, c, id
  <2>8. TypeOK'
    <3>1. [s EXCEPT !.key = console[c].key]
            \in [rc : Consoles, rcRandom : Consoles \cup {"none"}, random : 0..MaxDraws,
                 user : {"none", "cybozu"}, key : Keys]
      BY <2>1, <2>6 DEF Inv, TypeOK
    <3> QED  BY <3>1, <2>4, <2>7 DEF Inv, TypeOK
  <2>9. \A d \in Consoles : Answered(d)'
    BY <2>4 DEF Inv, Answered
  <2>10. \A r \in net' : PacketOK(r)'
    BY <2>1, <2>4, <2>5 DEF Inv, PacketOK, Named
  <2>11. \A i \in DOMAIN sessions' : SessionOK(i)'
    <3>1. ASSUME NEW i, i = id
          PROVE  SessionOK(i)'
      <4>1. SessionOK(i) /\ s = sessions[i]
        BY <3>1, <1>2 DEF Inv, id, s
      <4>2. /\ sessions'[i].rc = s.rc /\ sessions'[i].rcRandom = s.rcRandom
            /\ sessions'[i].random = s.random /\ sessions'[i].user = s.user
            /\ sessions'[i].key = console[c].key
        BY <3>1, <2>6, <2>7
      <4>3. UNCHANGED <<draws, console>> /\ \A r \in net' : r.type = "rakp2" => r \in net
        BY <2>4, <2>5
      <4>4. /\ Good(sessions'[i].rc)
            /\ console'[sessions'[i].rc].random # 0
            /\ sessions'[i].key = console'[sessions'[i].rc].key
            /\ i = console'[sessions'[i].rc].id
        BY <3>1, <4>2, <4>3, <2>1, <2>2
      <4>5. /\ sessions'[i].random <= draws'
            /\ sessions'[i].user = "cybozu" <=> sessions'[i].random # 0
            /\ sessions'[i].random # 0 => sessions'[i].rcRandom \in Consoles
        BY <4>1, <4>2, <4>3 DEF SessionOK
      <4>6. \A r \in net' : r.type = "rakp2" /\ r.random = s.random =>
              r.code = generateAuthCode("cybozu", s.rc, i, s.rcRandom, s.random, "cybozu")
        BY <4>1, <4>3 DEF SessionOK
      <4>7. \A r \in net' : r.type = "rakp2" /\ r.random = sessions'[i].random =>
              r.code = generateAuthCode("cybozu", sessions'[i].rc, i, sessions'[i].rcRandom,
                                        sessions'[i].random, "cybozu")
        BY <4>2, <4>6
      <4>8. \A d \in Consoles : s.random # 0 /\ console[d].random = s.random =>
              s.rc = d /\ s.rcRandom = d /\ i = console[d].id
        BY <4>1 DEF SessionOK
      <4>9. \A d \in Consoles : sessions'[i].random # 0 /\ console'[d].random = sessions'[i].random =>
              sessions'[i].rc = d /\ sessions'[i].rcRandom = d /\ i = console'[d].id
        BY <4>2, <4>3, <4>8
      <4> QED  BY <4>4, <4>5, <4>7, <4>9, Zenon DEF SessionOK
    <3>2. ASSUME NEW i \in DOMAIN sessions, i # id
          PROVE  SessionOK(i)'
      BY <3>2, <2>4, <2>5, <2>7 DEF Inv, SessionOK
    <3> QED  BY <3>1, <3>2, <2>7
  <2>12. \A d \in Consoles : Spent(d)'
    <3> SUFFICES ASSUME NEW d \in Consoles, console[d].random # 0, Closed(d)'
                 PROVE  \A i \in DOMAIN sessions' : /\ sessions'[i].key # console[d].key
                                                    /\ sessions'[i].random # console[d].random
      BY <2>4 DEF Spent
    <3>1. Closed(d)
      BY <2>4, <2>5 DEF Closed
    <3>2. \A i \in DOMAIN sessions : /\ sessions[i].key # console[d].key
                                     /\ sessions[i].random # console[d].random
      BY <3>1 DEF Inv, Spent
    <3>3. d # c
      BY <3>2, <1>2, <2>2 DEF id, s
    <3>4. console[c].key # console[d].key
      BY <3>3, <2>1, KeysDiffer DEF Inv
    <3>5. sessions'[id].key = console[c].key /\ sessions'[id].random = s.random
      BY <2>6, <2>7
    <3> QED  BY <3>2, <3>4, <3>5, <1>2, <2>7, Zenon DEF id, s
  <2> QED  BY <2>8, <2>9, <2>10, <2>11, <2>12 DEF Inv
<1> QED  BY <1>1, <1>2


\* Fewer sessions, and only a plain response or that of a closed session is new.
LEMMA FewerSessions ==
  ASSUME Inv, Counts, UNCHANGED <<draws, console>>,
         DOMAIN sessions' \subseteq DOMAIN sessions,
         \A id \in DOMAIN sessions' : sessions'[id] = sessions[id],
         \A p \in net' : \/ p \in net
                         \/ p.type = "plainResponse"
                         \/ /\ PacketOK(p) /\ p.type = "response"
                            /\ \A id \in DOMAIN sessions' :
                                 /\ sessions[id].key # p.key
                                 /\ sessions[id].random # console[p.rc].random
  PROVE  Inv'
<1>1. TypeOK'
  BY DEF Inv, TypeOK, Counts
<1>2. \A c \in Consoles : Answered(c)'
  BY DEF Inv, Answered
<1>3. \A p \in net' : PacketOK(p)'
  BY DEF Inv, PacketOK, Named
<1>4. ASSUME NEW id \in DOMAIN sessions'
      PROVE  SessionOK(id)'
  <2>1. SessionOK(id)
    BY DEF Inv
  <2> QED  BY <2>1 DEF SessionOK
<1>5. ASSUME NEW c \in Consoles
      PROVE  Spent(c)'
  <2> SUFFICES ASSUME console[c].random # 0, Closed(c)'
               PROVE  \A i \in DOMAIN sessions' : /\ sessions[i].key # console[c].key
                                                  /\ sessions[i].random # console[c].random
    BY DEF Spent
  <2>1. CASE Closed(c)
    BY <2>1 DEF Inv, Spent
  <2>2. CASE ~Closed(c)
    <3>1. PICK p \in net' : p.type = "response" /\ p.key = console[c].key /\ p \notin net
      BY <2>2 DEF Closed
    <3>2. p.rc \in Consoles /\ console[p.rc].random # 0 /\ p.key = console[p.rc].key
      BY <3>1 DEF PacketOK
    <3>3. p.rc = c
      BY <3>1, <3>2, KeysDiffer, Zenon DEF Inv
    <3> QED  BY <3>1, <3>3
  <2> QED  BY <2>1, <2>2, Zenon
<1> QED  BY <1>1, <1>2, <1>3, <1>4, <1>5 DEF Inv

\* What handle leaves of the sessions.
LEMMA HandleLeaves ==
  ASSUME NEW p, sessions' = handle(p)
  PROVE  /\ DOMAIN sessions' \subseteq DOMAIN sessions
         /\ \A id \in DOMAIN sessions' : sessions'[id] = sessions[id]
         /\ \A id \in DOMAIN sessions : id \in DOMAIN sessions' \/ (p.cmd = "CloseSession" /\ p.closes = id)
         /\ p.cmd = "CloseSession" => p.closes \notin DOMAIN sessions'
<1>1. CASE p.cmd = "CloseSession"
  BY <1>1 DEF handle, removeRMCPPlusSession
<1>2. CASE p.cmd # "CloseSession"
  BY <1>2 DEF handle
<1> QED  BY <1>1, <1>2

\* handlePlainRequest closes a session or leaves them all.
LEMMA PlainKeeps ==
  ASSUME Inv, NEW p \in net, handlePlainRequest(p)
  PROVE  Inv'
<1>1. Counts /\ UNCHANGED <<draws, console>>
  BY Zenon DEF Inv, TypeOK, Counts, handlePlainRequest
<1>2. \A q \in net' : q \in net \/ q.type = "plainResponse"
  BY DEF handlePlainRequest, Exchange
<1>3. /\ DOMAIN sessions' \subseteq DOMAIN sessions
      /\ \A id \in DOMAIN sessions' : sessions'[id] = sessions[id]
  BY HandleLeaves DEF handlePlainRequest
<1> QED  BY <1>1, <1>2, <1>3, FewerSessions

\* handleEncryptedRequest: the session that is closed is the only one with its
\* console's key or random number.
LEMMA CommandKeeps ==
  ASSUME Inv, NEW p \in net, handleEncryptedRequest(p)
  PROVE  Inv'
<1>1. CASE Ignore(p) \/ Panic(p)
  BY <1>1, NoSession
<1>2. CASE /\ p.id \in DOMAIN sessions
           /\ ~mustPanic(p, sessions[p.id])
           /\ p.key = sessions[p.id].key
           /\ sessions' = handle(p)
           /\ Exchange(p, {[type |-> "response", at |-> p.at, rc |-> sessions[p.id].rc,
                            key |-> sessions[p.id].key, cmd |-> p.cmd]})
           /\ UNCHANGED <<draws, panicked, console, issued, restarts>>
  <2> DEFINE s == sessions[p.id]
             q == [type |-> "response", at |-> p.at, rc |-> s.rc, key |-> s.key, cmd |-> p.cmd]
  <2>1. \A r \in net' : r \in net \/ r = q
    BY <1>2 DEF Exchange
  <2>2. s.key # NoKey
    BY <1>2 DEF mustPanic
  <2>3. s.rc \in Consoles /\ p.at \in Consoles /\ p.closes = p.id
    BY <1>2, Zenon DEF Inv, TypeOK, PacketOK, handleEncryptedRequest
  <2>4. console[s.rc].random # 0 /\ s.key = console[s.rc].key /\ p.id = console[s.rc].id
    BY <1>2, <2>2, Zenon DEF Inv, SessionOK
  <2>5. PacketOK(q)
    BY <2>3, <2>4, Zenon DEF PacketOK
  <2>6. Counts
    BY <1>2 DEF Inv, TypeOK, Counts
  <2>7. CASE p.cmd # "CloseSession"
    <3>1. UNCHANGED <<sessions, draws, console>>
      BY <1>2, <2>7 DEF handle
    <3> QED  BY <3>1, <2>1, <2>5, <2>6, <2>7, FrameKeeps
  <2>8. CASE p.cmd = "CloseSession"
    <3>1. /\ DOMAIN sessions' = DOMAIN sessions \ {p.id}
          /\ \A id \in DOMAIN sessions' : sessions'[id] = sessions[id]
      BY <1>2, <2>3, <2>8 DEF handle, removeRMCPPlusSession
    <3>2. ASSUME NEW id \in DOMAIN sessions, id # p.id
          PROVE  sessions[id].key # s.key /\ sessions[id].random # console[s.rc].random
      <4>1. SessionOK(id) /\ sessions[id].rc \in Consoles
        BY DEF Inv, TypeOK
      <4>2. sessions[id].random # console[s.rc].random
        BY <3>2, <4>1, <2>3, <2>4 DEF SessionOK
      <4>3. ASSUME sessions[id].key = s.key
            PROVE  FALSE
        <5>1. /\ console[sessions[id].rc].random # 0
              /\ s.key = console[sessions[id].rc].key
              /\ id = console[sessions[id].rc].id
          BY <4>1, <4>3, <2>2 DEF SessionOK
        <5>2. sessions[id].rc = s.rc
          BY <5>1, <4>1, <2>3, <2>4, KeysDiffer, Zenon DEF Inv
        <5> QED  BY <3>2, <5>1, <5>2, <2>4
      <4> QED  BY <4>2, <4>3
    <3>3. UNCHANGED <<draws, console>>
      BY <1>2
    <3> QED  BY <3>1, <3>2, <3>3, <2>1, <2>5, <2>6, FewerSessions
  <2> QED  BY <2>7, <2>8
<1> QED  BY <1>1, <1>2 DEF handleEncryptedRequest

\* StartIPMIServer: no session is left, and the datagrams stay under way.
LEMMA RestartKeeps == ASSUME Inv, StartIPMIServer PROVE Inv'
<1>1. DOMAIN sessions' = {}
  BY NoDomain DEF StartIPMIServer
<1>2. Counts
  <2>1. restarts' \in 0..MaxRestarts
    BY RMCPAssumption DEF Inv, TypeOK, StartIPMIServer
  <2> QED  BY <2>1, Zenon DEF Inv, TypeOK, Counts, StartIPMIServer
<1>3. UNCHANGED <<net, draws, console>>
  BY DEF StartIPMIServer
<1> QED  BY <1>1, <1>2, <1>3, FewerSessions

-----------------------------------------------------------------------------
(* The consoles' steps.                                                    *)

States == {"idle", "capabilities", "open", "rakp1", "rakp3", "active", "closed", "failed"}

\* A console that moves on with the random number and the key it has.
LEMMA ConsoleKeeps ==
  ASSUME Inv, NEW c \in Consoles, NEW new,
         UNCHANGED <<sessions, draws, panicked, issued, restarts>>,
         console' = [console EXCEPT ![c] = new],
         new \in [state : States, id : Ids \cup {"none"}, random : {console[c].random},
                  key : {console[c].key}, waiting : Commands \cup {"none"}],
         new.state \in {"idle", "capabilities", "open", "rakp1"} => console[c].random = 0,
         new.state \in {"rakp3", "active", "closed"} => console[c].random # 0,
         new.id # console[c].id => console[c].random = 0 /\ ~Named(c),
         Named(c) => new.state \notin {"idle", "capabilities", "open"},
         new.state = "closed" => Closed(c),
         \A p \in net' : \/ p \in net
                         \/ PacketOK(p) /\ p.type \notin {"rakp1", "rakp2", "rakp3", "response"}
                         \/ /\ p.type = "rakp1" /\ p.at = c /\ p.rcRandom = c
                            /\ p.id = new.id /\ new.state = "rakp1"
  PROVE  Inv'
<1>1. console'[c] = new /\ \A d \in Consoles : d # c => console'[d] = console[d]
  BY DEF Inv, TypeOK
<1>2. \A d \in Consoles : /\ console'[d].random = console[d].random
                          /\ console'[d].key = console[d].key
                          /\ console[d].random # 0 => console'[d].id = console[d].id
  BY <1>1
<1>3. TypeOK'
  <2>1. new \in [state : States, id : Ids \cup {"none"}, random : 0..MaxDraws, key : Keys,
                 waiting : Commands \cup {"none"}]
    BY DEF Inv, TypeOK
  <2> QED  BY <2>1 DEF Inv, TypeOK, States
<1>4. ASSUME NEW d \in Consoles
      PROVE  Answered(d)'
  <2>1. Answered(d)
    BY DEF Inv
  <2>2. CASE d = c
    BY <2>1, <2>2, <1>1 DEF Answered, States
  <2>3. CASE d # c
    BY <2>1, <2>3, <1>1 DEF Answered
  <2> QED  BY <2>2, <2>3
<1>5. ASSUME NEW p \in net'
      PROVE  PacketOK(p)'
  <2>2. CASE p \in net
    BY <2>2, <1>1, <1>2 DEF Inv, PacketOK, Named
  <2>3. CASE p \notin net
    BY <2>3, <1>1, <1>2 DEF PacketOK, Named
  <2> QED  BY <2>2, <2>3
<1>6. ASSUME NEW id \in DOMAIN sessions
      PROVE  SessionOK(id)'
  <2>1. SessionOK(id) /\ sessions[id].rc \in Consoles
    BY Zenon DEF Inv, TypeOK
  <2> QED  BY <2>1, <1>2 DEF SessionOK
<1>7. ASSUME NEW d \in Consoles
      PROVE  Spent(d)'
  <2>1. Closed(d)' => Closed(d)
    BY <1>1, <1>2 DEF Closed
  <2> QED  BY <2>1, <1>2 DEF Inv, Spent
<1> QED  BY <1>3, <1>4, <1>5, <1>6, <1>7 DEF Inv


\* SendRAKP3: the code of the RAKP message 2 says that a session with its
\* random number is the console's own.
LEMMA AnswerKeeps ==
  ASSUME Inv, NEW c \in Consoles, NEW p \in net, p.at = c, SendRAKP3(c, p)
  PROVE  Inv'
<1> DEFINE key == generateSessionIntegrityKey(Password[c], c, p.random, UserName[c])
           answer == [type |-> "rakp3", at |-> c, id |-> console[c].id,
                      code |-> exchangeCode(Password[c], p.random, c, UserName[c])]
<1>1. CASE Receive(c, p, [console[c] EXCEPT !.state = "failed"], {})
  <2> DEFINE new == [console[c] EXCEPT !.state = "failed"]
  <2>1. /\ new \in [state : States, id : Ids \cup {"none"}, random : {console[c].random},
                    key : {console[c].key}, waiting : Commands \cup {"none"}]
        /\ new.state = "failed" /\ new.id = console[c].id
    BY DEF Inv, TypeOK, States
  <2>2. /\ console' = [console EXCEPT ![c] = new]
        /\ UNCHANGED <<sessions, draws, panicked, issued, restarts>>
        /\ \A r \in net' : r \in net
    BY <1>1 DEF Receive, Exchange
  <2> HIDE DEF new
  <2> QED  BY <2>1, <2>2, ConsoleKeeps, Zenon
<1>2. CASE Receive(c, p, [console[c] EXCEPT !.state = "rakp3", !.random = p.random, !.key = key],
                   {answer})
  <2> DEFINE new == [console[c] EXCEPT !.state = "rakp3", !.random = p.random, !.key = key]
             q   == answer
  <2>1. console[c].state = "rakp1" /\ p.type = "rakp2" /\ p.rc = c
    BY DEF SendRAKP3
  <2>2. /\ console' = [console EXCEPT ![c] = new]
        /\ UNCHANGED <<sessions, draws, panicked, issued, restarts>>
        /\ \A r \in net' : r \in net \/ r = q
    BY <1>2 DEF Receive, Exchange
  <2>3. console[c].random = 0
    BY <2>1, Zenon DEF Inv, Answered
  <2>4. p.random \in 1..draws /\ p.random \in 1..MaxDraws
    <3>1. PacketOK(p) /\ draws \in 0..MaxDraws
      BY <2>1, Zenon DEF Inv, TypeOK
    <3>2. p.random \in 1..draws
      BY <2>1, <3>1, Zenon DEF PacketOK
    <3> QED  BY <3>1, <3>2, RMCPAssumption
  <2>5. /\ console[c] \in [state : States, id : Ids \cup {"none"}, random : 0..MaxDraws,
                           key : Keys, waiting : Commands \cup {"none"}]
        /\ console'[c] = new /\ \A d \in Consoles : d # c => console'[d] = console[d]
    BY <2>2 DEF Inv, TypeOK, States
  <2>6. /\ console'[c].state = "rakp3" /\ console'[c].random = p.random
        /\ console'[c].key = key /\ console'[c].id = console[c].id
    BY <2>5
  <2>7. key \in Keys
    BY <2>4, RMCPAssumption DEF Keys
  <2>8. TypeOK'
    <3>1. new \in [state : States, id : Ids \cup {"none"}, random : 0..MaxDraws,
                   key : Keys, waiting : Commands \cup {"none"}]
      <4>1. p.random \in 0..MaxDraws /\ "rakp3" \in States
        BY <2>4 DEF States
      <4> HIDE DEF key
      <4> QED  BY <4>1, <2>5, <2>7, Zenon
    <3> HIDE DEF new
    <3> QED  BY <3>1, <2>2, Zenon DEF Inv, TypeOK, States
  <2>9. ASSUME NEW d \in Consoles
        PROVE  Answered(d)'
    <3>1. CASE d = c
      BY <3>1, <2>2, <2>4, <2>6 DEF Answered
    <3>2. CASE d # c
      BY <3>2, <2>2, <2>5 DEF Inv, Answered
    <3> QED  BY <3>1, <3>2
  <2>10. ASSUME NEW r \in net'
         PROVE  PacketOK(r)'
    <3>1. CASE r = q
      BY <3>1, <2>4, <2>6 DEF PacketOK
    <3>2. CASE r \in net
      <4>1. PacketOK(r)
        BY <3>2 DEF Inv
      <4> QED  BY <4>1, <2>2, <2>3, <2>5 DEF PacketOK, Named
    <3> QED  BY <3>1, <3>2, <2>2
  <2>11. ASSUME NEW id \in DOMAIN sessions
         PROVE  SessionOK(id)'
    <3> DEFINE s == sessions[id]
    <3>1. SessionOK(id) /\ s.rc \in Consoles
      BY DEF Inv, TypeOK
    <3>2. s.random = p.random => s.rc = c /\ s.rcRandom = c /\ id = console[c].id
      <4> SUFFICES ASSUME s.random = p.random
                   PROVE  s.rc = c /\ s.rcRandom = c /\ id = console[c].id
        OBVIOUS
      <4>1. generateAuthCode("cybozu", s.rc, id, s.rcRandom, s.random, "cybozu")
              = generateAuthCode("cybozu", c, console[c].id, c, p.random, "cybozu")
        <5>1. PacketOK(p) /\ p.code = generateAuthCode("cybozu", s.rc, id, s.rcRandom, s.random, "cybozu")
          BY <2>1, <3>1, Zenon DEF SessionOK, Inv
        <5> QED  BY <5>1, <2>1, Zenon DEF PacketOK
      <4> HIDE DEF s
      <4> QED  BY <4>1, CodeInjective
    <3>3. s.key # NoKey => s.rc # c
      BY <3>1, <2>3 DEF SessionOK
    <3>4. ASSUME NEW d \in Consoles, s.random # 0, console'[d].random = s.random
          PROVE  s.rc = d /\ s.rcRandom = d /\ id = console'[d].id
      <4>1. CASE d = c
        BY <4>1, <3>2, <3>4, <2>6
      <4>2. CASE d # c
        BY <4>2, <3>1, <3>4, <2>5 DEF SessionOK
      <4> QED  BY <4>1, <4>2
    <3>5. s.key # NoKey => /\ Good(s.rc)
                           /\ console'[s.rc].random # 0
                           /\ s.key = console'[s.rc].key
                           /\ id = console'[s.rc].id
      BY <3>1, <3>3, <2>5 DEF SessionOK
    <3>6. \A r \in net' : r.type = "rakp2" => r \in net
      BY <2>2
    <3> QED  BY <3>1, <3>4, <3>5, <3>6, <2>2 DEF SessionOK
  <2>12. ASSUME NEW d \in Consoles
         PROVE  Spent(d)'
    <3>1. CASE d = c
      <4>1. ASSUME NEW r \in net, r.type = "response"
            PROVE  r.key # key
        <5>1. r.rc \in Consoles /\ console[r.rc].random # 0 /\ r.key = console[r.rc].key
          BY <4>1, Zenon DEF Inv, PacketOK
        <5>2. r.rc # c
          BY <5>1, <2>3
        <5> QED  BY <5>1, <5>2, KeyInjective DEF Inv, Answered
      <4> HIDE DEF key
      <4> QED  BY <3>1, <4>1, <2>2, <2>6 DEF Spent, Closed
    <3>2. CASE d # c
      <4>1. Closed(d)' => Closed(d)
        BY <3>2, <2>2, <2>5 DEF Closed
      <4> QED  BY <3>2, <4>1, <2>2, <2>5 DEF Inv, Spent
    <3> QED  BY <3>1, <3>2
  <2> QED  BY <2>2, <2>8, <2>9, <2>10, <2>11, <2>12 DEF Inv
<1> QED  BY <1>1, <1>2, Zenon DEF SendRAKP3


\* The console's other steps.
LEMMA OtherStepsKeep ==
  ASSUME Inv, NEW c \in Consoles,
         \/ AskCapabilities(c)
         \/ \E p \in net : Open(c, p) \/ SendRAKP1(c, p) \/ Activate(c, p) \/ GetResponse(c, p)
         \/ Timeout(c)
         \/ \E cmd \in Asked : SendCommand(c, cmd)
  PROVE  Inv'
<1> DEFINE Moves == [state : States, id : Ids \cup {"none"}, random : {console[c].random},
                     key : {console[c].key}, waiting : Commands \cup {"none"}]
           old == console[c]
<1>1. old \in Moves /\ old.state \in States
  BY DEF Inv, TypeOK, States
<1>2. Answered(c)
  BY DEF Inv
<1> USE DEF Named
<1>3. CASE AskCapabilities(c)
  <2> DEFINE new == [old EXCEPT !.state = "capabilities"]
             q   == [type |-> "plain", at |-> c, cmd |-> "GetChannelAuthCapabilities",
                     closes |-> "none"]
  <2>1. new \in Moves /\ new.state = "capabilities" /\ new.id = old.id /\ old.random = 0
    BY <1>1, <1>2, <1>3 DEF States, AskCapabilities, Answered
  <2>2. /\ console' = [console EXCEPT ![c] = new]
        /\ UNCHANGED <<sessions, draws, panicked, issued, restarts>>
        /\ \A r \in net' : r \in net \/ r = q
    BY <1>3 DEF AskCapabilities, Send
  <2>3. PacketOK(q) /\ q.type = "plain"
    BY DEF PacketOK
  <2>4. ~Named(c)
    BY <1>3 DEF AskCapabilities
  <2> HIDE DEF new, q, Named
  <2> QED  BY <2>1, <2>2, <2>3, <2>4, ConsoleKeeps, Zenon
<1>4. ASSUME NEW p \in net, Open(c, p)
      PROVE  Inv'
  <2> DEFINE new == [old EXCEPT !.state = "open"]
             q   == [type |-> "open", at |-> c, rc |-> c]
  <2>1. new \in Moves /\ new.state = "open" /\ new.id = old.id /\ old.random = 0
    BY <1>1, <1>2, <1>4 DEF States, Open, Answered
  <2>2. /\ console' = [console EXCEPT ![c] = new]
        /\ UNCHANGED <<sessions, draws, panicked, issued, restarts>>
        /\ \A r \in net' : r \in net \/ r = q
    BY <1>4 DEF Open, Receive, Exchange
  <2>3. PacketOK(q) /\ q.type = "open"
    BY DEF PacketOK
  <2>4. ~Named(c)
    BY <1>4 DEF Open
  <2> HIDE DEF new, q, Named
  <2> QED  BY <2>1, <2>2, <2>3, <2>4, ConsoleKeeps, Zenon
<1>5. ASSUME NEW p \in net, SendRAKP1(c, p)
      PROVE  Inv'
  <2> DEFINE new == [old EXCEPT !.state = "rakp1", !.id = p.id]
             q   == [type |-> "rakp1", at |-> c, id |-> p.id, rcRandom |-> c,
                     user |-> UserName[c]]
  <2>1. p.id \in Ids /\ old.random = 0
    BY <1>2, <1>5, Zenon DEF SendRAKP1, Answered, Inv, PacketOK
  <2>2. new \in Moves /\ new.state = "rakp1"
    BY <1>1, <2>1, Zenon DEF States
  <2>3. /\ console' = [console EXCEPT ![c] = new]
        /\ UNCHANGED <<sessions, draws, panicked, issued, restarts>>
        /\ \A r \in net' : r \in net \/ r = q
    BY <1>5, Zenon DEF SendRAKP1, Receive, Exchange
  <2>4. ~Named(c)
    BY <1>5 DEF SendRAKP1
  <2>5. q.type = "rakp1" /\ q.at = c /\ q.rcRandom = c /\ q.id = new.id
    BY <1>1
  <2> HIDE DEF new, q, Named
  <2>6. \A r \in net' : \/ r \in net
                        \/ PacketOK(r) /\ r.type \notin {"rakp1", "rakp2", "rakp3", "response"}
                        \/ /\ r.type = "rakp1" /\ r.at = c /\ r.rcRandom = c
                           /\ r.id = new.id /\ new.state = "rakp1"
    BY <2>2, <2>3, <2>5, Zenon
  <2>7. /\ new.state \in {"idle", "capabilities", "open", "rakp1"} => console[c].random = 0
        /\ new.state \in {"rakp3", "active", "closed"} => console[c].random # 0
        /\ new.id # console[c].id => console[c].random = 0 /\ ~Named(c)
        /\ Named(c) => new.state \notin {"idle", "capabilities", "open"}
        /\ new.state = "closed" => Closed(c)
    BY <2>1, <2>2, <2>4
  <2> QED  BY <2>2, <2>3, <2>6, <2>7, ConsoleKeeps, Zenon
<1>6. ASSUME NEW p \in net, Activate(c, p)
      PROVE  Inv'
  <2>1. PICK to \in {"active", "failed"} :
          /\ console' = [console EXCEPT ![c] = [old EXCEPT !.state = to]]
          /\ UNCHANGED <<sessions, draws, panicked, issued, restarts>>
          /\ \A r \in net' : r \in net
    BY <1>6, Zenon DEF Activate, Receive, Exchange
  <2> DEFINE new == [old EXCEPT !.state = to]
  <2>2. new \in Moves /\ new.state = to /\ new.id = old.id /\ old.random # 0
    BY <1>1, <1>2, <1>6 DEF States, Activate, Answered
  <2> HIDE DEF new
  <2> QED  BY <2>1, <2>2, ConsoleKeeps, Zenon DEF new
<1>7. ASSUME NEW p \in net, GetResponse(c, p)
      PROVE  Inv'
  <2>1. PICK to \in {"active", "closed"} :
          /\ console' = [console EXCEPT ![c] = [old EXCEPT !.waiting = "none", !.state = to]]
          /\ UNCHANGED <<sessions, draws, panicked, issued, restarts>>
          /\ \A r \in net' : r \in net
          /\ to = "closed" => p.cmd = "CloseSession"
    BY <1>7, Zenon DEF GetResponse, Receive, Exchange
  <2> DEFINE new == [old EXCEPT !.waiting = "none", !.state = to]
  <2>2. new \in Moves /\ new.state = to /\ new.id = old.id
    BY <1>1, Zenon DEF States
  <2>3. old.random # 0 /\ (to = "closed" => Closed(c))
    BY <1>2, <1>7, <2>1, Zenon DEF GetResponse, Answered, Closed
  <2> HIDE DEF new
  <2> QED  BY <2>1, <2>2, <2>3, ConsoleKeeps, Zenon DEF new
<1>8. CASE Timeout(c)
  <2>1. PICK to \in {"failed", old.state} :
          /\ console' = [console EXCEPT ![c] = [old EXCEPT !.waiting = "none", !.state = to]]
          /\ UNCHANGED <<sessions, draws, panicked, issued, restarts>>
          /\ \A r \in net' : r \in net
    <3>1. [old EXCEPT !.waiting = "none"] = [old EXCEPT !.waiting = "none", !.state = old.state]
      BY <1>1, Zenon
    <3> QED  BY <1>8, <3>1, Zenon DEF Timeout, Send
  <2> DEFINE new == [old EXCEPT !.waiting = "none", !.state = to]
  <2>2. new \in Moves /\ new.state = to /\ new.id = old.id
    BY <1>1, Zenon DEF States
  <2>3. /\ to \in {"idle", "capabilities", "open", "rakp1"} => old.random = 0
        /\ to \in {"rakp3", "active", "closed"} => old.random # 0
        /\ to = "closed" => Closed(c)
    BY <1>2 DEF Answered, Closed
  <2> HIDE DEF new
  <2> QED  BY <2>1, <2>2, <2>3, ConsoleKeeps, Zenon DEF new
<1>9. ASSUME NEW cmd \in Asked, SendCommand(c, cmd)
      PROVE  Inv'
  <2> DEFINE new == [old EXCEPT !.waiting = cmd]
             q   == [type |-> "command", at |-> c, id |-> old.id, key |-> old.key,
                     cmd |-> cmd, closes |-> old.id]
  <2>1. new \in Moves /\ new.state = "active" /\ new.id = old.id /\ old.random # 0
    BY <1>1, <1>2, <1>9, RMCPAssumption DEF States, SendCommand, Answered
  <2>2. /\ console' = [console EXCEPT ![c] = new]
        /\ UNCHANGED <<sessions, draws, panicked, issued, restarts>>
        /\ \A r \in net' : r \in net \/ r = q
    BY <1>9 DEF SendCommand, Send
  <2>3. PacketOK(q) /\ q.type = "command"
    BY <2>1 DEF PacketOK
  <2> HIDE DEF new, q
  <2> QED  BY <2>1, <2>2, <2>3, ConsoleKeeps, Zenon
<1> QED  BY <1>3, <1>4, <1>5, <1>6, <1>7, <1>8, <1>9

-----------------------------------------------------------------------------
(* The session of an active console.                                       *)

\* An unreliable network loses nothing that it may deliver again.
Kept == ~Reliable => net \subseteq net'

\* A step of the BMC that keeps the sessions' consoles and keys.
LEMMA SessionsLast ==
  ASSUME Inv, Inv2, Kept, UNCHANGED <<console, restarts>>,
         issued \subseteq issued', DOMAIN sessions' \subseteq issued',
         DOMAIN sessions \subseteq DOMAIN sessions',
         \A id \in DOMAIN sessions : /\ sessions'[id].rc = sessions[id].rc
                                     /\ sessions'[id].key = sessions[id].key,
         \A id \in DOMAIN sessions' : \/ id \in DOMAIN sessions \/ id \in Reusable
                                      \/ id \notin issued,
         \A p \in net' : p \in net \/ p.type \notin {"rakp4", "command"}
  PROVE  Inv2'
<1>1. ASSUME NEW c \in Consoles
      PROVE  Lasting(c)'
  <2>1. Lasting(c)
    BY DEF Inv2
  <2>2. (Accepted(c)' => Accepted(c)) /\ (Held(c) => Held(c)')
    BY DEF Accepted, Held
  <2>3. Counting(c)' => Counting(c)
    BY <2>2 DEF Counting, Closing, Kept
  <2> QED  BY <2>1, <2>2, <2>3 DEF Lasting
<1> QED  BY <1>1 DEF Inv2

\* A command that is run takes away the session it closes, and no other.
LEMMA HandleLasts ==
  ASSUME Inv, Inv2, Kept, UNCHANGED <<console, issued, restarts>>,
         NEW p \in net, p.type \in {"plain", "command"}, sessions' = handle(p),
         \A q \in net' : q \in net \/ q.type \notin {"rakp4", "command"}
  PROVE  Inv2'
<1>1. /\ DOMAIN sessions' \subseteq DOMAIN sessions
      /\ \A id \in DOMAIN sessions' : sessions'[id] = sessions[id]
      /\ \A id \in DOMAIN sessions : id \in DOMAIN sessions' \/ (p.cmd = "CloseSession" /\ p.closes = id)
  BY HandleLeaves
<1>2. ASSUME NEW c \in Consoles
      PROVE  Lasting(c)'
  <2>1. Lasting(c)
    BY DEF Inv2
  <2>2. Accepted(c)' => Accepted(c)
    BY DEF Accepted
  <2>3. Counting(c)' => Counting(c)
    BY <2>2 DEF Counting, Closing, Kept
  <2>4. Held(c) /\ console[c].id \in DOMAIN sessions' => Held(c)'
    BY <1>1 DEF Held
  <2>5. Counting(c)' => console[c].id \in DOMAIN sessions'
    BY <1>1, <2>1, <2>3 DEF Counting, Closing, Kept, Lasting, Held
  <2> QED  BY <1>1, <2>1, <2>2, <2>3, <2>4, <2>5 DEF Lasting
<1> QED  BY <1>1, <1>2 DEF Inv2

\* SendPlain asks for more to be closed.
LEMMA PlainLasts ==
  ASSUME Inv, Inv2, NEW cmd, SendPlain(cmd)
  PROVE  Inv2'
<1>1. Kept /\ \A p \in net' : p \in net \/ p.type = "plain"
  BY DEF SendPlain, Kept
<1>2. UNCHANGED <<sessions, console, issued, restarts>>
  BY DEF SendPlain
<1> QED  BY <1>1, <1>2, SessionsLast DEF Inv2

\* handleRAKPMessage3Request: the session accepted is that of its console.
LEMMA RAKP3Lasts ==
  ASSUME Inv, Inv2, NEW p \in net, handleRAKPMessage3Request(p)
  PROVE  Inv2'
<1>1. CASE Ignore(p)
  BY <1>1, SessionsLast DEF Ignore, Exchange, Kept, Inv2
<1>2. CASE /\ p.id \in DOMAIN sessions
           /\ UserFound(sessions[p.id])
           /\ validateAuthCode(p.code, sessions[p.id])
  <2> DEFINE c == p.at
  <2>1. c \in Consoles /\ console[c].random # 0 /\ p.id = console[c].id /\ sessions[p.id].rc = c
    BY <1>2, ValidIsOwn DEF handleRAKPMessage3Request
  <2>2. /\ sessions' = [sessions EXCEPT ![p.id].key = console[c].key]
        /\ UNCHANGED <<draws, panicked, console, issued, restarts>>
    BY <1>2, ValidIsOwn DEF handleRAKPMessage3Request
  <2>3. \A r \in net' : r \in net \/ (r.type = "rakp4" /\ r.rc = c)
    <3>1. PICK k : net' \subseteq net \cup {[type |-> "rakp4", at |-> c, rc |-> sessions[p.id].rc, check |-> k]}
      BY <1>2 DEF handleRAKPMessage3Request, Exchange
    <3> QED  BY <2>1, <3>1
  <2>4. sessions[p.id] \in [rc : Consoles, rcRandom : Consoles \cup {"none"}, random : 0..MaxDraws,
                            user : {"none", "cybozu"}, key : Keys]
    BY <1>2 DEF Inv, TypeOK
  <2>5. /\ DOMAIN sessions' = DOMAIN sessions
        /\ sessions'[p.id].rc = c /\ sessions'[p.id].key = console[c].key
        /\ \A id \in DOMAIN sessions : id # p.id => sessions'[id] = sessions[id]
    BY <1>2, <2>1, <2>2, <2>4
  <2>7. Kept
    BY <1>2 DEF handleRAKPMessage3Request, Exchange, Kept
  <2> HIDE DEF c
  <2>6. ASSUME NEW d \in Consoles
        PROVE  Lasting(d)'
    <3>1. Lasting(d)
      BY DEF Inv2
    <3>2. CASE d = c
      <4>1. Held(d)' /\ console[d].id \in issued
        BY <3>2, <1>2, <2>1, <2>2, <2>5 DEF Held, Inv2
      <4> QED  BY <4>1, <3>1, <3>2, <2>1, <2>2, <2>3 DEF Lasting
    <3>3. CASE d # c
      <4>3. Accepted(d)' => Accepted(d)
        BY <3>3, <2>2, <2>3 DEF Accepted
      <4>1. (Accepted(d)' => Accepted(d)) /\ (Counting(d)' => Counting(d))
        BY <4>3, <2>2, <2>7 DEF Counting, Closing, Kept
      <4>2. Held(d) => Held(d)'
        BY <3>3, <2>1, <2>2, <2>5 DEF Held
      <4> QED  BY <4>1, <4>2, <3>1, <2>2, <2>3, <2>5 DEF Lasting
    <3> QED  BY <3>2, <3>3
  <2> QED  BY <2>2, <2>5, <2>6 DEF Inv2
<1> QED  BY <1>1, <1>2 DEF handleRAKPMessage3Request

\* ResponseLength: no other response is longer than a block.
LEMMA ResponseFits ==
  \A cmd : encryptPanics(ResponseLength(cmd)) => cmd = "GetChannelAuthCapabilities"
<1>1. \A cmd : cmd = "GetChannelAuthCapabilities" \/ ResponseLength(cmd) \in {8, 9, 12}
  BY DEF ResponseLength
<1>2. ~encryptPanics(8) /\ ~encryptPanics(9) /\ ~encryptPanics(12)
  BY DEF encryptPanics, BlockSize
<1> QED  BY <1>1, <1>2

\* handleEncryptedRequest closes a session, or leaves them all.
LEMMA CommandLasts ==
  ASSUME Inv, Inv2, NEW p \in net, handleEncryptedRequest(p)
  PROVE  Inv2'
<1>1. CASE Ignore(p) \/ Panic(p)
  <2>1. Kept /\ \A r \in net' : r \in net
    BY <1>1 DEF Ignore, Panic, Exchange, Kept
  <2>2. UNCHANGED <<sessions, console, issued, restarts>>
    BY <1>1 DEF Ignore, Panic
  <2> QED  BY <2>1, <2>2, SessionsLast DEF Inv2
<1>2. CASE /\ sessions' = handle(p)
           /\ Exchange(p, {[type |-> "response", at |-> p.at, rc |-> sessions[p.id].rc,
                            key |-> sessions[p.id].key, cmd |-> p.cmd]})
           /\ UNCHANGED <<draws, panicked, console, issued, restarts>>
  <2>1. Kept /\ \A r \in net' : r \in net \/ r.type = "response"
    BY <1>2 DEF Exchange, Kept
  <2>2. p.type = "command"
    BY DEF handleEncryptedRequest
  <2> QED  BY <1>2, <2>1, <2>2, HandleLasts
<1> QED  BY <1>1, <1>2, Zenon DEF handleEncryptedRequest

\* handleEncryptedRequest panics on a capabilities request, or in a session that
\* has an ID drawn again: a command in its own session finds its key there.
LEMMA WhyPanic ==
  ASSUME Inv, Inv2, NEW p \in net, handleEncryptedRequest(p), panicked' # panicked,
         p.id \notin Reusable
  PROVE  Runs(p) /\ p.cmd = "GetChannelAuthCapabilities"
<1> DEFINE s == sessions[p.id]
           c == p.at
<1>1. /\ p.type = "command" /\ c \in Consoles /\ console[c].random # 0
      /\ p.key = console[c].key /\ p.id = console[c].id
  BY Zenon DEF Inv, PacketOK, handleEncryptedRequest
<1>2. Lasting(c) /\ Accepted(c)
  BY <1>1 DEF Inv2, Accepted
<1>3. p.id \in DOMAIN sessions /\ UserFound(s) /\ (mustPanic(p, s) \/ p.key # s.key)
  BY Zenon DEF handleEncryptedRequest, Ignore
<1>4. s.key = p.key
  BY <1>1, <1>2, <1>3, Zenon DEF Lasting, Held
<1>5. s.key # NoKey
  BY <1>1, <1>4, KeysDiffer, Zenon DEF Inv
<1>6. p.cmd # "unsupported" /\ p.cmd = "GetChannelAuthCapabilities"
  BY <1>3, <1>4, <1>5, ResponseFits, Zenon DEF mustPanic
<1> QED  BY <1>1, <1>3, <1>4, <1>5, <1>6, Zenon DEF Runs

\* A step of console c: what it has computed stays, it becomes active only when
\* the BMC has accepted it, and sends commands only then.
MovesOn(c, new) ==
  /\ Kept
  /\ UNCHANGED <<sessions, issued, restarts>>
  /\ console' = [console EXCEPT ![c] = new]
  /\ console[c].random # 0 => /\ new.random = console[c].random
                              /\ new.id = console[c].id /\ new.key = console[c].key
  /\ new.state = "active" => Accepted(c)
  /\ \A p \in net' : \/ p \in net
                     \/ p.type = "command" /\ p.at = c /\ Accepted(c)
                     \/ p.type \notin {"rakp4", "command"}

LEMMA ConsoleLasts ==
  ASSUME Inv, Inv2, NEW c \in Consoles, NEW new, MovesOn(c, new)
  PROVE  Inv2'
<1> USE DEF MovesOn
<1>1. console'[c] = new /\ \A d \in Consoles : d # c => console'[d] = console[d]
  BY DEF Inv, TypeOK
<1>2. ASSUME NEW d \in Consoles
      PROVE  Lasting(d)'
  <2>1. Lasting(d)
    BY DEF Inv2
  <2>2. Accepted(d)' => Accepted(d) /\ console[d].random # 0
    <3>1. CASE d = c
      BY <2>1, <3>1, <1>1, Zenon DEF Accepted, Lasting
    <3>2. CASE d # c
      BY <2>1, <3>2, <1>1, Zenon DEF Accepted, Lasting
    <3> QED  BY <3>1, <3>2
  <2>3. console[d].random # 0 => /\ console'[d].random = console[d].random
                                 /\ console'[d].id = console[d].id
                                 /\ console'[d].key = console[d].key
    BY <1>1
  <2>4. Counting(d)' => Counting(d)
    BY <2>2, <2>3 DEF Counting, Closing, Kept
  <2>5. console[d].random # 0 => (Held(d) => Held(d)')
    BY <2>3 DEF Held
  <2>6. Counting(d)' => Accepted(d)'
    BY DEF Counting
  <2>7. sessions' = sessions /\ issued' = issued
    OBVIOUS
  <2> HIDE DEF MovesOn
  <2> QED  BY <2>1, <2>2, <2>3, <2>4, <2>5, <2>6, <2>7 DEF Lasting
<1> QED  BY <1>2 DEF Inv2

LEMMA ConsoleStepsLast ==
  ASSUME Inv, Inv2, NEW c \in Consoles,
         ConsoleStep(c) \/ \E cmd \in Asked : SendCommand(c, cmd)
  PROVE  Inv2'
<1> DEFINE old == console[c]
<1>1. old \in [state : States, id : Ids \cup {"none"}, random : 0..MaxDraws, key : Keys,
               waiting : Commands \cup {"none"}]
  BY Zenon DEF Inv, TypeOK, States
<1>2. Answered(c) /\ Lasting(c)
  BY DEF Inv, Inv2
<1>3. ASSUME NEW to \in {"capabilities", "open", "failed"}, NEW waits, NEW q,
             q.type \notin {"rakp4", "command"},
             console' = [console EXCEPT ![c] = [old EXCEPT !.waiting = waits, !.state = to]],
             UNCHANGED <<sessions, issued, restarts>>,
             Kept, \A r \in net' : r \in net \/ r = q
      PROVE  Inv2'
  <2> DEFINE new == [old EXCEPT !.waiting = waits, !.state = to]
  <2>1. new.random = old.random /\ new.id = old.id /\ new.key = old.key /\ new.state = to
    BY <1>1
  <2> HIDE DEF new
  <2>2. MovesOn(c, new)
    BY <2>1, <1>3 DEF MovesOn, new
  <2> QED  BY <2>2, ConsoleLasts
<1>4. CASE AskCapabilities(c)
  <2>1. [old EXCEPT !.state = "capabilities"]
          = [old EXCEPT !.waiting = old.waiting, !.state = "capabilities"]
    BY <1>1, Zenon
  <2> QED  BY <2>1, <1>3, <1>4, Zenon DEF AskCapabilities, Send, Kept
<1>5. ASSUME NEW p \in net, Open(c, p)
      PROVE  Inv2'
  <2>1. [old EXCEPT !.state = "open"] = [old EXCEPT !.waiting = old.waiting, !.state = "open"]
    BY <1>1, Zenon
  <2>2. /\ console' = [console EXCEPT ![c] = [old EXCEPT !.state = "open"]]
        /\ UNCHANGED <<sessions, issued, restarts>>
        /\ Kept /\ \A r \in net' : r \in net \/ r = [type |-> "open", at |-> c, rc |-> c]
    BY <1>5 DEF Open, Receive, Exchange, Kept
  <2>3. [type |-> "open", at |-> c, rc |-> c].type = "open"
    OBVIOUS
  <2> QED  BY <2>1, <2>2, <2>3, <1>3, Zenon
<1>6. ASSUME NEW p \in net, SendRAKP1(c, p)
      PROVE  Inv2'
  <2> DEFINE new == [old EXCEPT !.state = "rakp1", !.id = p.id]
  <2>1. new.state = "rakp1" /\ old.random = 0
    BY <1>1, <1>2, <1>6 DEF SendRAKP1, Answered
  <2>2. /\ console' = [console EXCEPT ![c] = new]
        /\ UNCHANGED <<sessions, issued, restarts>>
        /\ Kept /\ \A r \in net' : r \in net \/ r.type = "rakp1"
    BY <1>6 DEF SendRAKP1, Receive, Exchange, Kept
  <2> HIDE DEF new
  <2>3. MovesOn(c, new)
    BY <2>1, <2>2 DEF MovesOn
  <2> QED  BY <2>3, ConsoleLasts
<1>7. ASSUME NEW p \in net, SendRAKP3(c, p)
      PROVE  Inv2'
  <2> DEFINE key == generateSessionIntegrityKey(Password[c], c, p.random, UserName[c])
             new == [old EXCEPT !.state = "rakp3", !.random = p.random, !.key = key]
             q   == [type |-> "rakp3", at |-> c, id |-> console[c].id,
                     code |-> exchangeCode(Password[c], p.random, c, UserName[c])]
  <2>1. CASE Receive(c, p, [old EXCEPT !.state = "failed"], {})
    <3>1. [old EXCEPT !.state = "failed"] = [old EXCEPT !.waiting = old.waiting, !.state = "failed"]
      BY <1>1, Zenon
    <3>2. [type |-> "none"].type = "none"
      OBVIOUS
    <3>3. /\ console' = [console EXCEPT ![c] = [old EXCEPT !.state = "failed"]]
          /\ UNCHANGED <<sessions, issued, restarts>>
          /\ Kept /\ \A r \in net' : r \in net
      BY <2>1 DEF Receive, Exchange, Kept
    <3> QED  BY <3>1, <3>2, <3>3, <1>3, Zenon
  <2>2. CASE Receive(c, p, new, {q})
    <3>1. new.state = "rakp3" /\ old.random = 0
      BY <1>1, <1>2, <1>7 DEF SendRAKP3, Answered
    <3>2. /\ console' = [console EXCEPT ![c] = new]
          /\ UNCHANGED <<sessions, issued, restarts>>
          /\ Kept /\ \A r \in net' : r \in net \/ r.type = "rakp3"
      BY <2>2 DEF Receive, Exchange, Kept
    <3> HIDE DEF new
    <3>3. MovesOn(c, new)
      BY <3>1, <3>2 DEF MovesOn
    <3> QED  BY <3>3, ConsoleLasts
  <2> QED  BY <2>1, <2>2, <1>7, Zenon DEF SendRAKP3
<1>8. ASSUME NEW p \in net, Activate(c, p)
      PROVE  Inv2'
  <2>1. PICK to \in {"active", "failed"} :
          /\ console' = [console EXCEPT ![c] = [old EXCEPT !.state = to]]
          /\ UNCHANGED <<sessions, issued, restarts>>
          /\ Kept /\ \A r \in net' : r \in net
    BY <1>8, Zenon DEF Activate, Receive, Exchange, Kept
  <2> DEFINE new == [old EXCEPT !.state = to]
  <2>2. /\ new.random = old.random /\ new.id = old.id /\ new.key = old.key /\ new.state = to
    BY <1>1
  <2>3. Accepted(c)
    BY <1>8 DEF Activate, Accepted
  <2> HIDE DEF new
  <2>4. MovesOn(c, new)
    BY <2>1, <2>2, <2>3 DEF MovesOn, new
  <2> QED  BY <2>4, ConsoleLasts
<1>9. ASSUME NEW p \in net, GetResponse(c, p)
       PROVE  Inv2'
  <2>1. PICK to \in {"active", "closed"} :
          /\ console' = [console EXCEPT ![c] = [old EXCEPT !.waiting = "none", !.state = to]]
          /\ UNCHANGED <<sessions, issued, restarts>>
          /\ Kept /\ \A r \in net' : r \in net
    BY <1>9, Zenon DEF GetResponse, Receive, Exchange, Kept
  <2> DEFINE new == [old EXCEPT !.waiting = "none", !.state = to]
  <2>2. /\ new.random = old.random /\ new.id = old.id /\ new.key = old.key /\ new.state = to
    BY <1>1
  <2>3. Accepted(c)
    BY <1>9 DEF GetResponse, Accepted
  <2> HIDE DEF new
  <2>4. MovesOn(c, new)
    BY <2>1, <2>2, <2>3 DEF MovesOn, new
  <2> QED  BY <2>4, ConsoleLasts
<1>10. CASE Timeout(c)
  <2>1. CASE old.state = "active" /\ old.waiting # "CloseSession"
    <3> DEFINE new == [old EXCEPT !.waiting = "none"]
    <3>1. /\ console' = [console EXCEPT ![c] = new]
          /\ UNCHANGED <<sessions, issued, restarts>>
          /\ Kept /\ \A r \in net' : r \in net
      BY <1>10, <2>1 DEF Timeout, Send, Kept
    <3>2. /\ new.random = old.random /\ new.id = old.id /\ new.key = old.key
          /\ new.state = "active"
      BY <1>1, <2>1
    <3>3. Accepted(c)
      BY <2>1 DEF Accepted
    <3> HIDE DEF new
    <3>4. MovesOn(c, new)
      BY <3>1, <3>2, <3>3 DEF MovesOn
    <3> QED  BY <3>4, ConsoleLasts
  <2>2. CASE ~(old.state = "active" /\ old.waiting # "CloseSession")
    <3>1. [type |-> "none"].type = "none"
      OBVIOUS
    <3>2. /\ console' = [console EXCEPT ![c] = [old EXCEPT !.waiting = "none", !.state = "failed"]]
          /\ UNCHANGED <<sessions, issued, restarts>>
          /\ Kept /\ \A r \in net' : r \in net
      BY <2>2, <1>10, Zenon DEF Timeout, Send, Kept
    <3> QED  BY <3>1, <3>2, <1>3, Zenon
  <2> QED  BY <2>1, <2>2
<1>11. ASSUME NEW cmd \in Asked, SendCommand(c, cmd)
       PROVE  Inv2'
  <2> DEFINE new == [old EXCEPT !.waiting = cmd]
  <2>1. /\ console' = [console EXCEPT ![c] = new]
        /\ UNCHANGED <<sessions, issued, restarts>>
        /\ Kept /\ \A r \in net' : r \in net \/ (r.type = "command" /\ r.at = c)
    BY <1>11 DEF SendCommand, Send, Kept
  <2>2. new.random = old.random /\ new.id = old.id /\ new.key = old.key
    BY <1>1
  <2>3. Accepted(c)
    BY <1>11 DEF SendCommand, Accepted
  <2> HIDE DEF new
  <2>4. MovesOn(c, new)
    BY <2>1, <2>2, <2>3 DEF MovesOn
  <2> QED  BY <2>4, ConsoleLasts
<1> QED  BY <1>4, <1>5, <1>6, <1>7, <1>8, <1>9, <1>10, <1>11 DEF ConsoleStep

-----------------------------------------------------------------------------
(* The theorems.                                                           *)

LEMMA Invariance == Spec => []Inv
<1>1. Init => Inv
  <2> SUFFICES ASSUME Init PROVE Inv
    OBVIOUS
  <2>1. DOMAIN sessions = {} /\ net = {} /\ draws = 0 /\ draws \in 0..MaxDraws
    BY NoDomain, RMCPAssumption DEF Init
  <2>2. \A c \in Consoles : console[c] = NewConsole
    BY Zenon DEF Init
  <2>3. NewConsole \in [state : States, id : Ids \cup {"none"}, random : 0..MaxDraws, key : Keys,
                        waiting : Commands \cup {"none"}]
    BY RMCPAssumption DEF NewConsole, States, Keys
  <2>4. restarts \in 0..MaxRestarts
    BY RMCPAssumption DEF Init
  <2>5. TypeOK
    BY <2>1, <2>3, <2>4, Zenon DEF Init, TypeOK, States
  <2>6. ASSUME NEW c \in Consoles
        PROVE  Answered(c) /\ Spent(c)
    <3>1. console[c].random = 0 /\ console[c].state = "idle"
      BY <2>2 DEF NewConsole
    <3> QED  BY <3>1, <2>1 DEF Answered, Spent
  <2> QED  BY <2>1, <2>5, <2>6 DEF Inv
<1>2. Inv /\ [Next]_vars => Inv'
  <2> SUFFICES ASSUME Inv, [Next]_vars PROVE Inv'
    OBVIOUS
  <2>1. ASSUME NEW p \in net, handleRMCPRequest(p)
        PROVE  Inv'
    BY <2>1, PlainKeeps, OpenKeeps, RAKP1Keeps, RAKP3Keeps, CommandKeeps DEF handleRMCPRequest
  <2>2. CASE StartIPMIServer
    BY <2>2, RestartKeeps
  <2>3. ASSUME NEW c \in Consoles, ConsoleStep(c) \/ \E cmd \in Asked : SendCommand(c, cmd)
        PROVE  Inv'
    BY <2>3, AnswerKeeps, OtherStepsKeep DEF ConsoleStep
  <2>4. ASSUME NEW cmd, SendPlain(cmd)
        PROVE  Inv'
    BY <2>4, PlainSent
  <2>5. CASE UNCHANGED vars
    BY <2>5, FrameKeeps, Zenon DEF vars, Inv, TypeOK, Counts
  <2> QED  BY <2>1, <2>2, <2>3, <2>4, <2>5 DEF Next
<1> QED  BY <1>1, <1>2, PTL DEF Spec

\* The sessions, the consoles and the counters always have their types: in
\* particular a session's key is that of a password, a console, a number drawn
\* and a user.
THEOREM TypeCorrect == Spec => []TypeOK
<1>1. Inv => TypeOK
  BY DEF Inv
<1> QED  BY <1>1, Invariance, PTL

\* handleRAKPMessage3Request gives a session a key only if the console that
\* opened it was given the user and the password of bmcUser, whatever datagrams
\* of other consoles or of earlier sessions arrive.
THEOREM PasswordNeeded == Spec => []KeyNeedsPassword
<1>1. Inv => KeyNeedsPassword
  BY OneUser, Zenon DEF Inv, SessionOK, Good, KeyNeedsPassword
<1> QED  BY <1>1, Invariance, PTL

\* handleRAKPMessage1Request and handleRAKPMessage3Request, repeated in any
\* order, leave the BMC with the key that the session's console has computed.
THEOREM KeysAgree == Spec => []KeyAgreement
<1>1. Inv => KeyAgreement
  BY Zenon DEF Inv, SessionOK, KeyAgreement
<1> QED  BY <1>1, Invariance, PTL

\* After a console has seen its session closed (removeRMCPPlusSession), no
\* datagram of it that is still under way makes handleEncryptedRequest run a
\* command, also not in a new session under the same ID.
THEOREM ClosedStaysSilent == Spec => []ClosedIsSilent
<1>1. Inv => ClosedIsSilent
  <2> SUFFICES ASSUME Inv, NEW p \in net, p.type = "command", console[p.at].state = "closed", Runs(p)
               PROVE  FALSE
    BY DEF ClosedIsSilent
  <2>1. p.at \in Consoles /\ console[p.at].random # 0 /\ p.key = console[p.at].key
    BY Zenon DEF Inv, PacketOK
  <2>2. Spent(p.at)
    BY <2>1 DEF Inv
  <2> QED  BY <2>1, <2>2, Zenon DEF Spent, Closed, Runs
<1> QED  BY <1>1, Invariance, PTL

LEMMA Invariance2 == Spec => [](Inv /\ Inv2)
<1>1. Init => Inv2
  <2> SUFFICES ASSUME Init PROVE Inv2
    OBVIOUS
  <2>1. DOMAIN sessions = {} /\ net = {}
    BY NoDomain DEF Init
  <2>2. ASSUME NEW c \in Consoles
        PROVE  Lasting(c)
    <3>1. console[c].state = "idle"
      BY DEF Init, NewConsole
    <3> QED  BY <3>1, <2>1 DEF Lasting, Accepted, Counting
  <2> QED  BY <2>1, <2>2 DEF Inv2
<1>2. Inv /\ Inv2 /\ [Next]_vars => Inv2'
  <2> SUFFICES ASSUME Inv, Inv2, [Next]_vars PROVE Inv2'
    OBVIOUS
  <2>1. ASSUME NEW p \in net, handlePlainRequest(p)
        PROVE  Inv2'
    <3>1. Kept /\ \A r \in net' : r \in net \/ r.type = "plainResponse"
      BY <2>1 DEF handlePlainRequest, Exchange, Kept
    <3>2. UNCHANGED <<console, issued, restarts>> /\ p.type = "plain" /\ sessions' = handle(p)
      BY <2>1 DEF handlePlainRequest
    <3> QED  BY <3>1, <3>2, HandleLasts
  <2>2. ASSUME NEW p \in net, handleOpenSessionRequest(p)
        PROVE  Inv2'
    <3>1. PICK id \in Ids \ (DOMAIN sessions \cup (issued \ Reusable)) :
            /\ sessions' = [i \in DOMAIN sessions \cup {id} |->
                              IF i = id THEN getNewRMCPPlusSession(p.rc) ELSE sessions[i]]
            /\ issued' = issued \cup {id}
            /\ Exchange(p, {[type |-> "opened", at |-> p.at, rc |-> p.rc, id |-> id]})
      BY <2>2, Zenon DEF handleOpenSessionRequest
    <3>2. /\ DOMAIN sessions' = DOMAIN sessions \cup {id}
          /\ \A i \in DOMAIN sessions : sessions'[i] = sessions[i]
      BY <3>1
    <3>3. UNCHANGED <<console, restarts>>
      BY <2>2 DEF handleOpenSessionRequest
    <3>4. Kept /\ \A r \in net' : r \in net \/ r.type = "opened"
      BY <3>1 DEF Exchange, Kept
    <3>5. \A i \in DOMAIN sessions' : i \in DOMAIN sessions \/ i \in Reusable \/ i \notin issued
      BY <3>1, <3>2
    <3> QED  BY <3>1, <3>2, <3>3, <3>4, <3>5, SessionsLast, Zenon DEF Inv2
  <2>3. ASSUME NEW p \in net, handleRAKPMessage1Request(p)
        PROVE  Inv2'
    <3>1. CASE Ignore(p)
      BY <3>1, SessionsLast DEF Ignore, Exchange, Kept, Inv2
    <3>2. CASE p.id \in DOMAIN sessions /\ p.user \in DOMAIN bmcUser
      <4>1. /\ sessions' = [sessions EXCEPT ![p.id] =
                 [rc |-> sessions[p.id].rc, rcRandom |-> p.rcRandom, random |-> draws',
                  user |-> p.user, key |-> sessions[p.id].key]]
            /\ UNCHANGED <<panicked, console, issued, restarts>>
        BY <2>3, <3>2 DEF handleRAKPMessage1Request
      <4>2. /\ DOMAIN sessions' = DOMAIN sessions
            /\ \A i \in DOMAIN sessions : /\ sessions'[i].rc = sessions[i].rc
                                          /\ sessions'[i].key = sessions[i].key
        BY <3>2, <4>1
      <4>3. Kept /\ \A r \in net' : r \in net \/ r.type = "rakp2"
        BY <2>3, <3>2 DEF handleRAKPMessage1Request, Exchange, Kept
      <4> QED  BY <4>1, <4>2, <4>3, SessionsLast DEF Inv2
    <3> QED  BY <2>3, <3>1, <3>2 DEF handleRAKPMessage1Request
  <2>4. ASSUME NEW p \in net, handleRMCPRequest(p)
        PROVE  Inv2'
    BY <2>1, <2>2, <2>3, <2>4, RAKP3Lasts, CommandLasts DEF handleRMCPRequest
  <2>5. CASE StartIPMIServer
    <3>1. DOMAIN sessions' = {} /\ restarts' # 0
      <4>1. restarts \in Nat
        BY RMCPAssumption DEF Inv, TypeOK
      <4>2. sessions' = <<>> /\ restarts' = restarts + 1
        BY <2>5 DEF StartIPMIServer
      <4> QED  BY <4>1, <4>2, NoDomain
    <3>2. UNCHANGED <<net, console, issued>>
      BY <2>5 DEF StartIPMIServer
    <3>3. ASSUME NEW c \in Consoles
          PROVE  Lasting(c)'
      <4>1. Lasting(c) /\ (Accepted(c)' => Accepted(c)) /\ ~Counting(c)'
        BY <3>1, <3>2 DEF Inv2, Accepted, Counting
      <4> QED  BY <4>1, <3>1, <3>2, Zenon DEF Lasting
    <3> QED  BY <3>1, <3>3 DEF Inv2
  <2>6. ASSUME NEW c \in Consoles, ConsoleStep(c) \/ \E cmd \in Asked : SendCommand(c, cmd)
        PROVE  Inv2'
    BY <2>6, ConsoleStepsLast
  <2>7. ASSUME NEW cmd, SendPlain(cmd)
        PROVE  Inv2'
    BY <2>7, PlainLasts
  <2>8. CASE UNCHANGED vars
    BY <2>8, SessionsLast DEF vars, Kept, Inv2
  <2> QED  BY <2>4, <2>5, <2>6, <2>7, <2>8 DEF Next
<1> QED  BY <1>1, <1>2, Invariance, PTL DEF Spec

\* Until placemat is restarted, the BMC keeps the session of an active console
\* with its key until somebody has asked to close it, in the session or without
\* any: nothing else reaches removeRMCPPlusSession or moves the key, however
\* datagrams are repeated and IDs are drawn again.  The network is the one that
\* repeats them: it still holds the request that closed a session.
THEOREM ActiveServed == ASSUME ~Reliable PROVE Spec => []ActiveIsServed
<1>1. Inv /\ Inv2 => ActiveIsServed
  BY DEF Inv2, Lasting, Counting, Accepted, Held, ActiveIsServed
<1> QED  BY <1>1, Invariance2, PTL

\* handleEncryptedRequest panics on Get Channel Authentication Capabilities in
\* its session and on a command whose session ID was drawn again, and nothing
\* else makes a handler panic: a command finds its session with its key, or no
\* session, and every other response fits its block.
THEOREM PanicsAreFew == Spec => FewPanics
<1>1. ASSUME Inv, Inv2, [Next]_vars, panicked', ~panicked
      PROVE  \E p \in net : \/ Runs(p) /\ p.cmd = "GetChannelAuthCapabilities"
                            \/ p.type = "command" /\ p.id \in Reusable
  <2>1. panicked' # panicked
    BY <1>1
  <2>2. PICK p \in net : handleEncryptedRequest(p)
    <3>1. UNCHANGED panicked \/ \E p \in net : handleEncryptedRequest(p)
      <4>1. ASSUME NEW p \in net, handleRMCPRequest(p)
            PROVE  UNCHANGED panicked \/ handleEncryptedRequest(p)
        BY <4>1 DEF handleRMCPRequest, handlePlainRequest, handleOpenSessionRequest,
                    handleRAKPMessage1Request, handleRAKPMessage3Request, Ignore
      <4>2. CASE StartIPMIServer
        BY <4>2, <1>1 DEF StartIPMIServer
      <4>3. ASSUME NEW c \in Consoles, ConsoleStep(c) \/ \E cmd \in Asked : SendCommand(c, cmd)
            PROVE  UNCHANGED panicked
        BY <4>3, Zenon DEF ConsoleStep, AskCapabilities, Open, SendRAKP1, SendRAKP3, Activate, GetResponse,
                    Timeout, SendCommand, Send, Receive
      <4>4. ASSUME NEW cmd, SendPlain(cmd)
            PROVE  UNCHANGED panicked
        BY <4>4 DEF SendPlain
      <4> QED  BY <1>1, <4>1, <4>2, <4>3, <4>4, Zenon DEF Next, vars
    <3> QED  BY <2>1, <3>1
  <2>3. p.type = "command"
    BY <2>2 DEF handleEncryptedRequest
  <2> QED  BY <1>1, <2>1, <2>2, <2>3, WhyPanic, Zenon
<1>2. Inv /\ Inv2 /\ [Next]_vars =>
        [panicked' /\ ~panicked =>
           \E p \in net : \/ Runs(p) /\ p.cmd = "GetChannelAuthCapabilities"
                          \/ p.type = "command" /\ p.id \in Reusable]_vars
  BY <1>1
<1> QED  BY <1>2, Invariance2, PTL DEF Spec, FewPanics

=============================================================================
