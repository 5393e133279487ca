------------------------------ MODULE RMCPPlus ------------------------------
(***************************************************************************)
(* RMCP+ sessions of the virtual BMC.                                      *)
(*                                                                         *)
(* The IPMI goroutine of a node (StartIPMIServer) reads one datagram at a  *)
(* time, handles it and writes at most one datagram back; a datagram it    *)
(* cannot handle is logged and gets no answer.  A remote console           *)
(* (external: ipmitool) asks for the authentication capabilities, opens a  *)
(* session, proves with RAKP messages 1 to 4 that it knows the password    *)
(* and gets the proof that the BMC does, and then sends commands encrypted *)
(* under the key both have computed.  The same commands are run, without a *)
(* session and a password, for requests in the IPMI v1.5 format.  Every    *)
(* datagram of a console is well formed.                                   *)
(*                                                                         *)
(* Hashes are modelled as the tuple of what goes into them, so two of them *)
(* are equal exactly if their inputs are.  A console draws its session ID  *)
(* and random number once: the console stands for both.  The BMC's random  *)
(* number and GUID of a RAKP message 2 are drawn together: one number      *)
(* stands for both, 0 for the zero value of a new session.                 *)
(***************************************************************************)
EXTENDS Naturals

CONSTANTS
  Consoles,     \* each one makes one attempt at one session
  UserName,     \* UserName[c]: the user that c names
  Password,     \* Password[c]: the password that c was given
  Ids,          \* the session IDs the BMC may draw
  Reusable,     \* those that it may draw again when their session was closed
  Asked,        \* the commands that consoles send in their sessions
  AskedPlain,   \* the commands that are sent outside of any session
  Reliable,     \* is every datagram delivered exactly once, if in any order?
  MaxDraws,     \* how many random numbers the BMC may draw
  MaxRestarts   \* how often placemat may be restarted

-----------------------------------------------------------------------------
(* Users, hashes and commands.                                             *)

\* bmcUser.addBMCUser("cybozu", "cybozu") is the only user.
bmcUser == [cybozu |-> "cybozu"]

generateAuthCode(password, rc, id, rcRandom, random, user) ==
  <<"code", password, rc, id, rcRandom, random, user>>

\* Mutant: the password is left out of the hash.
exchangeNoPassword(password, random, rc, user) == <<"exchange", random, rc, user>>

\* What validateAuthCode compares the code of RAKP message 3 with: the
\* console's random number and the BMC's session ID are not part of it.
exchangeCode(password, random, rc, user) == <<"exchange", password, random, rc, user>>

generateSessionIntegrityKey(password, rcRandom, random, user) ==
  <<"key", password, rcRandom, random, user>>

generateSessionIntegrityCheckValue(key, rcRandom, id, random) ==
  <<"check", key, rcRandom, id, random>>

NoKey == <<>>

\* The commands of the App and Chassis network functions; "unsupported" is any
\* of another function.
Commands == {"GetChannelAuthCapabilities", "SetSessionPrivilege", "CloseSession",
             "GetChassisStatus", "ChassisControl", "unsupported"}

ASSUME RMCPAssumption ==
  /\ "none" \notin Consoles
  /\ UserName \in [Consoles -> {"cybozu", "unknown"}]
  /\ Password \in [Consoles -> {"cybozu", "wrong"}]
  /\ Reusable \subseteq Ids
  /\ Asked \subseteq Commands
  /\ AskedPlain \subseteq Commands
  /\ Reliable \in BOOLEAN
  /\ MaxDraws \in Nat
  /\ MaxRestarts \in Nat

\* Mutant: the message is filled up to a block before it is padded.
ResponseLengthFilled(cmd) == 16

\* The bytes of a response message: header and completion code, the data, the
\* checksum.
ResponseLength(cmd) ==
  7 + 1 + CASE cmd = "GetChannelAuthCapabilities" -> 8
            [] cmd = "SetSessionPrivilege"        -> 1
            [] cmd = "GetChassisStatus"           -> 4
            [] OTHER                              -> 0

BlockSize == 16

\* padPKCS7 adds at least one byte; encryptByCBCMode has room for one block.
encryptPanics(length) == length + (BlockSize - (length % BlockSize)) > BlockSize

-----------------------------------------------------------------------------
VARIABLES
  net,       \* the datagrams under way
  sessions,  \* rmcpPlusSessionHolder.sessions: the BMC's sessions by their IDs
  draws,     \* the random numbers the BMC has drawn so far
  panicked,  \* has a handler panicked, and placemat died with it?
  console,   \* console[c]: the state of remote console c
  \* What bounds the model and what the properties observe:
  issued,    \* the session IDs drawn so far
  restarts   \* how often placemat was restarted

vars == <<net, sessions, draws, panicked, console, issued, restarts>>

NewConsole == [state |-> "idle", id |-> "none", random |-> 0, key |-> NoKey, waiting |-> "none"]

Init ==
  /\ net = {}
  /\ sessions = <<>>
  /\ draws = 0
  /\ panicked = FALSE
  /\ console = [c \in Consoles |-> NewConsole]
  /\ issued = {}
  /\ restarts = 0

\* Datagram p is received and those of the set replies are sent.
Exchange(p, replies) ==
  net' = (IF Reliable THEN net \ {p} ELSE net) \cup replies

-----------------------------------------------------------------------------
(* The BMC.  Every datagram names the console it comes from or goes to:    *)
(* its address.                                                            *)

\* A handler that returns an error: nothing changes and nothing is sent.
Ignore(p) ==
  /\ Exchange(p, {})
  /\ UNCHANGED <<sessions, draws, panicked, console, issued, restarts>>

\* Mutant: the session's entry is cleared and stays in the map.
removeClears(id) == [sessions EXCEPT ![id] = NoKey]

\* Mutant: the session stays as it is.
removeNothing(id) == sessions

removeRMCPPlusSession(id) == [i \in DOMAIN sessions \ {id} |-> sessions[i]]

\* What the command of datagram p leaves of the sessions, whoever has sent it:
\* Close Session removes the session that it names, if there is one.
handle(p) == IF p.cmd = "CloseSession" THEN removeRMCPPlusSession(p.closes) ELSE sessions

\* A request without authentication, in the IPMI v1.5 format: any command that
\* is supported is run, and answered without encryption.
handlePlainRequest(p) ==
  /\ p.type = "plain"
  /\ sessions' = handle(p)
  /\ Exchange(p, {[type |-> "plainResponse", at |-> p.at, cmd |-> cmd] :
                    cmd \in {p.cmd} \ {"unsupported"}})
  /\ UNCHANGED <<draws, panicked, console, issued, restarts>>

getNewRMCPPlusSession(rc) ==
  [rc |-> rc, rcRandom |-> "none", random |-> 0, user |-> "none", key |-> NoKey]

\* Every Open Session request gets a session of its own, a repeated one too.
handleOpenSessionRequest(p) ==
  /\ p.type = "open"
  /\ \E id \in Ids \ (DOMAIN sessions \cup (issued \ Reusable)) :
       /\ sessions' = [i \in DOMAIN sessions \cup {id} |->
                         IF i = id THEN getNewRMCPPlusSession(p.rc) ELSE sessions[i]]
       /\ issued' = issued \cup {id}
       /\ Exchange(p, {[type |-> "opened", at |-> p.at, rc |-> p.rc, id |-> id]})
  /\ UNCHANGED <<draws, panicked, console, restarts>>

\* Mutant: a RAKP message 1 takes the session back to its beginning.
RAKP1ResetsKey(p) ==
  /\ p.type = "rakp1"
  /\ IF p.id \notin DOMAIN sessions \/ p.user \notin DOMAIN bmcUser
       THEN Ignore(p)
       ELSE /\ draws < MaxDraws
            /\ draws' = draws + 1
            /\ sessions' = [sessions EXCEPT ![p.id] =
                 [rc |-> @.rc, rcRandom |-> p.rcRandom, random |-> draws', user |-> p.user,
                  key |-> NoKey]]
            /\ LET s == sessions'[p.id] IN
                 Exchange(p, {[type |-> "rakp2", at |-> p.at, rc |-> s.rc, random |-> s.random,
                               code |-> generateAuthCode(bmcUser[s.user], s.rc, p.id,
                                                         s.rcRandom, s.random, s.user)]})
            /\ UNCHANGED <<panicked, console, issued, restarts>>

handleRAKPMessage1Request(p) ==
  /\ p.type = "rakp1"
  /\ IF p.id \notin DOMAIN sessions \/ p.user \notin DOMAIN bmcUser
       THEN Ignore(p)
       ELSE /\ draws < MaxDraws
            /\ draws' = draws + 1
            /\ sessions' = [sessions EXCEPT ![p.id] =
                 [rc |-> @.rc, rcRandom |-> p.rcRandom, random |-> draws', user |-> p.user,
                  key |-> @.key]]
            /\ LET s == sessions'[p.id] IN
                 Exchange(p, {[type |-> "rakp2", at |-> p.at, rc |-> s.rc, random |-> s.random,
                               code |-> generateAuthCode(bmcUser[s.user], s.rc, p.id,
                                                         s.rcRandom, s.random, s.user)]})
            /\ UNCHANGED <<panicked, console, issued, restarts>>

\* The session's user is the empty name until a RAKP message 1 was handled.
UserFound(s) == s.user \in DOMAIN bmcUser

\* Mutants: the code is compared but for the random number, or is compared with
\* the console's random number.
validateButRandom(code, s) == <<code[2], code[4], code[5]>> = <<bmcUser[s.user], s.rc, s.user>>

validateOtherRandom(code, s) == code = exchangeCode(bmcUser[s.user], s.rcRandom, s.rc, s.user)

validateAuthCode(code, s) == code = exchangeCode(bmcUser[s.user], s.random, s.rc, s.user)

handleRAKPMessage3Request(p) ==
  /\ p.type = "rakp3"
  /\ IF \/ p.id \notin DOMAIN sessions
        \/ ~UserFound(sessions[p.id])
        \/ ~validateAuthCode(p.code, sessions[p.id])
       THEN Ignore(p)
       ELSE LET s   == sessions[p.id]
                key == generateSessionIntegrityKey(bmcUser[s.user], s.rcRandom, s.random, s.user)
            IN  /\ sessions' = [sessions EXCEPT ![p.id].key = key]
                /\ Exchange(p, {[type |-> "rakp4", at |-> p.at, rc |-> s.rc,
                                 check |-> generateSessionIntegrityCheckValue(
                                             key, s.rcRandom, p.id, s.random)]})
                /\ UNCHANGED <<draws, panicked, console, issued, restarts>>

\* A panic in the IPMI goroutine ends placemat.
Panic(p) ==
  /\ panicked' = TRUE
  /\ Exchange(p, {})
  /\ UNCHANGED <<sessions, draws, console, issued, restarts>>

\* Slicing the key that a session does not have before a RAKP message 3, and a
\* response longer than its block, panic.
mustPanic(p, s) ==
  \/ s.key = NoKey
  \/ p.key = s.key /\ p.cmd # "unsupported" /\ encryptPanics(ResponseLength(p.cmd))

\* The command is decrypted with the session's key and run, and its response
\* is encrypted with the same key, which the handler still holds when the
\* command was Close Session.  A command encrypted under another key comes out
\* as noise, whose last byte is taken for the length of the padding (noise
\* that happens to be a well-formed message is left out).
handleEncryptedRequest(p) ==
  /\ p.type = "command"
  /\ IF p.id \notin DOMAIN sessions \/ ~UserFound(sessions[p.id])
       THEN Ignore(p)
       ELSE LET s == sessions[p.id] IN
         \/ /\ mustPanic(p, s)
            /\ Panic(p)
         \/ /\ ~mustPanic(p, s)
            /\ p.key # s.key
            /\ Panic(p) \/ Ignore(p)
         \/ /\ ~mustPanic(p, s)
            /\ p.key = s.key
            /\ p.cmd = "unsupported"
            /\ Ignore(p)
         \/ /\ ~mustPanic(p, s)
            /\ p.key = s.key
            /\ p.cmd # "unsupported"
            /\ sessions' = handle(p)
            /\ Exchange(p, {[type |-> "response", at |-> p.at, rc |-> s.rc, key |-> s.key,
                             cmd |-> p.cmd]})
            /\ UNCHANGED <<draws, panicked, console, issued, restarts>>

handleRMCPRequest(p) ==
  /\ ~panicked
  /\ \/ handlePlainRequest(p)
     \/ handleOpenSessionRequest(p)
     \/ handleRAKPMessage1Request(p)
     \/ handleRAKPMessage3Request(p)
     \/ handleEncryptedRequest(p)

\* placemat is stopped, or has died, and is started again: StartIPMIServer
\* begins with no sessions.
StartIPMIServer ==
  /\ restarts < MaxRestarts
  /\ restarts' = restarts + 1
  /\ panicked' = FALSE
  /\ sessions' = <<>>
  /\ UNCHANGED <<net, draws, console, issued>>

-----------------------------------------------------------------------------
(* The remote console (external).  It repeats a datagram that is not       *)
(* answered: on an unreliable network every datagram may arrive any number *)
(* of times, or never.                                                     *)

Send(c, new, packets) ==
  /\ console' = [console EXCEPT ![c] = new]
  /\ net' = net \cup packets
  /\ UNCHANGED <<sessions, draws, panicked, issued, restarts>>

Receive(c, p, new, packets) ==
  /\ console' = [console EXCEPT ![c] = new]
  /\ Exchange(p, packets)
  /\ UNCHANGED <<sessions, draws, panicked, issued, restarts>>

AskCapabilities(c) ==
  /\ console[c].state = "idle"
  /\ Send(c, [console[c] EXCEPT !.state = "capabilities"],
          {[type |-> "plain", at |-> c, cmd |-> "GetChannelAuthCapabilities", closes |-> "none"]})

Open(c, p) ==
  /\ console[c].state = "capabilities"
  /\ p.type = "plainResponse" /\ p.cmd = "GetChannelAuthCapabilities"
  /\ Receive(c, p, [console[c] EXCEPT !.state = "open"], {[type |-> "open", at |-> c, rc |-> c]})

SendRAKP1(c, p) ==
  /\ console[c].state = "open" /\ p.type = "opened" /\ p.rc = c
  /\ Receive(c, p, [console[c] EXCEPT !.state = "rakp1", !.id = p.id],
             {[type |-> "rakp1", at |-> c, id |-> p.id, rcRandom |-> c, user |-> UserName[c]]})

\* RAKP message 2 shows that the BMC knows the password, and RAKP message 3
\* answers it: a console that does not look goes on with a wrong password.
SendRAKP3(c, p) ==
  /\ console[c].state = "rakp1" /\ p.type = "rakp2" /\ p.rc = c
  /\ \/ Receive(c, p,
          [console[c] EXCEPT !.state = "rakp3", !.random = p.random,
             !.key = generateSessionIntegrityKey(Password[c], c, p.random, UserName[c])],
          {[type |-> "rakp3", at |-> c, id |-> console[c].id,
            code |-> exchangeCode(Password[c], p.random, c, UserName[c])]})
     \/ /\ p.code # generateAuthCode(Password[c], c, console[c].id, c, p.random, UserName[c])
        /\ Receive(c, p, [console[c] EXCEPT !.state = "failed"], {})

Activate(c, p) ==
  /\ console[c].state = "rakp3" /\ p.type = "rakp4" /\ p.rc = c
  /\ LET good == p.check = generateSessionIntegrityCheckValue(
                             console[c].key, c, console[c].id, console[c].random)
     IN  Receive(c, p, [console[c] EXCEPT !.state = IF good THEN "active" ELSE "failed"], {})

\* Somebody that opens no session sends requests outside of any; Close Session
\* names a session of a console.
SendPlain(cmd) ==
  /\ \E id \in IF cmd = "CloseSession" THEN issued ELSE {"none"} :
       net' = net \cup {[type |-> "plain", at |-> "none", cmd |-> cmd, closes |-> id]}
  /\ UNCHANGED <<sessions, draws, panicked, console, issued, restarts>>

\* One command at a time; Close Session names the console's own session.
SendCommand(c, cmd) ==
  /\ console[c].state = "active" /\ console[c].waiting = "none"
  /\ Send(c, [console[c] EXCEPT !.waiting = cmd],
          {[type |-> "command", at |-> c, id |-> console[c].id, key |-> console[c].key,
            cmd |-> cmd, closes |-> console[c].id]})

GetResponse(c, p) ==
  /\ console[c].state = "active" /\ p.type = "response" /\ p.rc = c
  /\ p.key = console[c].key /\ p.cmd = console[c].waiting
  /\ Receive(c, p, [console[c] EXCEPT !.waiting = "none",
                       !.state = IF p.cmd = "CloseSession" THEN "closed" ELSE @], {})

\* The console has waited long enough: on a reliable network, until nothing
\* from or to it is under way.
Timeout(c) ==
  /\ \/ console[c].state \in {"capabilities", "open", "rakp1", "rakp3"}
     \/ console[c].waiting # "none"
  /\ Reliable => \A p \in net : p.at # c
  /\ Send(c, IF console[c].state = "active" /\ console[c].waiting # "CloseSession"
                THEN [console[c] EXCEPT !.waiting = "none"]
                ELSE [console[c] EXCEPT !.waiting = "none", !.state = "failed"], {})

ConsoleStep(c) ==
  \/ AskCapabilities(c)
  \/ \E p \in {q \in net : q.at = c} :
       \/ Open(c, p)
       \/ SendRAKP1(c, p)
       \/ SendRAKP3(c, p)
       \/ Activate(c, p)
       \/ GetResponse(c, p)
  \/ Timeout(c)

-----------------------------------------------------------------------------
Next ==
  \/ \E p \in net : handleRMCPRequest(p)
  \/ StartIPMIServer
  \/ \E c \in Consoles : \/ ConsoleStep(c)
                         \/ \E cmd \in Asked : SendCommand(c, cmd)
  \/ \E cmd \in AskedPlain : SendPlain(cmd)

Spec == Init /\ [][Next]_vars

\* The goroutine handles what is under way; a console takes its steps and
\* closes its session in the end.
FairSpec ==
  /\ Spec
  /\ WF_vars(\E p \in net : handleRMCPRequest(p))
  /\ \A c \in Consoles : WF_vars(ConsoleStep(c)) /\ SF_vars(SendCommand(c, "CloseSession"))

-----------------------------------------------------------------------------
(* Properties.                                                             *)

Keys == {NoKey} \cup {generateSessionIntegrityKey(w, c, n, u) :
           w \in {"cybozu", "wrong"}, c \in Consoles, n \in 0..MaxDraws, u \in {"cybozu", "unknown"}}

TypeOK ==
  /\ DOMAIN sessions \subseteq Ids
  /\ \A id \in DOMAIN sessions :
       sessions[id] \in [rc : Consoles, rcRandom : Consoles \cup {"none"}, random : 0..MaxDraws,
                         user : {"none", "cybozu"}, key : Keys]
  /\ draws \in 0..MaxDraws
  /\ panicked \in BOOLEAN
  /\ console \in [Consoles ->
       [state   : {"idle", "capabilities", "open", "rakp1", "rakp3", "active", "closed", "failed"},
        id      : Ids \cup {"none"},
        random  : 0..MaxDraws,
        key     : Keys,
        waiting : Commands \cup {"none"}]]
  /\ issued \subseteq Ids
  /\ restarts \in 0..MaxRestarts

\* A console and the BMC never use different keys for the same session: the
\* BMC's repeated handling of RAKP messages 1 and 3 does not move the key
\* away from the one the console has computed.
KeyAgreement ==
  \A c \in Consoles : console[c].state = "active" =>
    \A id \in DOMAIN sessions :
      (id = console[c].id /\ sessions[id].rc = c /\ sessions[id].key # NoKey)
        => sessions[id].key = console[c].key

\* The BMC gives a session a key only if the console that opened it was given
\* the user and the password of bmcUser, whatever older datagrams arrive.
KeyNeedsPassword ==
  \A id \in DOMAIN sessions : sessions[id].key # NoKey =>
    /\ UserName[sessions[id].rc] \in DOMAIN bmcUser
    /\ Password[sessions[id].rc] = bmcUser[UserName[sessions[id].rc]]

\* The requests to close session id, in it or outside of any.
Closing(id) ==
  {p \in net : p.type \in {"plain", "command"} /\ p.cmd = "CloseSession" /\ p.closes = id}

\* While placemat runs on, the session of an active console stays, with its
\* key, until somebody asks to close it: no other request of this or of another
\* console, also not one that arrives late or twice, takes it away.  (What was
\* asked is known as long as the network may still deliver it again.)
ActiveIsServed ==
  \A c \in Consoles :
    (console[c].state = "active" /\ restarts = 0 /\ Closing(console[c].id) = {}) =>
      /\ console[c].id \in DOMAIN sessions
      /\ sessions[console[c].id].rc = c
      /\ sessions[console[c].id].key = console[c].key

\* Would the BMC run the command of this datagram, if it received it now?
Runs(p) ==
  /\ p.type = "command" /\ p.cmd # "unsupported"
  /\ p.id \in DOMAIN sessions
  /\ UserFound(sessions[p.id])
  /\ sessions[p.id].key # NoKey /\ p.key = sessions[p.id].key

\* Sequence numbers are not checked, so a repeated datagram runs its command
\* again, but only as long as the session is open: once a console has seen its
\* session closed, none of its datagrams runs a command, also not when the ID
\* is given to a new session, or placemat is restarted.
ClosedIsSilent ==
  \A p \in net : p.type = "command" /\ console[p.at].state = "closed" => ~Runs(p)

\* A handler panics on nothing but a Get Channel Authentication Capabilities
\* request in its session, and on a command that arrives late, when the ID of
\* its session was drawn again: every other command reaches the BMC in a session
\* with the key it is encrypted under, and its response fits the block that
\* encryptByCBCMode allots.
FewPanics ==
  [][panicked' /\ ~panicked =>
       \E p \in net : \/ Runs(p) /\ p.cmd = "GetChannelAuthCapabilities"
                      \/ p.type = "command" /\ p.id \in Reusable]_vars

\* "BMCs that support ipmi v2.0/RMCP+ must support the Get Channel Authentication
\* Capabilities command in both the ipmi v1.5 and v2.0 packet formats"
\* (ipmi_session.go): the BMC does not panic on one that it receives in a session.
CapabilitiesInBothFormats ==
  \A p \in net : Runs(p) /\ p.cmd = "GetChannelAuthCapabilities" => ~mustPanic(p, sessions[p.id])

\* On a reliable network a console with the right password opens and closes
\* its session, and every other one ends too.
Completes ==
  \A c \in Consoles :
    console[c].state = "capabilities" ~>
      console[c].state = IF /\ UserName[c] \in DOMAIN bmcUser
                            /\ Password[c] = bmcUser[UserName[c]]
                           THEN "closed" ELSE "failed"

=============================================================================
