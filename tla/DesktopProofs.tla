--------------------------- MODULE DesktopProofs ----------------------------
(*****************************************************************************)
(* What a cast or a scan leaves behind, for any number of casts, folders and *)
(* calls: a token of the bridge that a device may still use can be revoked   *)
(* by who holds it, and a folder that says it is being scanned has its scan. *)
(* Then all parts of the desktop together.                                   *)
(*                                                                           *)
(* CastInv and LmInv are inductive: they add whose a cast is that another    *)
(* took the place of, what the bridge serves while the server of a cast does *)
(* not listen yet, and that the record of a folder is of that folder for     *)
(* ever.                                                                     *)
(*****************************************************************************)
EXTENDS MCDesktop, SessionsProofs, ServicesProofs

(* Cast. *)

\* The server that was started is the one that listens, as long as a token of
\* it lives.
BridgeGood(b) == b.up = b.server /\ (b.server = {} <=> b.live = {})

\* Where no two calls met, the cast that waits for its server has the bridge to
\* itself, and else the bridge is in order.
ServerGood ==
    castMet = {} =>
        /\ (\A c \in CastCalls : castPc[c].at # "listening")
              => BridgeGood(bridge)
        /\ \A c \in CastCalls : castPc[c].at = "listening" =>
              /\ bridge.live = {} /\ bridge.up = {}
              /\ bridge.server = {<<c, NextAsset(c)>>}

\* BridgeOwned, and why: a cast under way is the session, unless another took
\* its place, and who waits for the bridge to listen has no token yet.
CastInv ==
    /\ CastTypeOK /\ BridgeOwned /\ ServerGood
    /\ \A c \in CastCalls :
          castPc[c].at \in {"creates", "listening", "seeks"} =>
             caster.session = c \/ c \in castMet
    /\ bridge.server # {} =>
          bridge.live # {} \/ \E c \in CastCalls : castPc[c].at = "listening"

USE DEF Bridges

\* Revoking takes tokens, and the server with the last of them.
LEMMA RevokedTyped ==
  ASSUME NEW b \in Bridges,
         NEW tokens
  PROVE  /\ Revoked(b, tokens) \in Bridges
         /\ Revoked(b, tokens).live = b.live \ tokens
         /\ Revoked(b, tokens).server # {} =>
               /\ b.server # {}
               /\ b.live # {} => Revoked(b, tokens).live # {}
         /\ BridgeGood(b) => BridgeGood(Revoked(b, tokens))
         /\ b.live = {} => Revoked(b, tokens) = b
<1> DEFINE live == b.live \ tokens
           last == b.live \cap tokens # {} /\ live = {}
<1>1. Revoked(b, tokens) =
         [live |-> live, server |-> IF last THEN {} ELSE b.server,
          up |-> IF last THEN b.up \ b.server ELSE b.up]
  BY DEF Revoked
<1>2. b = [live |-> b.live, server |-> b.server, up |-> b.up]
  OBVIOUS
<1>3. CASE last
  BY <1>1, <1>3 DEF BridgeGood
<1>4. CASE ~last
  <2>1. b.live # {} => live # {}
    BY <1>4
  <2> QED
    BY <1>1, <1>2, <1>4, <2>1 DEF BridgeGood
<1> QED
  BY <1>3, <1>4

\* A step that revokes, or leaves the bridge, while no server begins or ends its
\* wait.
LEMMA ServedKeeps ==
  ASSUME CastTypeOK, ServerGood, NEW tokens,
         bridge' = Revoked(bridge, tokens) \/ UNCHANGED bridge,
         castMet \subseteq castMet',
         \A c \in CastCalls : \/ castPc'[c] = castPc[c]
                              \/ /\ castPc[c].at # "listening"
                                 /\ castPc'[c].at # "listening"
  PROVE  ServerGood'
<1> SUFFICES ASSUME castMet' = {} PROVE ServerGood'
  BY DEF ServerGood
<1>1. /\ BridgeGood(bridge) => BridgeGood(bridge)'
      /\ bridge.live = {} => UNCHANGED bridge
  <2>1. bridge \in Bridges
    BY DEF CastTypeOK
  <2>2. CASE bridge' = Revoked(bridge, tokens)
    BY <2>1, <2>2, RevokedTyped DEF BridgeGood
  <2>3. CASE UNCHANGED bridge
    BY <2>3 DEF BridgeGood
  <2> QED
    BY <2>2, <2>3
<1>2. ASSUME \A c \in CastCalls : castPc'[c].at # "listening"
      PROVE  BridgeGood(bridge)'
  BY <1>1, <1>2 DEF ServerGood
<1>3. ASSUME NEW c \in CastCalls, castPc'[c].at = "listening"
      PROVE  /\ bridge'.live = {} /\ bridge'.up = {}
             /\ bridge'.server = {<<c, NextAsset(c)'>>}
  <2>1. castPc'[c] = castPc[c]
    BY <1>3
  <2> QED
    BY <1>1, <1>3, <2>1 DEF ServerGood, NextAsset
<1> QED
  BY <1>2, <1>3 DEF ServerGood

\* A step that issues no token, forgets none that is live, and ends no cast.
LEMMA CastKeeps ==
  ASSUME CastInv, CastTypeOK', ServerGood',
         bridge'.live \subseteq bridge.live,
         \A c \in CastCalls : LiveOf(c) \cap bridge'.live \subseteq caster'.held[c],
         castMet \subseteq castMet',
         \A c \in CastCalls :
            /\ caster.session = c /\ caster'.session # c =>
                  (IF Casting(c) THEN c \in castMet'
                   ELSE LiveOf(c) \cap bridge'.live = {} \/ c \in castMet')
            /\ castPc'[c].at = castPc[c].at
               \/ (castPc[c].at = "idle" /\ castPc'[c].at = "leaves")
               \/ (castPc[c].at = "leaves" /\ castPc'[c].at = "creates"
                   /\ caster'.session = c)
               \/ (castPc[c].at = "creates"
                   /\ castPc'[c].at \in {"listening", "seeks", "done"})
               \/ (castPc[c].at = "seeks" /\ castPc'[c].at = "done"),
         bridge'.server # {} =>
            bridge'.live # {} \/ \E c \in CastCalls : castPc'[c].at = "listening"
  PROVE  CastInv'
<1>1. ASSUME NEW c \in CastCalls
      PROVE  /\ LiveOf(c)' \subseteq caster'.held[c]
             /\ LiveOf(c)' # {} /\ c \notin castMet' =>
                   caster'.session = c \/ Casting(c)'
             /\ castPc'[c].at = "failed" => LiveOf(c)' = {}
             /\ castPc'[c].at \in {"creates", "listening", "seeks"} =>
                   caster'.session = c \/ c \in castMet'
  <2>1. LiveOf(c)' = LiveOf(c) \cap bridge'.live
    BY DEF LiveOf
  <2>2. CastSteps = {"idle", "leaves", "creates", "listening", "seeks", "done",
                     "failed"}
        /\ castPc[c].at \in CastSteps
    BY DEF CastInv, CastTypeOK, CastSteps
  <2> QED
    BY <2>1, <2>2 DEF CastInv, BridgeOwned, Casting
<1>2. BridgeOwned'
  BY <1>1 DEF BridgeOwned, Casting, ServerGood, BridgeGood
<1> QED
  BY <1>1, <1>2 DEF CastInv

\* A session is left, and what it holds is revoked.
LEMMA LeavesSession ==
  ASSUME CastInv
  PROVE  /\ Revoked(bridge, HeldBySession) \in Bridges
         /\ Revoked(bridge, HeldBySession).live \subseteq bridge.live
         /\ Revoked(bridge, HeldBySession).server # {} =>
               Revoked(bridge, HeldBySession).live # {}
               \/ \E c \in CastCalls : castPc[c].at = "listening"
         /\ HeldByOthers \in [CastCalls -> SUBSET Tokens]
         /\ \A c \in CastCalls :
               LiveOf(c) \cap Revoked(bridge, HeldBySession).live
                  \subseteq HeldByOthers[c]
         /\ \A c \in CastCalls : caster.session = c =>
               LiveOf(c) \cap Revoked(bridge, HeldBySession).live = {}
<1>1. bridge \in Bridges
  BY DEF CastInv, CastTypeOK
<1>2. ASSUME NEW c \in CastCalls, caster.session = c
      PROVE  caster.held[c] \subseteq HeldBySession
  BY <1>2, CastBounds DEF HeldBySession, OfSession
<1>3. \A c \in CastCalls : c \in OfSession <=> caster.session = c
  BY CastBounds DEF OfSession
<1>4. \A c \in CastCalls : LiveOf(c) \subseteq caster.held[c]
  BY DEF CastInv, BridgeOwned
<1> QED
  BY <1>1, <1>2, <1>3, <1>4, RevokedTyped
     DEF HeldByOthers, CastInv, CastTypeOK

LEMMA DisconnectsStep ==
  ASSUME CastInv, Disconnects,
         UNCHANGED stopping,
         castPc' \in [CastCalls -> [at : CastSteps, bridged : SUBSET Assets]],
         \A c \in CastCalls : \/ castPc'[c] = castPc[c]
                              \/ castPc[c].at = "idle" /\ castPc'[c].at = "leaves"
  PROVE  CastInv'
<1> USE CastBounds
<1>1. /\ caster'.held = HeldByOthers /\ caster'.session = "none"
      /\ bridge' = Revoked(bridge, HeldBySession)
      /\ castMet' = castMet \cup {c \in OfSession : Casting(c)}
      /\ caster' \in [known : BOOLEAN, session : CastCalls \cup {"none"},
                   state : [CastCalls -> CastStates],
                   held : [CastCalls -> SUBSET Tokens]]
  BY LeavesSession DEF Disconnects, CastInv, CastTypeOK
<1>2. \A c \in CastCalls : c \in OfSession <=> caster.session = c
  BY DEF OfSession
<1>3. castMet' \subseteq CastCalls
  BY <1>1 DEF CastInv, CastTypeOK, OfSession
<1>4. CastTypeOK'
  BY <1>1, <1>3, LeavesSession DEF CastInv, CastTypeOK
<1>5. bridge'.server # {} =>
         bridge'.live # {} \/ \E c \in CastCalls : castPc'[c].at = "listening"
  BY <1>1, LeavesSession
<1>6. ServerGood'
  BY <1>1, ServedKeeps DEF CastInv
<1> QED
  BY <1>1, <1>2, <1>4, <1>5, <1>6, LeavesSession, CastKeeps

\* A token is issued to a cast that is under way: by a server that was there, or
\* by the one it waited for.
LEMMA IssuesStep ==
  ASSUME CastInv, NEW c \in CastCalls, NEW asset \in Assets, NEW started,
         Issues(c, asset, started), asset = NextAsset(c),
         \/ /\ castPc[c].at = "creates"
            /\ started = {} /\ bridge.server # {}
         \/ /\ castPc[c].at = "listening"
            /\ started = {<<c, asset>>},
         UNCHANGED <<stopping, castMet>>
  PROVE  CastInv'
<1>1. /\ bridge'.live = bridge.live \cup {<<c, asset>>}
      /\ bridge'.up = bridge.up \cup started
      /\ bridge'.server = bridge.server
      /\ bridge' \in Bridges
      /\ caster' \in [known : BOOLEAN, session : CastCalls \cup {"none"},
                   state : [CastCalls -> CastStates],
                   held : [CastCalls -> SUBSET Tokens]]
      /\ caster'.session = caster.session
      /\ \A d \in CastCalls : d # c => caster'.held[d] = caster.held[d]
      /\ caster'.held[c] = caster.held[c] \cup {<<c, asset>>}
  <2>1. <<c, asset>> \in Tokens
    BY DEF Tokens
  <2>2. /\ bridge'.live = bridge.live \cup {<<c, asset>>}
        /\ bridge'.up = bridge.up \cup started
        /\ bridge'.server = bridge.server
        /\ bridge' \in Bridges
    <3>1. bridge' = [live |-> bridge.live \cup {<<c, asset>>},
                     server |-> bridge.server,
                     up |-> bridge.up \cup started]
      BY DEF Issues, CastInv, CastTypeOK
    <3> QED
      BY <2>1, <3>1 DEF CastInv, CastTypeOK
  <2>3. caster' = [caster EXCEPT !.held =
                     [caster.held EXCEPT ![c] = @ \cup {<<c, asset>>}]]
    BY DEF Issues, CastInv, CastTypeOK
  <2>4. [caster.held EXCEPT ![c] = @ \cup {<<c, asset>>}]
           \in [CastCalls -> SUBSET Tokens]
    BY <2>1 DEF CastInv, CastTypeOK
  <2> QED
    BY <2>2, <2>3, <2>4 DEF CastInv, CastTypeOK
<1>2. /\ castPc' \in [CastCalls -> [at : CastSteps, bridged : SUBSET Assets]]
      /\ castPc'[c].at = "creates"
      /\ \A d \in CastCalls : d # c => castPc'[d] = castPc[d]
  BY DEF Issues, CastInv, CastTypeOK, CastSteps
<1>3. CastTypeOK'
  BY <1>1, <1>2 DEF CastInv, CastTypeOK
<1>4. /\ LiveOf(c)' = LiveOf(c) \cup {<<c, asset>>}
      /\ \A d \in CastCalls : d # c => LiveOf(d)' = LiveOf(d)
  BY <1>1 DEF LiveOf
<1>5. ASSUME NEW d \in CastCalls
      PROVE  /\ LiveOf(d)' \subseteq caster'.held[d]
             /\ LiveOf(d)' # {} /\ d \notin castMet' =>
                   caster'.session = d \/ Casting(d)'
             /\ castPc'[d].at = "failed" => LiveOf(d)' = {}
             /\ castPc'[d].at \in {"creates", "listening", "seeks"} =>
                   caster'.session = d \/ d \in castMet'
  BY <1>1, <1>2, <1>4 DEF CastInv, BridgeOwned, Casting
<1>6. bridge'.live # {}
  BY <1>1
<1>7. ASSUME castMet' = {}
      PROVE  /\ \A d \in CastCalls : castPc'[d].at # "listening"
             /\ BridgeGood(bridge)'
  <2>1. \A d \in CastCalls : d # c => castPc[d].at # "listening"
    BY <1>7 DEF CastInv
  <2>2. CASE castPc[c].at = "creates"
    <3>1. BridgeGood(bridge) /\ started = {} /\ bridge.server # {}
      BY <1>7, <2>1, <2>2 DEF CastInv, ServerGood
    <3> QED
      BY <1>1, <1>2, <2>1, <3>1 DEF BridgeGood
  <2>3. CASE castPc[c].at = "listening"
    <3>1. /\ bridge.live = {} /\ bridge.up = {}
          /\ bridge.server = {<<c, asset>>} /\ started = {<<c, asset>>}
      BY <1>7, <2>3 DEF CastInv, ServerGood
    <3> QED
      BY <1>1, <1>2, <2>1, <3>1 DEF BridgeGood
  <2> QED
    BY <2>2, <2>3
<1>8. ServerGood'
  BY <1>7 DEF ServerGood
<1>9. BridgeOwned'
  BY <1>5, <1>6, <1>7 DEF BridgeOwned, BridgeGood
<1> QED
  BY <1>3, <1>5, <1>6, <1>8, <1>9 DEF CastInv

LEMMA CastFailsStep ==
  ASSUME CastInv, NEW c \in CastCalls, CastFails(c)
  PROVE  CastInv'
<1> DEFINE b == [bridge EXCEPT !.server = ServerAtFailure(c)]
<1>1. /\ b \in Bridges
      /\ b.live = bridge.live /\ b.server = ServerAtFailure(c)
      /\ b.up = bridge.up
      /\ bridge' = Revoked(b, caster.held[c])
  BY DEF CastFails, ServerAtFailure, CastInv, CastTypeOK
<1> HIDE DEF b
<1>2. /\ bridge' \in Bridges
      /\ bridge'.live = bridge.live \ caster.held[c]
      /\ bridge'.server # {} => /\ ServerAtFailure(c) # {}
                                /\ bridge.live # {} => bridge'.live # {}
  BY <1>1, RevokedTyped
<1>3. /\ caster' \in [known : BOOLEAN, session : CastCalls \cup {"none"},
                   state : [CastCalls -> CastStates],
                   held : [CastCalls -> SUBSET Tokens]]
      /\ caster'.session = caster.session
      /\ \A d \in CastCalls : d # c => caster'.held[d] = caster.held[d]
  BY DEF CastFails, CastInv, CastTypeOK, CastStates
<1>4. /\ castPc' \in [CastCalls -> [at : CastSteps, bridged : SUBSET Assets]]
      /\ castPc'[c].at = "failed"
      /\ \A d \in CastCalls : d # c => castPc'[d] = castPc[d]
      /\ UNCHANGED <<stopping, castMet>>
  BY DEF CastFails, Goes, CastInv, CastTypeOK, CastSteps
<1>5. CastTypeOK'
  BY <1>2, <1>3, <1>4 DEF CastInv, CastTypeOK
<1>6. ASSUME NEW d \in CastCalls
      PROVE  /\ LiveOf(d)' \subseteq caster'.held[d]
             /\ LiveOf(d)' # {} /\ d \notin castMet' =>
                   caster'.session = d \/ Casting(d)'
             /\ castPc'[d].at = "failed" => LiveOf(d)' = {}
             /\ castPc'[d].at \in {"creates", "listening", "seeks"} =>
                   caster'.session = d \/ d \in castMet'
  <2>1. LiveOf(d)' = LiveOf(d) \ caster.held[c]
    BY <1>2 DEF LiveOf
  <2>2. LiveOf(c)' = {}
    BY <1>2 DEF LiveOf, CastInv, BridgeOwned
  <2> QED
    BY <1>3, <1>4, <2>1, <2>2 DEF CastInv, BridgeOwned, Casting
<1>7. bridge'.server # {} =>
         bridge'.live # {} \/ \E d \in CastCalls : castPc'[d].at = "listening"
  <2> SUFFICES ASSUME bridge'.server # {}, bridge'.live = {}
               PROVE  \E d \in CastCalls : castPc'[d].at = "listening"
    OBVIOUS
  <2>1. ServerAtFailure(c) # {} /\ bridge.live = {}
    BY <1>2
  <2>2. castPc[c].at # "listening" /\ bridge.server # {}
    BY <2>1 DEF ServerAtFailure
  <2>3. PICK d \in CastCalls : castPc[d].at = "listening"
    BY <2>1, <2>2 DEF CastInv
  <2> QED
    BY <1>4, <2>2, <2>3
<1>8. ServerGood'
  <2>1. CASE castPc[c].at # "listening"
    <3>1. ServerAtFailure(c) = bridge.server
      BY <2>1 DEF ServerAtFailure
    <3>2. bridge' = Revoked(bridge, caster.held[c])
      BY <3>1 DEF CastFails, CastInv, CastTypeOK
    <3> QED
      BY <1>4, <2>1, <3>2, ServedKeeps DEF CastInv
  <2>2. CASE castPc[c].at = "listening"
    <3> SUFFICES ASSUME castMet' = {} PROVE ServerGood'
      BY DEF ServerGood
    <3>1. \A d \in CastCalls : castPc'[d].at # "listening"
      BY <1>4, <2>2 DEF CastInv
    <3>2. b.live = {} /\ b.up = {} /\ b.server = {}
      BY <1>1, <1>4, <2>2 DEF CastInv, ServerGood, ServerAtFailure
    <3>3. BridgeGood(bridge)'
      BY <1>1, <3>2, RevokedTyped DEF BridgeGood
    <3> QED
      BY <3>1, <3>3 DEF ServerGood
  <2> QED
    BY <2>1, <2>2
<1>9. BridgeOwned'
  BY <1>6, <1>7, <1>8 DEF BridgeOwned, Casting, ServerGood, BridgeGood
<1> QED
  BY <1>5, <1>6, <1>7, <1>8, <1>9 DEF CastInv

\* What a session holds is revoked when it ends, or fails for the device.
LEMMA RevokesStep ==
  ASSUME CastInv, NEW c \in CastCalls, NEW state \in {"fine", "error"},
         bridge' = Revoked(bridge, caster.held[c]),
         caster' = [caster EXCEPT !.state[c] = state, !.held[c] = {}],
         stopping' \subseteq CastCalls,
         UNCHANGED <<castPc, castMet>>
  PROVE  CastInv'
<1>1. /\ bridge' \in Bridges
      /\ bridge'.live = bridge.live \ caster.held[c]
      /\ bridge'.server # {} => /\ bridge.server # {}
                                /\ bridge.live # {} => bridge'.live # {}
  BY RevokedTyped DEF CastInv, CastTypeOK
<1>2. /\ caster' \in [known : BOOLEAN, session : CastCalls \cup {"none"},
                   state : [CastCalls -> CastStates],
                   held : [CastCalls -> SUBSET Tokens]]
      /\ caster'.session = caster.session
      /\ \A d \in CastCalls : d # c => caster'.held[d] = caster.held[d]
  BY DEF CastInv, CastTypeOK, CastStates
<1>3. \A d \in CastCalls : LiveOf(d) \cap bridge'.live \subseteq caster'.held[d]
  BY <1>1, <1>2 DEF CastInv, BridgeOwned
<1>4. CastTypeOK'
  BY <1>1, <1>2 DEF CastInv, CastTypeOK
<1>5. bridge'.server # {} =>
         bridge'.live # {} \/ \E d \in CastCalls : castPc'[d].at = "listening"
  <2>1. bridge.server # {} =>
           bridge.live # {} \/ \E d \in CastCalls : castPc[d].at = "listening"
    BY DEF CastInv
  <2> QED
    BY <1>1, <2>1
<1>6. ServerGood'
  BY ServedKeeps DEF CastInv
<1> QED
  BY <1>1, <1>2, <1>3, <1>4, <1>5, <1>6, CastKeeps

LEMMA CastStep ==
  ASSUME CastInv, [CastNext]_castVars
  PROVE  CastInv'
<1> USE CastBounds
<1>1. CASE TokenExpires
  <2>1. PICK token \in bridge.live : bridge' = Revoked(bridge, {token})
    BY <1>1 DEF TokenExpires
  <2>2. /\ bridge' \in Bridges
        /\ bridge'.live \subseteq bridge.live
        /\ bridge'.server # {} => /\ bridge.server # {}
                                  /\ bridge.live # {} => bridge'.live # {}
    <3>1. bridge \in Bridges
      BY DEF CastInv, CastTypeOK
    <3> HIDE DEF CastInv
    <3> QED
      BY <2>1, <3>1, RevokedTyped
  <2>3. CastTypeOK' /\ UNCHANGED <<caster, castPc, stopping, castMet>>
    BY <1>1, <2>2 DEF TokenExpires, CastInv, CastTypeOK
  <2>4. \A c \in CastCalls : LiveOf(c) \cap bridge'.live \subseteq caster'.held[c]
    BY <2>3 DEF CastInv, BridgeOwned
  <2>5. bridge'.server # {} =>
          bridge'.live # {} \/ \E c \in CastCalls : castPc'[c].at = "listening"
    <3>1. bridge.server # {} =>
             bridge.live # {} \/ \E c \in CastCalls : castPc[c].at = "listening"
      BY DEF CastInv
    <3> QED
      BY <2>2, <2>3, <3>1
  <2>6. ServerGood'
    BY <2>1, <2>3, ServedKeeps DEF CastInv
  <2> QED
    BY <2>2, <2>3, <2>4, <2>5, <2>6, CastKeeps
<1>2. CASE Disconnect
  BY <1>2, DisconnectsStep DEF Disconnect, CastInv, CastTypeOK
<1>3. ASSUME NEW known \in BOOLEAN, Discover(known) PROVE CastInv'
  <2>1. /\ caster' \in [known : BOOLEAN, session : CastCalls \cup {"none"},
                     state : [CastCalls -> CastStates],
                     held : [CastCalls -> SUBSET Tokens]]
        /\ caster'.session = caster.session
        /\ caster'.held = IF known THEN caster.held ELSE HeldByOthers
    <3>1. CASE known
      BY <1>3, <3>1 DEF Discover, CastInv, CastTypeOK
    <3>2. CASE ~known
      <4>1. [c \in CastCalls |-> IF c \in OfSession THEN "error"
                                 ELSE caster.state[c]]
               \in [CastCalls -> CastStates]
        BY DEF CastInv, CastTypeOK, CastStates
      <4>2. caster' = [known |-> FALSE, session |-> caster.session,
                       held |-> HeldByOthers,
                       state |-> [c \in CastCalls |->
                                    IF c \in OfSession THEN "error"
                                    ELSE caster.state[c]]]
        BY <1>3, <3>2 DEF Discover, CastInv, CastTypeOK
      <4> QED
        BY <3>2, <4>1, <4>2, LeavesSession DEF CastInv, CastTypeOK
    <3> QED
      BY <3>1, <3>2
  <2>2. /\ bridge' \in Bridges
        /\ bridge'.live \subseteq bridge.live
        /\ bridge'.server # {} => bridge'.live # {}
              \/ \E c \in CastCalls : castPc[c].at = "listening"
    BY <1>3, LeavesSession DEF Discover, CastInv, CastTypeOK
  <2>3. \A c \in CastCalls : LiveOf(c) \cap bridge'.live \subseteq caster'.held[c]
    BY <1>3, <2>1, LeavesSession DEF Discover, CastInv, BridgeOwned
  <2>4. CastTypeOK' /\ UNCHANGED <<castPc, stopping, castMet>>
    BY <1>3, <2>1, <2>2 DEF Discover, CastInv, CastTypeOK
  <2>5. ServerGood'
    BY <1>3, ServedKeeps DEF Discover, CastInv
  <2> QED
    BY <2>1, <2>2, <2>3, <2>4, <2>5, CastKeeps
<1>4. ASSUME NEW c \in CastCalls, CastBegins(c) PROVE CastInv'
  <2>1. /\ castPc' \in [CastCalls -> [at : CastSteps, bridged : SUBSET Assets]]
        /\ \A d \in CastCalls : \/ castPc'[d] = castPc[d]
                                \/ /\ castPc[d].at = "idle"
                                   /\ castPc'[d].at = "leaves"
    BY <1>4 DEF CastBegins, CastInv, CastTypeOK, CastSteps
  <2> QED
    BY <1>4, <2>1, DisconnectsStep DEF CastBegins
<1>5. ASSUME NEW c \in CastCalls, CastOpens(c) \/ CastPlays(c) \/ CastSeeks(c)
      PROVE  CastInv'
  <2>1. /\ caster' \in [known : BOOLEAN, session : CastCalls \cup {"none"},
                     state : [CastCalls -> CastStates],
                     held : [CastCalls -> SUBSET Tokens]]
        /\ caster'.held = caster.held /\ UNCHANGED bridge
        /\ \/ caster'.session = caster.session
           \/ /\ castPc'[c].at = "creates" /\ caster'.session = c
              /\ castMet' = castMet \cup OfSession
    <3>1. [caster.state EXCEPT ![c] = "fine"] \in [CastCalls -> CastStates]
      BY DEF CastInv, CastTypeOK, CastStates
    <3>2. CASE CastOpens(c)
      <4>1. caster' = [known |-> caster.known, session |-> c,
                       state |-> [caster.state EXCEPT ![c] = "fine"],
                       held |-> caster.held]
        BY <3>2 DEF CastOpens, CastInv, CastTypeOK
      <4>2. castPc'[c].at = "creates" /\ castMet' = castMet \cup OfSession
            /\ UNCHANGED bridge
        BY <3>2 DEF CastOpens, Goes, CastInv, CastTypeOK
      <4> QED
        BY <3>1, <4>1, <4>2 DEF CastInv, CastTypeOK
    <3>3. CASE CastPlays(c)
      <4>1. caster' = [known |-> caster.known, session |-> caster.session,
                       state |-> [caster.state EXCEPT ![c] = "fine"],
                       held |-> caster.held]
        BY <3>3 DEF CastPlays, CastInv, CastTypeOK
      <4>2. UNCHANGED bridge
        BY <3>3 DEF CastPlays
      <4>3. caster.known \in BOOLEAN /\ caster.session \in CastCalls \cup {"none"}
            /\ caster.held \in [CastCalls -> SUBSET Tokens]
        BY DEF CastInv, CastTypeOK
      <4> HIDE DEF CastInv
      <4> QED
        BY <3>1, <4>1, <4>2, <4>3
    <3>4. CASE CastSeeks(c)
      <4>1. UNCHANGED <<caster, bridge>>
        BY <3>4 DEF CastSeeks
      <4>2. caster \in [known : BOOLEAN, session : CastCalls \cup {"none"},
                       state : [CastCalls -> CastStates],
                       held : [CastCalls -> SUBSET Tokens]]
        BY DEF CastInv, CastTypeOK
      <4> QED
        BY <4>1, <4>2
    <3> QED
      BY <1>5, <3>2, <3>3, <3>4
  <2>2. /\ castPc' \in [CastCalls -> [at : CastSteps, bridged : SUBSET Assets]]
        /\ \A d \in CastCalls : d # c => castPc'[d] = castPc[d]
        /\ \/ castPc[c].at = "leaves" /\ castPc'[c].at = "creates"
              /\ caster'.session = c
           \/ castPc[c].at = "creates" /\ castPc'[c].at \in {"seeks", "done"}
           \/ castPc[c].at = "seeks" /\ castPc'[c].at = "done"
        /\ castPc[c].at # "listening"
    <3> USE DEF CastInv, CastTypeOK, CastSteps
    <3>1. CASE CastOpens(c)
      BY <3>1 DEF CastOpens, Goes
    <3>2. CASE CastPlays(c)
      BY <3>2 DEF CastPlays, Goes
    <3>3. CASE CastSeeks(c)
      BY <3>3 DEF CastSeeks, Goes
    <3> QED
      BY <1>5, <3>1, <3>2, <3>3
  <2>3. castMet \subseteq castMet' /\ castMet' \subseteq CastCalls
        /\ stopping' \subseteq CastCalls
    BY <1>5 DEF CastOpens, CastPlays, CastSeeks, CastInv, CastTypeOK,
       OfSession
  <2>4. CastTypeOK'
    BY <2>1, <2>2, <2>3 DEF CastInv, CastTypeOK
  <2>5. \A d \in CastCalls : caster.session = d /\ caster'.session # d
                                => d \in castMet'
    BY <2>1 DEF OfSession
  <2>6. \A d \in CastCalls : LiveOf(d) \cap bridge'.live \subseteq caster'.held[d]
    BY <2>1 DEF CastInv, BridgeOwned
  <2>7. bridge'.server # {} =>
          bridge'.live # {} \/ \E d \in CastCalls : castPc'[d].at = "listening"
    BY <2>1, <2>2 DEF CastInv
  <2>8. ServerGood'
    <3>1. \A d \in CastCalls : \/ castPc'[d] = castPc[d]
                               \/ /\ castPc[d].at # "listening"
                                  /\ castPc'[d].at # "listening"
      BY <2>2
    <3> QED
      BY <2>1, <2>3, <3>1, ServedKeeps DEF CastInv
  <2> QED
    BY <2>1, <2>2, <2>3, <2>4, <2>5, <2>6, <2>7, <2>8, CastKeeps
<1>6. ASSUME NEW c \in CastCalls, CastCreates(c) \/ CastListens(c)
      PROVE  CastInv'
  <2>1. NextAsset(c) \in Assets
    BY DEF NextAsset, Assets
  <2>2. CASE CastListens(c)
    BY <2>1, <2>2, IssuesStep DEF CastListens
  <2>3. CASE CastCreates(c) /\ bridge.server # {}
    BY <2>1, <2>3, IssuesStep DEF CastCreates
  <2>4. CASE CastCreates(c) /\ bridge.server = {}
    <3>1. /\ bridge' = [live |-> bridge.live, server |-> {<<c, NextAsset(c)>>},
                        up |-> bridge.up]
          /\ UNCHANGED <<caster, stopping, castMet>>
          /\ castPc[c].at = "creates" /\ castPc'[c].at = "listening"
          /\ castPc'[c].bridged = castPc[c].bridged
          /\ \A d \in CastCalls : d # c => castPc'[d] = castPc[d]
          /\ castPc' \in [CastCalls -> [at : CastSteps, bridged : SUBSET Assets]]
      <4>1. /\ bridge' = [bridge EXCEPT !.server = {<<c, NextAsset(c)>>}]
            /\ Goes(c, "listening")
        BY <2>4 DEF CastCreates
      <4> QED
        BY <2>4, <4>1 DEF CastCreates, Goes, CastInv, CastTypeOK, CastSteps
    <3>2. CastTypeOK'
      <4>1. {<<c, NextAsset(c)>>} \in SUBSET Tokens
        BY <2>1 DEF Tokens
      <4> QED
        BY <3>1, <4>1 DEF CastInv, CastTypeOK
    <3>3. \A d \in CastCalls : LiveOf(d) \cap bridge'.live \subseteq caster'.held[d]
      BY <3>1 DEF CastInv, BridgeOwned
    <3>4. ServerGood'
      <4> SUFFICES ASSUME castMet = {} PROVE ServerGood'
        BY <3>1 DEF ServerGood
      <4>1. \A d \in CastCalls : d # c => castPc[d].at # "listening"
        BY <3>1 DEF CastInv
      <4>2. bridge.live = {} /\ bridge.up = {}
        BY <2>4, <3>1, <4>1 DEF CastInv, ServerGood, BridgeGood
      <4>3. NextAsset(c)' = NextAsset(c)
        BY <3>1 DEF NextAsset
      <4>4. castPc'[c].at = "listening" /\ bridge'.live = {} /\ bridge'.up = {}
            /\ bridge'.server = {<<c, NextAsset(c)>>}
        BY <3>1, <4>2
      <4> QED
        BY <3>1, <4>1, <4>3, <4>4 DEF ServerGood
    <3> QED
      BY <3>1, <3>2, <3>3, <3>4, CastKeeps
  <2> QED
    BY <1>6, <2>2, <2>3, <2>4
<1>7. ASSUME NEW c \in CastCalls, CastAnswered(c) PROVE CastInv'
  <2>1. PICK state \in {"fine", "error"} :
          /\ caster' = [caster EXCEPT !.state[c] = state,
                            !.held[c] = IF state = "error" THEN {} ELSE @]
          /\ bridge' = IF state = "error" THEN Revoked(bridge, caster.held[c])
                       ELSE bridge
    BY <1>7 DEF CastAnswered
  <2>2. CASE state = "error"
    BY <1>7, <2>1, <2>2, RevokesStep DEF CastAnswered, CastInv, CastTypeOK
  <2>3. CASE state = "fine"
    <3>1. /\ caster' \in [known : BOOLEAN, session : CastCalls \cup {"none"},
                       state : [CastCalls -> CastStates],
                       held : [CastCalls -> SUBSET Tokens]]
          /\ caster'.held = caster.held /\ caster'.session = caster.session
          /\ UNCHANGED <<bridge, castPc, stopping, castMet>>
      BY <1>7, <2>1, <2>3 DEF CastAnswered, CastInv, CastTypeOK, CastStates
    <3>2. CastTypeOK'
      BY <3>1 DEF CastInv, CastTypeOK
    <3>3. \A d \in CastCalls : LiveOf(d) \cap bridge'.live \subseteq caster'.held[d]
      BY <3>1 DEF CastInv, BridgeOwned
    <3>4. ServerGood'
      BY <3>1, ServedKeeps DEF CastInv
    <3> QED
      BY <3>1, <3>2, <3>3, <3>4, CastKeeps DEF CastInv
  <2> QED
    BY <2>1, <2>2, <2>3
<1>8. ASSUME NEW c \in CastCalls, StopEnds(c) PROVE CastInv'
  BY <1>8, RevokesStep DEF StopEnds, CastInv, CastTypeOK
<1>9. ASSUME NEW c \in CastCalls, StopAsks(c) PROVE CastInv'
  BY <1>9 DEF StopAsks, CastInv, CastTypeOK, BridgeOwned, LiveOf, Casting,
     ServerGood, BridgeGood, NextAsset
<1>10. CASE UNCHANGED castVars
  BY <1>10 DEF castVars, CastInv, CastTypeOK, BridgeOwned, LiveOf, Casting,
     ServerGood, BridgeGood, NextAsset
<1> QED
  BY <1>1, <1>2, <1>3, <1>4, <1>5, <1>6, <1>7, <1>8, <1>9,
     <1>10, CastFailsStep DEF CastNext

LEMMA CastStarts == CastInit => CastInv
  BY CastBounds DEF CastInit, CastInv, CastTypeOK, BridgeOwned, LiveOf, Casting,
     CastSteps, CastStates, ServerGood, BridgeGood

\* What every cast, disconnect, discovery and expiry keeps: tokens have owners
\* that can still revoke them.
THEOREM CastInvariance == CastSpec => []CastInv
  BY CastStarts, CastStep, PTL DEF CastSpec

\* The session of the caster, the bridge, its tokens and the calls keep their
\* types.
THEOREM CastTyped == CastSpec => []CastTypeOK
<1>1. CastInv => CastTypeOK
  BY DEF CastInv
<1> QED
  BY <1>1, CastInvariance, PTL

\* A live token of the bridge can always be revoked by who holds it, for any
\* number of casts.  While no cast lost its session to another call, a server
\* listens only for a live token (cast, disconnect, markDeviceLost,
\* closeBridgeSessions, CastMediaBridge.revoke and closeServer).
THEOREM TokensAreOwned == CastSpec => []BridgeOwned
<1>1. CastInv => BridgeOwned
  BY DEF CastInv
<1> QED
  BY <1>1, CastInvariance, PTL

HIDE DEF Bridges

-----------------------------------------------------------------------------
(* LocalMedia. *)

LmStatuses == {"none", "idle", "scanning", "cancelled", "error"}
LmScan == [at : {"idle", "walking", "done"}, id : LmCalls \cup {"none"},
           path : LmPaths \cup {"none"}, aborted : BOOLEAN,
           rest : SUBSET LmRecords]
LmState == [row : [LmPaths -> [id : LmCalls \cup {"none"}, status : LmStatuses]],
            abort : LmCalls \cup {"none"}, root : LmCalls \cup {"none"},
            scan : [LmCalls -> LmScan]]

\* Somewhere in the state, id is the record of the folder p.
Knows(s, id, p) ==
    \/ s.row[p].id = id
    \/ \E c \in LmCalls : /\ s.scan[c].at = "walking"
                          /\ s.scan[c].id = id /\ s.scan[c].path = p
    \/ \E c \in LmCalls : [id |-> id, path |-> p] \in s.scan[c].rest

\* A record was made for one folder, by the call it is named for.
OneFolder(s) ==
    \A id \in LmCalls, p \in LmPaths, q \in LmPaths :
        Knows(s, id, p) /\ Knows(s, id, q) => p = q
MadeBy(s, id) == s.scan[id].at = "idle" => \A p \in LmPaths : ~Knows(s, id, p)

Owned(s) ==
    /\ \A c \in LmCalls :
          IF s.scan[c].at = "walking"
          THEN /\ s.scan[c].id \in LmCalls /\ s.scan[c].path \in LmPaths
               /\ s.scan[c].aborted \/ s.abort = c
          ELSE s.scan[c].rest = {}
    /\ \A p \in LmPaths :
          /\ s.row[p].id = "none" => s.row[p].status = "none"
          /\ s.row[p].status = "scanning" =>
                \E c \in LmCalls : /\ s.scan[c].at = "walking"
                                   /\ s.scan[c].id = s.row[p].id

\* ScansAreOwned, and why: a record belongs to one folder for ever, so that the
\* scan that ends writes over the very row that waits for it.
LmGood(s) == s \in LmState /\ OneFolder(s) /\ Owned(s)
LmInv == LmGood(lm) /\ \A id \in LmCalls : MadeBy(lm, id)

\* scanAbort.abort() leaves nobody walking unaborted, and changes nothing else.
LEMMA AbortsAll ==
  ASSUME NEW s, LmGood(s)
  PROVE  /\ LmGood(Aborts(s))
         /\ \A id \in LmCalls, p \in LmPaths : Knows(Aborts(s), id, p) <=> Knows(s, id, p)
         /\ Aborts(s).row = s.row /\ Aborts(s).root = s.root
         /\ Aborts(s).abort = s.abort
         /\ \A c \in LmCalls :
               /\ Aborts(s).scan[c].at = s.scan[c].at
               /\ Aborts(s).scan[c].id = s.scan[c].id
               /\ Aborts(s).scan[c].path = s.scan[c].path
               /\ Aborts(s).scan[c].rest = s.scan[c].rest
               /\ Aborts(s).scan[c].at = "walking" => Aborts(s).scan[c].aborted
<1> DEFINE t == Aborts(s)
<1>1. /\ t.row = s.row /\ t.root = s.root /\ t.abort = s.abort
      /\ t.scan = [c \in LmCalls |->
                      IF c = s.abort /\ s.scan[c].at = "walking"
                      THEN [s.scan[c] EXCEPT !.aborted = TRUE] ELSE s.scan[c]]
      /\ t = [row |-> t.row, abort |-> t.abort, root |-> t.root, scan |-> t.scan]
  <2>1. s \in LmState
    BY DEF LmGood
  <2>2. t = [s EXCEPT !.scan = [c \in LmCalls |->
                      IF c = s.abort /\ s.scan[c].at = "walking"
                      THEN [s.scan[c] EXCEPT !.aborted = TRUE] ELSE s.scan[c]]]
    BY <2>1 DEF Aborts, LmState
  <2> HIDE DEF t
  <2> QED
    BY <2>1, <2>2 DEF LmState
<1> HIDE DEF t
<1>2. ASSUME NEW c \in LmCalls
      PROVE  /\ t.scan[c] \in LmScan
             /\ t.scan[c].at = s.scan[c].at
             /\ t.scan[c].id = s.scan[c].id
             /\ t.scan[c].path = s.scan[c].path
             /\ t.scan[c].rest = s.scan[c].rest
             /\ t.scan[c].at = "walking" => t.scan[c].aborted
  <2>1. s.scan[c] \in LmScan
    BY DEF LmGood, LmState
  <2>2. s.scan[c].at = "walking" => s.scan[c].aborted \/ s.abort = c
    BY DEF LmGood, Owned
  <2>3. CASE c = s.abort /\ s.scan[c].at = "walking"
    <3>1. \A x \in LmScan :
             /\ [x EXCEPT !.aborted = TRUE] \in LmScan
             /\ [x EXCEPT !.aborted = TRUE].at = x.at
             /\ [x EXCEPT !.aborted = TRUE].id = x.id
             /\ [x EXCEPT !.aborted = TRUE].path = x.path
             /\ [x EXCEPT !.aborted = TRUE].rest = x.rest
             /\ [x EXCEPT !.aborted = TRUE].aborted = TRUE
      BY DEF LmScan
    <3>2. t.scan[c] = [s.scan[c] EXCEPT !.aborted = TRUE]
      BY <1>1, <2>3
    <3> QED
      BY <2>1, <3>1, <3>2
  <2>4. CASE ~(c = s.abort /\ s.scan[c].at = "walking")
    <3>1. t.scan[c] = s.scan[c]
      BY <1>1, <2>4
    <3> QED
      BY <2>1, <2>2, <2>4, <3>1
  <2> QED
    BY <2>3, <2>4
<1>3. t \in LmState
  <2>1. t.scan \in [LmCalls -> LmScan]
    BY <1>1, <1>2
  <2> QED
    BY <1>1, <2>1 DEF LmGood, LmState
<1>4. ASSUME NEW id \in LmCalls, NEW p \in LmPaths
      PROVE  Knows(t, id, p) <=> Knows(s, id, p)
  BY <1>1, <1>2 DEF Knows
<1>5. OneFolder(t)
  BY <1>4 DEF OneFolder, LmGood
<1>6. Owned(t)
  BY <1>1, <1>2 DEF Owned, LmGood
<1> QED
  BY <1>1, <1>2, <1>3, <1>4, <1>5, <1>6 DEF LmGood, t

\* A call that is not walking begins a scan.
LEMMA BeginsGood ==
  ASSUME NEW s, LmGood(s), NEW c \in LmCalls, NEW r \in LmRecords,
         NEW rest \in SUBSET LmRecords,
         s.scan[c].at # "walking",
         \A id \in LmCalls : id # c => MadeBy(s, id),
         \A e \in rest \cup {r} : e.id # c => s.scan[e.id].at # "idle",
         \A e \in rest \cup {r}, q \in LmPaths : Knows(s, e.id, q) => q = e.path,
         \A e \in rest \cup {r}, f \in rest \cup {r} :
            e.id = f.id => e.path = f.path
  PROVE  /\ LmGood(Begins(s, c, r, rest))
         /\ \A id \in LmCalls : MadeBy(Begins(s, c, r, rest), id)
<1> DEFINE a == Aborts(s)
           t == Begins(s, c, r, rest)
<1>1. /\ LmGood(a)
      /\ \A id \in LmCalls, p \in LmPaths : Knows(a, id, p) <=> Knows(s, id, p)
      /\ a.row = s.row /\ a.root = s.root
      /\ \A d \in LmCalls :
            /\ a.scan[d].at = s.scan[d].at
            /\ a.scan[d].id = s.scan[d].id
            /\ a.scan[d].rest = s.scan[d].rest
            /\ a.scan[d].at = "walking" => a.scan[d].aborted
  BY AbortsAll
<1>2. r.id \in LmCalls /\ r.path \in LmPaths /\ r = [id |-> r.id, path |-> r.path]
  BY DEF LmRecords
<1>3. CASE Writable(s, r.path, r.id)
  <2>1. t = [row |-> [a.row EXCEPT ![r.path] = [id |-> r.id, status |-> "scanning"]],
             abort |-> c, root |-> r.id,
             scan |-> [a.scan EXCEPT ![c] =
                [at |-> "walking", id |-> r.id, path |-> r.path,
                 aborted |-> FALSE, rest |-> rest]]]
    BY <1>1, <1>3 DEF Begins, LmGood, LmState
  <2> HIDE DEF a, t
  <2>2. /\ a.row \in [LmPaths -> [id : LmCalls \cup {"none"}, status : LmStatuses]]
        /\ a.scan \in [LmCalls -> LmScan]
    BY <1>1 DEF LmGood, LmState
  <2>3. /\ t.row[r.path] = [id |-> r.id, status |-> "scanning"]
        /\ \A p \in LmPaths : p # r.path => t.row[p] = a.row[p]
        /\ t.abort = c
        /\ t.scan[c] = [at |-> "walking", id |-> r.id, path |-> r.path,
                        aborted |-> FALSE, rest |-> rest]
        /\ \A d \in LmCalls : d # c => t.scan[d] = a.scan[d]
    BY <1>2, <2>1, <2>2
  <2>4. t \in LmState
    <3>1. [at |-> "walking", id |-> r.id, path |-> r.path, aborted |-> FALSE,
           rest |-> rest] \in LmScan
      BY <1>2 DEF LmScan
    <3>2. [id |-> r.id, status |-> "scanning"]
            \in [id : LmCalls \cup {"none"}, status : LmStatuses]
      BY <1>2 DEF LmStatuses
    <3>3. /\ [a.row EXCEPT ![r.path] = [id |-> r.id, status |-> "scanning"]]
              \in [LmPaths -> [id : LmCalls \cup {"none"}, status : LmStatuses]]
          /\ [a.scan EXCEPT ![c] = [at |-> "walking", id |-> r.id, path |-> r.path,
                                   aborted |-> FALSE, rest |-> rest]]
              \in [LmCalls -> LmScan]
      BY <1>2, <2>2, <3>1, <3>2
    <3> QED
      BY <1>2, <2>1, <3>3 DEF LmState
  <2>5. ASSUME NEW id \in LmCalls, NEW p \in LmPaths, Knows(t, id, p)
        PROVE  Knows(s, id, p) \/ [id |-> id, path |-> p] \in rest \cup {r}
    <3>1. CASE t.row[p].id = id
      BY <1>1, <1>2, <2>3, <3>1 DEF Knows
    <3>2. ASSUME NEW d \in LmCalls, t.scan[d].at = "walking", t.scan[d].id = id,
                 t.scan[d].path = p
          PROVE  Knows(s, id, p) \/ [id |-> id, path |-> p] \in rest \cup {r}
      <4>1. CASE d = c
        BY <1>2, <2>3, <3>2, <4>1
      <4>2. CASE d # c
        BY <1>1, <2>3, <3>2, <4>2 DEF Knows
      <4> QED
        BY <4>1, <4>2
    <3>3. ASSUME NEW d \in LmCalls, [id |-> id, path |-> p] \in t.scan[d].rest
          PROVE  Knows(s, id, p) \/ [id |-> id, path |-> p] \in rest \cup {r}
      BY <1>1, <2>3, <3>3 DEF Knows
    <3> QED
      BY <2>5, <3>1, <3>2, <3>3 DEF Knows
  <2>6. OneFolder(t)
    <3> SUFFICES ASSUME NEW id \in LmCalls, NEW p \in LmPaths, NEW q \in LmPaths,
                        Knows(t, id, p), Knows(t, id, q)
                 PROVE  p = q
      BY DEF OneFolder
    <3>1. /\ Knows(s, id, p) \/ [id |-> id, path |-> p] \in rest \cup {r}
          /\ Knows(s, id, q) \/ [id |-> id, path |-> q] \in rest \cup {r}
      BY <2>5
    <3>2. Knows(s, id, p) /\ Knows(s, id, q) => p = q
      BY DEF LmGood, OneFolder
    <3> DEFINE e == [id |-> id, path |-> p]
               f == [id |-> id, path |-> q]
    <3>3. e.id = id /\ e.path = p /\ f.id = id /\ f.path = q
      OBVIOUS
    <3> HIDE DEF e, f
    <3> QED
      BY <3>1, <3>2, <3>3 DEF e, f
  <2>7. Owned(t)
    <3>1. ASSUME NEW d \in LmCalls
          PROVE  IF t.scan[d].at = "walking"
                 THEN /\ t.scan[d].id \in LmCalls /\ t.scan[d].path \in LmPaths
                      /\ t.scan[d].aborted \/ t.abort = d
                 ELSE t.scan[d].rest = {}
      BY <1>1, <1>2, <2>3 DEF LmGood, Owned
    <3>2. ASSUME NEW p \in LmPaths
          PROVE  /\ t.row[p].id = "none" => t.row[p].status = "none"
                 /\ t.row[p].status = "scanning" =>
                       \E d \in LmCalls : /\ t.scan[d].at = "walking"
                                          /\ t.scan[d].id = t.row[p].id
      <4>1. CASE p = r.path
        BY <1>2, <2>3, <4>1, LmNames
      <4>2. CASE p # r.path
        <5>1. /\ a.row[p].id = "none" => a.row[p].status = "none"
              /\ a.row[p].status = "scanning" =>
                    \E d \in LmCalls : /\ a.scan[d].at = "walking"
                                       /\ a.scan[d].id = a.row[p].id
          BY <1>1 DEF LmGood, Owned
        <5>2. a.scan[c].at # "walking"
          BY <1>1
        <5> QED
          BY <2>3, <4>2, <5>1, <5>2
      <4> QED
        BY <4>1, <4>2
    <3> QED
      BY <3>1, <3>2 DEF Owned
  <2>8. ASSUME NEW id \in LmCalls, t.scan[id].at = "idle", NEW p \in LmPaths,
               Knows(t, id, p)
        PROVE  FALSE
    <3>1. id # c /\ s.scan[id].at = "idle"
      BY <1>1, <2>3, <2>8
    <3>2. ~Knows(s, id, p)
      BY <3>1 DEF MadeBy
    <3> DEFINE e == [id |-> id, path |-> p]
    <3>3. e.id = id
      OBVIOUS
    <3> HIDE DEF e
    <3>4. e \in rest \cup {r}
      BY <2>5, <2>8, <3>2 DEF e
    <3> QED
      BY <3>1, <3>3, <3>4
  <2> QED
    BY <2>4, <2>6, <2>7, <2>8 DEF LmGood, MadeBy, t
<1>4. CASE ~Writable(s, r.path, r.id)
  <2>1. t = [row |-> a.row, abort |-> c, root |-> r.id,
             scan |-> [a.scan EXCEPT ![c] = Call("done")]]
    BY <1>1, <1>4 DEF Begins, LmGood, LmState
  <2> HIDE DEF a, t
  <2>2. /\ a.row \in [LmPaths -> [id : LmCalls \cup {"none"}, status : LmStatuses]]
        /\ a.scan \in [LmCalls -> LmScan]
    BY <1>1 DEF LmGood, LmState
  <2>3. /\ t.row = a.row /\ t.abort = c
        /\ t.scan[c].at = "done" /\ t.scan[c].rest = {}
        /\ \A d \in LmCalls : d # c => t.scan[d] = a.scan[d]
    BY <2>1, <2>2 DEF Call
  <2>4. t \in LmState
    <3>1. Call("done") \in LmScan
      BY DEF LmScan, Call
    <3>2. [a.scan EXCEPT ![c] = Call("done")] \in [LmCalls -> LmScan]
      BY <2>2, <3>1
    <3> QED
      BY <1>2, <2>1, <2>2, <3>2 DEF LmState
  <2>5. ASSUME NEW id \in LmCalls, NEW p \in LmPaths, Knows(t, id, p)
        PROVE  Knows(s, id, p)
    <3>1. Knows(a, id, p)
      BY <2>3, <2>5 DEF Knows
    <3> QED
      BY <1>1, <3>1
  <2>6. OneFolder(t)
    BY <2>5 DEF OneFolder, LmGood
  <2>7. Owned(t)
    <3>1. ASSUME NEW d \in LmCalls
          PROVE  IF t.scan[d].at = "walking"
                 THEN /\ t.scan[d].id \in LmCalls /\ t.scan[d].path \in LmPaths
                      /\ t.scan[d].aborted
                 ELSE t.scan[d].rest = {}
      BY <1>1, <2>3 DEF LmGood, Owned
    <3>2. a.scan[c].at # "walking"
      BY <1>1
    <3>3. ASSUME NEW p \in LmPaths
          PROVE  /\ t.row[p].id = "none" => t.row[p].status = "none"
                 /\ t.row[p].status = "scanning" =>
                       \E d \in LmCalls : /\ t.scan[d].at = "walking"
                                          /\ t.scan[d].id = t.row[p].id
      BY <1>1, <2>3, <3>2 DEF LmGood, Owned
    <3> QED
      BY <3>1, <3>3 DEF Owned
  <2>8. ASSUME NEW id \in LmCalls PROVE MadeBy(t, id)
    BY <1>1, <2>3, <2>5 DEF MadeBy
  <2> QED
    BY <2>4, <2>6, <2>7, <2>8 DEF LmGood, t
<1> QED
  BY <1>3, <1>4

\* A call ends its scan: the row of its folder, where it may write it, no
\* longer waits, and its own controller is forgotten.
Ended(s, c, status, root, at) ==
    LET id == s.scan[c].id
        path == s.scan[c].path
    IN [row |-> IF Writable(s, path, id)
                THEN [s.row EXCEPT ![path] = [id |-> id, status |-> status]]
                ELSE s.row,
        abort |-> IF s.abort = c THEN "none" ELSE s.abort,
        root |-> root,
        scan |-> [s.scan EXCEPT ![c] = Call(at)]]

LEMMA EndsGood ==
  ASSUME NEW s, LmGood(s), \A id \in LmCalls : MadeBy(s, id),
         NEW c \in LmCalls, s.scan[c].at = "walking",
         NEW status \in {"idle", "cancelled", "error"},
         NEW root \in LmCalls \cup {"none"}, NEW at \in {"idle", "done"}
  PROVE  /\ LmGood(Ended(s, c, status, root, at))
         /\ \A id \in LmCalls :
               id # c \/ at = "done" => MadeBy(Ended(s, c, status, root, at), id)
         /\ \A id \in LmCalls, p \in LmPaths :
               Knows(Ended(s, c, status, root, at), id, p) => Knows(s, id, p)
<1> DEFINE t == Ended(s, c, status, root, at)
           row == t.row
<1>0. /\ row = IF Writable(s, s.scan[c].path, s.scan[c].id)
               THEN [s.row EXCEPT ![s.scan[c].path] =
                        [id |-> s.scan[c].id, status |-> status]]
               ELSE s.row
      /\ t = [row |-> row, abort |-> IF s.abort = c THEN "none" ELSE s.abort,
              root |-> root, scan |-> [s.scan EXCEPT ![c] = Call(at)]]
  BY DEF Ended
<1> HIDE DEF t, row
<1> DEFINE id0 == s.scan[c].id
           p0 == s.scan[c].path
<1>1. /\ id0 \in LmCalls /\ p0 \in LmPaths /\ id0 # "none"
      /\ s.row \in [LmPaths -> [id : LmCalls \cup {"none"}, status : LmStatuses]]
      /\ s.scan \in [LmCalls -> LmScan] /\ s.abort \in LmCalls \cup {"none"}
  BY LmNames DEF LmGood, LmState, Owned
<1>2. Knows(s, id0, p0)
  BY <1>1 DEF Knows
<1> HIDE DEF id0, p0
<1>3. /\ row \in [LmPaths -> [id : LmCalls \cup {"none"}, status : LmStatuses]]
      /\ \A p \in LmPaths :
            \/ row[p] = s.row[p]
            \/ p = p0 /\ row[p].id = id0 /\ row[p].status = status
      /\ row[p0].id = id0 => row[p0].status = status
  <2>1. [id |-> id0, status |-> status]
          \in [id : LmCalls \cup {"none"}, status : LmStatuses]
    BY <1>1 DEF LmStatuses
  <2>2. CASE Writable(s, p0, id0)
    BY <1>0, <1>1, <2>1, <2>2 DEF id0, p0
  <2>3. CASE ~Writable(s, p0, id0)
    BY <1>0, <1>1, <2>3 DEF id0, p0, Writable
  <2> QED
    BY <2>2, <2>3
<1>4. /\ t.row = row /\ t.root = root
      /\ t.abort = IF s.abort = c THEN "none" ELSE s.abort
      /\ t.scan[c].at = at /\ t.scan[c].rest = {}
      /\ \A d \in LmCalls : d # c => t.scan[d] = s.scan[d]
  BY <1>0, <1>1 DEF Call
<1>5. t \in LmState
  <2>1. Call(at) \in LmScan
    BY DEF LmScan, Call
  <2>2. [s.scan EXCEPT ![c] = Call(at)] \in [LmCalls -> LmScan]
    BY <1>1, <2>1
  <2> QED
    BY <1>0, <1>1, <1>3, <2>2 DEF LmState
<1>6. ASSUME NEW id \in LmCalls, NEW p \in LmPaths, Knows(t, id, p)
      PROVE  Knows(s, id, p)
  BY <1>2, <1>3, <1>4, <1>6 DEF Knows
<1>7. OneFolder(t)
  BY <1>6 DEF OneFolder, LmGood
<1>8. Owned(t)
  <2>1. ASSUME NEW d \in LmCalls
        PROVE  IF t.scan[d].at = "walking"
               THEN /\ t.scan[d].id \in LmCalls /\ t.scan[d].path \in LmPaths
                    /\ t.scan[d].aborted \/ t.abort = d
               ELSE t.scan[d].rest = {}
    BY <1>4 DEF LmGood, Owned
  <2>2. ASSUME NEW p \in LmPaths
        PROVE  /\ t.row[p].id = "none" => t.row[p].status = "none"
               /\ t.row[p].status = "scanning" =>
                     \E d \in LmCalls : /\ t.scan[d].at = "walking"
                                        /\ t.scan[d].id = t.row[p].id
    <3>1. CASE p = p0 /\ row[p].id = id0
      BY <1>1, <1>3, <1>4, <3>1
    <3>2. CASE p # p0 \/ row[p].id # id0
      <4>1. t.row[p] = s.row[p]
        BY <1>3, <1>4, <3>2
      <4>2. s.row[p].id # id0
        <5>1. CASE p = p0
          BY <1>4, <3>2, <4>1, <5>1
        <5>2. CASE p # p0
          BY <1>1, <1>2, <5>2 DEF LmGood, OneFolder, Knows
        <5> QED
          BY <5>1, <5>2
      <4>3. /\ s.row[p].id = "none" => s.row[p].status = "none"
            /\ s.row[p].status = "scanning" =>
                  \E d \in LmCalls : /\ s.scan[d].at = "walking"
                                     /\ s.scan[d].id = s.row[p].id
        BY DEF LmGood, Owned
      <4> QED
        BY <1>4, <4>1, <4>2, <4>3 DEF id0
    <3> QED
      BY <3>1, <3>2
  <2> QED
    BY <2>1, <2>2 DEF Owned
<1>9. ASSUME NEW id \in LmCalls, id # c \/ at = "done" PROVE MadeBy(t, id)
  BY <1>4, <1>6, <1>9 DEF MadeBy
<1> QED
  BY <1>5, <1>6, <1>7, <1>8, <1>9 DEF LmGood, t

LEMMA LmStep ==
  ASSUME LmInv, [LmNext]_lmVars
  PROVE  LmInv'
<1> USE LmNames
<1>1. /\ LmGood(lm) /\ \A id \in LmCalls : MadeBy(lm, id)
      /\ lm \in LmState
  BY DEF LmInv, LmGood
<1> HIDE DEF LmInv
<1>2. ASSUME NEW p \in LmPaths, p \in Kept
      PROVE  /\ lm.row[p].id \in LmCalls /\ Knows(lm, lm.row[p].id, p)
             /\ lm.scan[lm.row[p].id].at # "idle"
  <2>1. lm.row[p].id \in LmCalls
    BY <1>1, <1>2 DEF LmGood, LmState, Owned, Kept, NoRoot
  <2> QED
    BY <1>1, <2>1 DEF Knows, MadeBy
<1>3. ASSUME NEW s, LmGood(s), \A id \in LmCalls : MadeBy(s, id), NEW id
      PROVE  /\ LmGood(Cancels(s, id)) /\ \A i \in LmCalls : MadeBy(Cancels(s, id), i)
             /\ LmGood(Aborts(s)) /\ \A i \in LmCalls : MadeBy(Aborts(s), i)
  BY <1>3, AbortsAll DEF Cancels, MadeBy
<1>4. ASSUME LmGood(lm'), \A id \in LmCalls : MadeBy(lm', id)
      PROVE  LmInv'
  BY <1>4 DEF LmInv, LmGood, LmState, LmScan, LmStatuses, LmRecords, OneFolder,
     Owned, MadeBy, Knows
<1>5. CASE CancelScan
  <2>1. CASE lm' = Aborts(lm)
    BY <1>1, <1>3, <1>4, <2>1
  <2>2. ASSUME NEW p \in Kept, lm' = Cancels(lm, lm.row[p].id)
        PROVE  LmInv'
    BY <1>1, <1>3, <1>4, <2>2
  <2> QED
    BY <1>5, <2>1, <2>2 DEF CancelScan
<1>6. ASSUME NEW p \in LmPaths, RemoveFolder(p) PROVE LmInv'
  <2> DEFINE s == Cancels(lm, lm.row[p].id)
             t == [s EXCEPT !.row[p] = NoRoot]
  <2>1. LmGood(s) /\ \A i \in LmCalls : MadeBy(s, i)
    BY <1>1, <1>3
  <2>2. lm' = t
    BY <1>6 DEF RemoveFolder
  <2> HIDE DEF s
  <2>3. s \in LmState
    BY <2>1 DEF LmGood
  <2>4. /\ t = [row |-> [s.row EXCEPT ![p] = NoRoot], abort |-> s.abort,
               root |-> s.root, scan |-> s.scan]
        /\ [s.row EXCEPT ![p] = NoRoot]
             \in [LmPaths -> [id : LmCalls \cup {"none"}, status : LmStatuses]]
    <3>1. s.row \in [LmPaths -> [id : LmCalls \cup {"none"}, status : LmStatuses]]
      BY <2>3 DEF LmState
    <3>2. NoRoot \in [id : LmCalls \cup {"none"}, status : LmStatuses]
      BY DEF NoRoot, LmStatuses
    <3>3. t = [row |-> [s.row EXCEPT ![p] = NoRoot], abort |-> s.abort,
               root |-> s.root, scan |-> s.scan]
      BY <2>3 DEF LmState
    <3> HIDE DEF t
    <3> QED
      BY <3>1, <3>2, <3>3
  <2> HIDE DEF t
  <2>5. /\ t.scan = s.scan /\ t.abort = s.abort
        /\ t.row[p].id = "none" /\ t.row[p].status = "none"
        /\ \A q \in LmPaths : q # p => t.row[q] = s.row[q]
    BY <2>3, <2>4 DEF LmState, NoRoot
  <2>6. t \in LmState
    BY <2>3, <2>4 DEF LmState
  <2>7. \A id \in LmCalls, q \in LmPaths : Knows(t, id, q) => Knows(s, id, q)
    BY <2>5 DEF Knows
  <2>8. OneFolder(t) /\ \A id \in LmCalls : MadeBy(t, id)
    BY <2>1, <2>5, <2>7 DEF LmGood, OneFolder, MadeBy
  <2>9. Owned(t)
    BY <2>1, <2>5 DEF LmGood, Owned
  <2> QED
    BY <1>4, <2>2, <2>6, <2>8, <2>9 DEF LmGood
<1>7. ASSUME NEW c \in LmCalls, lm.scan[c].at = "idle",
             NEW r \in LmRecords, NEW rest \in SUBSET LmRecords,
             \A e \in rest \cup {r} :
                (e.id = c /\ rest = {}) \/ Knows(lm, e.id, e.path),
             lm' = Begins(lm, c, r, rest)
      PROVE  LmInv'
  <2>1. \A p \in LmPaths : ~Knows(lm, c, p)
    BY <1>1, <1>7 DEF MadeBy
  <2>3. ASSUME NEW e \in rest \cup {r}
        PROVE  /\ e.id \in LmCalls /\ e.path \in LmPaths
               /\ e.id # c => lm.scan[e.id].at # "idle"
               /\ \A q \in LmPaths : Knows(lm, e.id, q) => q = e.path
    <3>1. e.id \in LmCalls /\ e.path \in LmPaths
      BY DEF LmRecords
    <3> QED
      BY <1>1, <1>7, <2>1, <3>1 DEF MadeBy, LmGood, OneFolder
  <2>4. ASSUME NEW e \in rest \cup {r}, NEW f \in rest \cup {r}, e.id = f.id
        PROVE  e.path = f.path
    BY <1>7, <2>1, <2>3, <2>4
  <2>5. /\ LmGood(Begins(lm, c, r, rest))
        /\ \A id \in LmCalls : MadeBy(Begins(lm, c, r, rest), id)
    BY <1>1, <1>7, <2>3, <2>4, BeginsGood
  <2> QED
    BY <1>4, <1>7, <2>5
<1>8. ASSUME NEW c \in LmCalls, NEW p \in LmPaths, AddFolder(c, p)
      PROVE  LmInv'
  <2> DEFINE id == IF p \in Kept THEN lm.row[p].id ELSE c
  <2>1. /\ lm.scan[c].at = "idle"
        /\ lm' = Begins(lm, c, [id |-> id, path |-> p], {})
    BY <1>8 DEF AddFolder
  <2>2. id \in LmCalls /\ (id = c \/ Knows(lm, id, p))
    BY <1>2
  <2> HIDE DEF id
  <2>3. [id |-> id, path |-> p] \in LmRecords
    BY <2>2 DEF LmRecords
  <2> QED
    BY <1>7, <2>1, <2>2, <2>3
<1>9. ASSUME NEW c \in LmCalls, NEW p \in LmPaths, Rescan(c, p)
      PROVE  LmInv'
  <2>1. /\ lm.row[p].id \in LmCalls /\ Knows(lm, lm.row[p].id, p)
        /\ lm.scan[c].at = "idle"
        /\ lm' = Begins(lm, c, [id |-> lm.row[p].id, path |-> p], {})
    BY <1>2, <1>9 DEF Rescan
  <2>2. [id |-> lm.row[p].id, path |-> p] \in LmRecords
    BY <2>1 DEF LmRecords
  <2> QED
    BY <1>7, <2>1, <2>2
<1>10. ASSUME NEW c \in LmCalls, RescanAll(c) PROVE LmInv'
  <2> DEFINE all == {[id |-> lm.row[p].id, path |-> p] : p \in Kept}
  <2>1. all \subseteq LmRecords /\ \A e \in all : Knows(lm, e.id, e.path)
    BY <1>2 DEF LmRecords, Kept
  <2>2. PICK r \in all : lm' = Begins(lm, c, r, all \ {r})
    BY <1>10 DEF RescanAll
  <2>3. lm.scan[c].at = "idle"
    BY <1>10 DEF RescanAll
  <2> HIDE DEF all
  <2>4. r \in LmRecords /\ all \ {r} \in SUBSET LmRecords
    BY <2>1
  <2> QED
    BY <1>7, <2>1, <2>2, <2>3, <2>4
<1>11. ASSUME NEW c \in LmCalls, ScanSucceeds(c) PROVE LmInv'
  <2> DEFINE id == lm.scan[c].id
             path == lm.scan[c].path
             rest == lm.scan[c].rest
             End(at) == Ended(lm, c, "idle", "none", at)
  <2>1. lm.scan[c].at = "walking" /\ Writable(lm, path, id)
    BY <1>11 DEF ScanSucceeds
  <2>2. \/ lm' = End("done")
        \/ \E r \in rest : lm' = Begins(End("idle"), c, r, rest \ {r})
    <3> DEFINE t == LetsGo([lm EXCEPT !.row[path] = [id |-> id, status |-> "idle"],
                                      !.root = "none"], c)
               row == [lm.row EXCEPT ![path] = [id |-> id, status |-> "idle"]]
               abort == IF lm.abort = c THEN "none" ELSE lm.abort
    <3>1. t = [row |-> row, abort |-> abort, root |-> "none", scan |-> lm.scan]
      <4>1. lm = [row |-> lm.row, abort |-> lm.abort, root |-> lm.root,
                  scan |-> lm.scan]
        BY <1>1 DEF LmState
      <4> DEFINE u == [lm EXCEPT !.row[path] = [id |-> id, status |-> "idle"],
                                 !.root = "none"]
      <4>2. u = [lm EXCEPT !.row = row, !.root = "none"]
        BY <4>1
      <4>3. u = [row |-> row, abort |-> lm.abort, root |-> "none",
                 scan |-> lm.scan]
        <5> HIDE DEF u, row
        <5> QED
          BY <4>1, <4>2
      <4>4. t = [u EXCEPT !.abort = IF @ = c THEN "none" ELSE @]
        BY DEF LetsGo
      <4> HIDE DEF u, t, row
      <4> QED
        BY <4>3, <4>4
    <3>2. \/ lm' = [t EXCEPT !.scan[c] = Call("done")]
          \/ \E r \in rest : lm' = Begins([t EXCEPT !.scan[c] = Call("idle")], c, r,
                                          rest \ {r})
      BY <1>11 DEF ScanSucceeds
    <3>3. \A at : End(at) = [row |-> row, abort |-> abort, root |-> "none",
                             scan |-> [lm.scan EXCEPT ![c] = Call(at)]]
      BY <2>1 DEF Ended
    <3> HIDE DEF t, row, abort, rest, End
    <3>4. \A at : [t EXCEPT !.scan[c] = Call(at)] = End(at)
      BY <3>1, <3>3
    <3> QED
      BY <3>2, <3>4
  <2>3. ASSUME NEW at \in {"idle", "done"}
        PROVE  /\ LmGood(End(at))
               /\ \A i \in LmCalls : i # c \/ at = "done" => MadeBy(End(at), i)
               /\ \A i \in LmCalls, p \in LmPaths :
                     Knows(End(at), i, p) => Knows(lm, i, p)
    BY <1>1, <2>1, EndsGood
  <2>4. CASE lm' = End("done")
    BY <1>4, <2>3, <2>4
  <2>5. ASSUME NEW r \in rest, lm' = Begins(End("idle"), c, r, rest \ {r})
        PROVE  LmInv'
    <3> DEFINE t == End("idle")
    <3>1. \A d \in LmCalls : d # c => t.scan[d] = lm.scan[d]
      BY <1>1 DEF LmState, Ended
    <3>2. t.scan[c].at = "idle"
      BY <1>1 DEF LmState, Ended, Call
    <3>3. rest \subseteq LmRecords
      BY <1>1 DEF LmState, LmScan
    <3>4. /\ LmGood(t) /\ \A i \in LmCalls : i # c => MadeBy(t, i)
          /\ \A i \in LmCalls, p \in LmPaths : Knows(t, i, p) => Knows(lm, i, p)
      BY <2>3
    <3> HIDE DEF t
    <3>5. ASSUME NEW e \in rest
          PROVE  /\ e.id \in LmCalls /\ e.path \in LmPaths
                 /\ Knows(lm, e.id, e.path)
                 /\ e.id # c => t.scan[e.id].at # "idle"
                 /\ \A q \in LmPaths : Knows(t, e.id, q) => q = e.path
      <4>1. /\ e.id \in LmCalls /\ e.path \in LmPaths
            /\ e = [id |-> e.id, path |-> e.path]
        BY <3>3 DEF LmRecords
      <4>2. Knows(lm, e.id, e.path)
        BY <4>1 DEF Knows
      <4> QED
        BY <1>1, <3>1, <3>4, <4>1, <4>2 DEF MadeBy, LmGood, OneFolder
    <3>6. ASSUME NEW e \in rest, NEW f \in rest, e.id = f.id
          PROVE  e.path = f.path
      BY <1>1, <3>5, <3>6 DEF LmGood, OneFolder
    <3>7. r \in LmRecords /\ rest \ {r} \in SUBSET LmRecords
          /\ (rest \ {r}) \cup {r} = rest
      BY <3>3
    <3> HIDE DEF rest
    <3>8. /\ LmGood(Begins(t, c, r, rest \ {r}))
          /\ \A i \in LmCalls : MadeBy(Begins(t, c, r, rest \ {r}), i)
      BY <3>2, <3>4, <3>5, <3>6, <3>7, BeginsGood
    <3> QED
      BY <1>4, <2>5, <3>8 DEF t
  <2> QED
    BY <2>2, <2>4, <2>5
<1>12. ASSUME NEW c \in LmCalls, ScanFails(c) PROVE LmInv'
  <2> DEFINE s == lm.scan[c]
             writes == Writable(lm, s.path, s.id)
  <2>1. s.at = "walking" /\ s.id \in LmCalls
    BY <1>1, <1>12 DEF ScanFails, LmGood, Owned
  <2>p. PICK status \in {"cancelled", "error"} :
          lm' = [LetsGo(IF writes
                        THEN [lm EXCEPT
                                !.row[s.path] = [id |-> s.id, status |-> status],
                                !.root = IF status = "cancelled" THEN "none"
                                         ELSE s.id]
                        ELSE lm, c)
                 EXCEPT !.scan[c] = Call("done")]
    BY <1>12 DEF ScanFails
  <2> DEFINE root == IF ~writes THEN lm.root
                     ELSE IF status = "cancelled" THEN "none" ELSE s.id
  <2>2. lm' = Ended(lm, c, status, root, "done")
    BY <1>1, <2>p DEF LetsGo, LmState, Ended
  <2>3. root \in LmCalls \cup {"none"} /\ status \in {"idle", "cancelled", "error"}
    BY <1>1, <2>1 DEF LmState
  <2> HIDE DEF root
  <2>4. /\ LmGood(Ended(lm, c, status, root, "done"))
        /\ \A i \in LmCalls : MadeBy(Ended(lm, c, status, root, "done"), i)
    BY <1>1, <2>1, <2>3, EndsGood
  <2> QED
    BY <1>4, <2>2, <2>4
<1>13. CASE UNCHANGED lmVars
  <2>1. lm' = lm
    BY <1>13 DEF lmVars
  <2> QED
    BY <1>1, <1>4, <2>1
<1> QED
  BY <1>5, <1>6, <1>8, <1>9, <1>10, <1>11, <1>12, <1>13 DEF LmNext

LEMMA LmStarts == LmInit => LmInv
<1> SUFFICES ASSUME LmInit PROVE LmInv
  OBVIOUS
<1>1. /\ lm.row = [p \in LmPaths |-> NoRoot] /\ lm.abort = "none"
      /\ lm.root = "none" /\ lm.scan = [c \in LmCalls |-> Call("idle")]
  BY DEF LmInit
<1>2. lm \in LmState
  <2>1. Call("idle") \in LmScan
    BY DEF Call, LmScan
  <2>2. NoRoot \in [id : LmCalls \cup {"none"}, status : LmStatuses]
    BY DEF NoRoot, LmStatuses
  <2>3. lm = [row |-> lm.row, abort |-> lm.abort, root |-> lm.root,
              scan |-> lm.scan]
    BY DEF LmInit
  <2> QED
    BY <1>1, <2>1, <2>2, <2>3 DEF LmState
<1>3. \A id \in LmCalls, p \in LmPaths : ~Knows(lm, id, p)
  <2> SUFFICES ASSUME NEW id \in LmCalls, NEW p \in LmPaths
               PROVE  ~Knows(lm, id, p)
    OBVIOUS
  <2>1. lm.row[p].id # id
    BY <1>1, LmNames DEF NoRoot
  <2>2. \A c \in LmCalls : lm.scan[c].at # "walking" /\ lm.scan[c].rest = {}
    BY <1>1 DEF Call
  <2> QED
    BY <2>1, <2>2 DEF Knows
<1>4. Owned(lm)
  BY <1>1 DEF Owned, NoRoot, Call
<1> QED
  BY <1>2, <1>3, <1>4 DEF LmInv, LmGood, OneFolder, MadeBy

\* What every scan and every change of the folders keeps: who made a row is the
\* one call that has its identity, and a row that is scanned has its scan.
THEOREM LmInvariance == LmSpec => []LmInv
  BY LmStarts, LmStep, PTL DEF LmSpec

LEMMA LmTypes == LmInv => LmTypeOK
  BY DEF LmInv, LmGood, Owned, LmState, LmScan, LmStatuses, LmTypeOK

\* The rows of the folders, the scans and the calls keep their types.
THEOREM LmTyped == LmSpec => []LmTypeOK
  BY LmTypes, LmInvariance, PTL

\* However scans overlap and folders come and go, a scan nobody aborted can
\* still be cancelled, and a row that says "scanning" has a scan at work, for
\* any number of folders and calls (LocalMediaService.scanRoot and its callers).
THEOREM ScansStayOwned == LmSpec => []ScansAreOwned
<1>1. LmInv => ScansAreOwned
  BY DEF LmInv, LmGood, Owned, ScansAreOwned, Walking
<1> QED
  BY <1>1, LmInvariance, PTL

-----------------------------------------------------------------------------
(* The parts of the desktop together. *)

\* What every step of any part keeps: the inductive invariants of all of them.
DesktopInv == /\ SsInv /\ PushInv /\ FollowInv /\ HistoryInv /\ CastInv
              /\ SearchInv /\ LmInv

LEMMA DesktopStarts == DesktopInit => DesktopInv
  BY SsStarts, PushInitially, FollowStarts, HistoryStarts, CastStarts,
     SearchStarts, LmStarts DEF DesktopInit, DesktopInv, FollowInit

\* One part moves, and the others stay as they are.
LEMMA DesktopStep ==
  DesktopInv /\ [DesktopNext]_<<ssVars, pushVars, followVars, histVars,
                                castVars, searchVars, lmVars, lane>>
  => DesktopInv'
<1> SUFFICES ASSUME DesktopInv,
                    [DesktopNext]_<<ssVars, pushVars, followVars, histVars,
                                    castVars, searchVars, lmVars, lane>>
             PROVE  DesktopInv'
  OBVIOUS
<1>1. /\ [SsNext]_ssVars /\ [PushNext]_pushVars /\ [FollowNext]_followVars
      /\ [HistoryNext]_histVars /\ [CastNext]_castVars /\ [SearchNext]_searchVars
      /\ [LmNext]_lmVars
  BY DEF DesktopNext, SessionsMove, PushMoves, FollowMoves, HistoryMoves,
         CastMoves, SearchMoves, MediaMoves
<1> QED
  BY <1>1, SsPreserves, PushPreserves, FollowPreserves, HistoryStep, CastStep,
     SearchInvStep, LmStep DEF DesktopInv

\* What the parts are proved to keep each by itself they keep together.
THEOREM DesktopInvariance == DesktopSpec => []DesktopInv
  BY DesktopStarts, DesktopStep, PTL DEF DesktopSpec

\* Every variable of the parts of the desktop keeps its type, for any numbers
\* of calls, requests, series, episodes, casts, sources and folders.
THEOREM DesktopTyped == DesktopSpec => []DesktopTypeOK
<1>1. SsInv => SsTypeOK
  BY DEF SsInv, SsShape
<1>2. HistoryInv /\ CastInv /\ SearchInv =>
         HistoryTypeOK /\ CastTypeOK /\ SearchTypeOK
  BY DEF HistoryInv, CastInv, SearchInv
<1>3. DesktopInv => DesktopTypeOK
  BY <1>1, <1>2, PushTypes, FollowTypes, LmTypes DEF DesktopInv, DesktopTypeOK
<1> QED
  BY <1>3, DesktopInvariance, PTL
=============================================================================
