---------------------------- MODULE DaemonProofs ----------------------------
(***************************************************************************)
(* Proofs about Daemon, for every set of configs and every set of system   *)
(* calls that may fail.                                                    *)
(*                                                                         *)
(* As in the proofs about Controller there is one lemma per method, which  *)
(* says what the method keeps whichever of its calls fails.  The invariant *)
(* is Sound: well-typed members, of which nothing is left without an       *)
(* interface; and connections only with a session.  deactivate() runs      *)
(* after the session is dropped, so that its lemma must do without the     *)
(* last part.                                                              *)
(***************************************************************************)
EXTENDS Daemon, TLAPS

\* The members of the record; what was written in the last step has no type here.
IsRecord(d) ==
    d = [connections |-> d.connections, handshakeTimer |-> d.handshakeTimer,
         session |-> d.session, interface |-> d.interface, peers |-> d.peers,
         handshakes |-> d.handshakes, routes |-> d.routes, resolvers |-> d.resolvers,
         out |-> d.out]

\* A map of connections, each under the type of its hop.
IsMap(c) ==
    /\ DOMAIN c \subseteq Types
    /\ c = [t \in DOMAIN c |-> c[t]]
    /\ \A t \in DOMAIN c :
          c[t] \in [config : Configs, date : BOOLEAN] /\ c[t].config.type = t

Typed(d) ==
    /\ IsRecord(d)
    /\ IsMap(d.connections)
    /\ d.handshakeTimer \in BOOLEAN /\ d.session \in BOOLEAN
    /\ d.interface \in {"absent", "created", "configured"}
    /\ d.peers \subseteq Keys /\ d.handshakes \subseteq d.peers
    /\ d.routes \subseteq Ranges /\ d.resolvers \in BOOLEAN

Clean(d) ==
    d.interface = "absent" =>
        d.peers = {} /\ d.routes = {} /\ DOMAIN d.connections = {}

\* What every method keeps.
Sound(d) == Typed(d) /\ Clean(d)

SessionOf(d) == DOMAIN d.connections # {} => d.session

\* A successful activation polls for its handshake.
Polled(result) == result.ok => result.d.handshakeTimer = TRUE

\* What activate() leaves alone: the session, and what is written to the client.
Told(d, r) == r.session = d.session /\ r.out = d.out

Kept(d, r) == Told(d, r) /\ r.interface = d.interface

-----------------------------------------------------------------------------
\* What DaemonAssumption says of a config.
LEMMA ConfigFields ==
    ASSUME NEW cfg \in Configs
    PROVE  cfg.type \in Types /\ cfg.key \in Keys /\ cfg.ranges \subseteq Ranges
BY DaemonAssumption DEF Keys, Ranges

\* The empty map.
LEMMA EmptyMap == IsMap(<<>>) /\ DOMAIN <<>> = {}
BY DEF IsMap

\* m_connections[type] = config keeps a map.
LEMMA SetConnectionSound ==
    ASSUME NEW d, Sound(d), d.interface # "absent", NEW cfg \in Configs
    PROVE  /\ Sound(SetConnection(d, cfg))
           /\ Kept(d, SetConnection(d, cfg))
<1> DEFINE c == d.connections
           e == [t \in DOMAIN c \cup {cfg.type} |->
                    IF t = cfg.type THEN Connection(cfg) ELSE c[t]]
           r == SetConnection(d, cfg)
<1>1. IsRecord(d) /\ IsMap(c) /\ Typed(d)
  BY DEF Sound, Typed
<1>2. Connection(cfg) \in [config : Configs, date : BOOLEAN]
      /\ Connection(cfg).config.type = cfg.type
  BY DEF Connection
<1>3. DOMAIN e = DOMAIN c \cup {cfg.type}
  OBVIOUS
<1>4. IsMap(e)
  BY <1>1, <1>2, ConfigFields DEF IsMap
<1>5. r = [d EXCEPT !.connections = e]
  BY <1>1 DEF SetConnection, IsRecord
<1> HIDE DEF e, r
<1>6. /\ IsRecord(r) /\ r.connections = e
      /\ r.handshakeTimer = d.handshakeTimer /\ r.session = d.session
      /\ r.interface = d.interface /\ r.peers = d.peers
      /\ r.handshakes = d.handshakes /\ r.routes = d.routes
      /\ r.resolvers = d.resolvers /\ r.out = d.out
  BY <1>1, <1>5 DEF IsRecord
<1> QED  BY <1>1, <1>4, <1>6 DEF Sound, Typed, Clean, Kept, Told, r

\* The end of a successful activation.
LEMMA PendingSound ==
    ASSUME NEW d, Sound(d), d.interface # "absent", NEW cfg \in Configs
    PROVE  /\ Sound(Pending(d, cfg).d)
           /\ Told(d, Pending(d, cfg).d)
           /\ Pending(d, cfg).d.handshakeTimer = TRUE
<1> DEFINE e == SetConnection(d, cfg)
           r == [e EXCEPT !.handshakeTimer = TRUE]
<1>1. Sound(e) /\ Told(d, e)
  BY SetConnectionSound DEF Kept
<1>2. Pending(d, cfg).d = r /\ r = [e EXCEPT !.handshakeTimer = TRUE]
  BY DEF Pending, Succeeded
<1> HIDE DEF e, r
<1>3. IsRecord(e)
  BY <1>1 DEF Sound, Typed
<1>4. /\ IsRecord(r) /\ r.connections = e.connections
      /\ r.handshakeTimer = TRUE /\ r.session = e.session
      /\ r.interface = e.interface /\ r.peers = e.peers
      /\ r.handshakes = e.handshakes /\ r.routes = e.routes
      /\ r.resolvers = e.resolvers /\ r.out = e.out
  BY <1>2, <1>3 DEF IsRecord
<1>5. Sound(r) /\ Told(d, r)
  BY <1>1, <1>4 DEF Sound, Typed, Clean, Told
<1> QED  BY <1>2, <1>4, <1>5

\* What deactivate() has done before it deletes the interface.
LEMMA TornDownFields ==
    ASSUME NEW d, Typed(d), NEW emitSignals, NEW fault
    PROVE  LET r == TornDown(d, emitSignals, fault)
           IN  /\ IsRecord(r) /\ r.connections = <<>>
               /\ r.handshakeTimer = d.handshakeTimer /\ r.session = d.session
               /\ r.interface = d.interface /\ r.peers \subseteq d.peers
               /\ r.handshakes \subseteq r.peers /\ r.routes \subseteq d.routes
               /\ r.resolvers \in BOOLEAN
               /\ r.out = IF emitSignals THEN Append(d.out, Message("disconnected"))
                          ELSE d.out
<1> DEFINE configs == {d.connections[t].config : t \in DOMAIN d.connections}
           gone == {cfg.key : cfg \in configs}
           routes == UNION {cfg.ranges : cfg \in configs}
           out == IF emitSignals THEN Append(d.out, Message("disconnected")) ELSE d.out
           resolvers == d.resolvers /\ fault = "restoreResolvers"
           r == TornDown(d, emitSignals, fault)
<1>1. IsRecord(d) /\ d.handshakes \subseteq d.peers
  BY DEF Typed
<1>2. r = [d EXCEPT !.resolvers = resolvers, !.routes = d.routes \ routes,
                    !.peers = d.peers \ gone, !.handshakes = d.handshakes \ gone,
                    !.connections = <<>>, !.out = out]
  BY <1>1 DEF TornDown, IsRecord
<1>3. resolvers \in BOOLEAN
  OBVIOUS
<1> HIDE DEF gone, routes, out, resolvers, r
<1>4. /\ IsRecord(r) /\ r.connections = <<>>
      /\ r.handshakeTimer = d.handshakeTimer /\ r.session = d.session
      /\ r.interface = d.interface /\ r.peers = d.peers \ gone
      /\ r.handshakes = d.handshakes \ gone /\ r.routes = d.routes \ routes
      /\ r.resolvers = resolvers /\ r.out = out
  BY <1>1, <1>2 DEF IsRecord
<1>5. r.handshakes \subseteq r.peers
  BY <1>1, <1>4
<1> QED  BY <1>3, <1>4, <1>5 DEF r, out

\* The interface is gone, and what was on it.
LEMMA WithoutInterface ==
    ASSUME NEW d, Typed(d), d.connections = <<>>,
           NEW r, r = [d EXCEPT !.interface = "absent", !.routes = {}, !.peers = {},
                                !.handshakes = {}]
    PROVE  Sound(r) /\ r.connections = <<>> /\ Told(d, r)
<1>1. IsRecord(d)
  BY DEF Typed
<1>2. /\ IsRecord(r) /\ r.connections = d.connections
      /\ r.handshakeTimer = d.handshakeTimer /\ r.session = d.session
      /\ r.interface = "absent" /\ r.peers = {} /\ r.handshakes = {} /\ r.routes = {}
      /\ r.resolvers = d.resolvers /\ r.out = d.out
  BY <1>1 DEF IsRecord
<1> QED  BY <1>2, EmptyMap DEF Sound, Typed, Clean, Told

\* deactivate() ends without a connection, whichever call fails.
LEMMA DeactivateSound ==
    ASSUME NEW d, Sound(d), NEW emitSignals, NEW fault
    PROVE  LET r == DeactivateDaemon(d, emitSignals, fault).d
           IN  /\ Sound(r) /\ r.connections = <<>> /\ r.session = d.session
               /\ ~emitSignals => Told(d, r)
<1> DEFINE e == TornDown(d, emitSignals, fault)
           f == [e EXCEPT !.interface = "absent", !.routes = {}, !.peers = {},
                          !.handshakes = {}]
           r == DeactivateDaemon(d, emitSignals, fault).d
<1>1. Typed(d) /\ Clean(d)
  BY DEF Sound
<1>2. /\ IsRecord(e) /\ e.connections = <<>>
      /\ e.handshakeTimer = d.handshakeTimer /\ e.session = d.session
      /\ e.interface = d.interface /\ e.peers \subseteq d.peers
      /\ e.handshakes \subseteq e.peers /\ e.routes \subseteq d.routes
      /\ e.resolvers \in BOOLEAN
      /\ ~emitSignals => e.out = d.out
  BY <1>1, TornDownFields
<1>3. \/ d.interface # "absent" /\ r = e
      \/ r = f
  BY DEF DeactivateDaemon, Failed, Succeeded
<1>4. f = [e EXCEPT !.interface = "absent", !.routes = {}, !.peers = {},
                    !.handshakes = {}]
  OBVIOUS
<1> HIDE DEF e, f, r
<1>5. Typed(e)
  BY <1>1, <1>2, EmptyMap DEF Typed
<1>6. Sound(f) /\ f.connections = <<>> /\ Told(e, f)
  BY <1>2, <1>4, <1>5, WithoutInterface
<1>7. CASE d.interface # "absent" /\ r = e
  BY <1>2, <1>5, <1>7 DEF Sound, Clean, Told, r
<1>8. CASE r = f
  BY <1>2, <1>6, <1>8 DEF Told, r
<1> QED  BY <1>3, <1>7, <1>8 DEF r

-----------------------------------------------------------------------------
\* Single members set while there is an interface.

LEMMA PeerAdded ==
    ASSUME NEW d, Sound(d), d.interface # "absent", NEW key \in Keys,
           NEW r, r = [d EXCEPT !.peers = d.peers \cup {key}]
    PROVE  Sound(r) /\ Kept(d, r) /\ r.routes = d.routes /\ r.resolvers = d.resolvers
<1>1. Typed(d) /\ IsRecord(d)
  BY DEF Sound, Typed
<1>2. /\ IsRecord(r) /\ r.connections = d.connections
      /\ r.handshakeTimer = d.handshakeTimer /\ r.session = d.session
      /\ r.interface = d.interface /\ r.peers = d.peers \cup {key}
      /\ r.handshakes = d.handshakes /\ r.routes = d.routes
      /\ r.resolvers = d.resolvers /\ r.out = d.out
  BY <1>1 DEF IsRecord
<1> QED  BY <1>1, <1>2 DEF Sound, Typed, Clean, Kept, Told

LEMMA PeerRemoved ==
    ASSUME NEW d, Sound(d), d.interface # "absent", NEW key,
           NEW r, r = [d EXCEPT !.peers = d.peers \ {key},
                                !.handshakes = d.handshakes \ {key}]
    PROVE  Sound(r) /\ Kept(d, r)
<1>1. Typed(d) /\ IsRecord(d)
  BY DEF Sound, Typed
<1>2. /\ IsRecord(r) /\ r.connections = d.connections
      /\ r.handshakeTimer = d.handshakeTimer /\ r.session = d.session
      /\ r.interface = d.interface /\ r.peers = d.peers \ {key}
      /\ r.handshakes = d.handshakes \ {key} /\ r.routes = d.routes
      /\ r.resolvers = d.resolvers /\ r.out = d.out
  BY <1>1 DEF IsRecord
<1> QED  BY <1>1, <1>2 DEF Sound, Typed, Clean, Kept, Told

LEMMA RoutesSet ==
    ASSUME NEW d, Sound(d), d.interface # "absent", NEW routes, routes \subseteq Ranges,
           NEW r, r = [d EXCEPT !.routes = routes]
    PROVE  Sound(r) /\ Kept(d, r)
<1>1. Typed(d) /\ IsRecord(d)
  BY DEF Sound, Typed
<1>2. /\ IsRecord(r) /\ r.connections = d.connections
      /\ r.handshakeTimer = d.handshakeTimer /\ r.session = d.session
      /\ r.interface = d.interface /\ r.peers = d.peers
      /\ r.handshakes = d.handshakes /\ r.routes = routes
      /\ r.resolvers = d.resolvers /\ r.out = d.out
  BY <1>1 DEF IsRecord
<1> QED  BY <1>1, <1>2 DEF Sound, Typed, Clean, Kept, Told

LEMMA ResolversSet ==
    ASSUME NEW d, Sound(d), NEW resolvers \in BOOLEAN,
           NEW r, r = [d EXCEPT !.resolvers = resolvers]
    PROVE  Sound(r) /\ Kept(d, r) /\ r.routes = d.routes
<1>1. Typed(d) /\ Clean(d) /\ IsRecord(d)
  BY DEF Sound, Typed
<1>2. /\ IsRecord(r) /\ r.connections = d.connections
      /\ r.handshakeTimer = d.handshakeTimer /\ r.session = d.session
      /\ r.interface = d.interface /\ r.peers = d.peers
      /\ r.handshakes = d.handshakes /\ r.routes = d.routes
      /\ r.resolvers = resolvers /\ r.out = d.out
  BY <1>1 DEF IsRecord
<1> QED  BY <1>1, <1>2 DEF Sound, Typed, Clean, Kept, Told

-----------------------------------------------------------------------------
\* switchServer(): there is a connection of this hop type, hence an interface.
LEMMA SwitchServerSound ==
    ASSUME NEW d, Sound(d), NEW cfg \in Configs, cfg.type \in DOMAIN d.connections,
           NEW fault
    PROVE  /\ d.interface # "absent"
           /\ Sound(SwitchServer(d, cfg, fault).d)
           /\ Kept(d, SwitchServer(d, cfg, fault).d)
<1> DEFINE last   == d.connections[cfg.type].config
           peered == [d EXCEPT !.peers = d.peers \cup {cfg.key}]
           routes == (IF fault = "updateRoute" THEN peered.routes
                      ELSE peered.routes \cup cfg.ranges) \ (last.ranges \ cfg.ranges)
           routed == [peered EXCEPT !.routes = routes]
           less   == [routed EXCEPT !.peers = routed.peers \ {last.key},
                                    !.handshakes = routed.handshakes \ {last.key}]
           pruned == IF cfg.key = last.key THEN routed ELSE less
           r == SwitchServer(d, cfg, fault).d
<1>1. d.interface # "absent"
  BY DEF Sound, Clean
<1>2. cfg.key \in Keys /\ cfg.ranges \subseteq Ranges /\ d.routes \subseteq Ranges
  BY ConfigFields DEF Sound, Typed
<1>3. r \in {d, routed, SetConnection(pruned, cfg)}
  <2>1. SwitchServer(d, cfg, fault) =
            (IF fault = "updatePeer" THEN Failed(d)
             ELSE IF cfg.key # last.key /\ fault = "deletePeer" THEN Failed(routed)
             ELSE Succeeded(SetConnection(pruned, cfg)))
    BY DEF SwitchServer
  <2> HIDE DEF last, peered, routes, routed, less, pruned
  <2> QED  BY <2>1 DEF Failed, Succeeded
<1>4. peered = [d EXCEPT !.peers = d.peers \cup {cfg.key}]
  OBVIOUS
<1>5. routed = [peered EXCEPT !.routes = routes]
  OBVIOUS
<1>6. less = [routed EXCEPT !.peers = routed.peers \ {last.key},
                            !.handshakes = routed.handshakes \ {last.key}]
  OBVIOUS
<1>7. pruned = routed \/ pruned = less
  OBVIOUS
<1> HIDE DEF peered, routed, less, pruned, r
<1>8. Sound(peered) /\ Kept(d, peered) /\ peered.routes = d.routes
  BY <1>1, <1>2, <1>4, PeerAdded
<1>9. routes \subseteq Ranges
  BY <1>2, <1>8
<1> HIDE DEF routes, last
<1>10. Sound(routed) /\ Kept(d, routed)
  <2>1. peered.interface # "absent"
    BY <1>1, <1>8 DEF Kept, Told
  <2>2. Sound(routed) /\ Kept(peered, routed)
    BY <1>5, <1>8, <1>9, <2>1, RoutesSet
  <2> QED  BY <1>8, <2>2 DEF Kept, Told
<1>11. Sound(less) /\ Kept(d, less)
  <2>1. routed.interface # "absent"
    BY <1>1, <1>10 DEF Kept, Told
  <2>2. Sound(less) /\ Kept(routed, less)
    BY <1>6, <1>10, <2>1, PeerRemoved
  <2> QED  BY <1>10, <2>2 DEF Kept, Told
<1>12. Sound(SetConnection(pruned, cfg)) /\ Kept(d, SetConnection(pruned, cfg))
  <2>1. Sound(pruned) /\ Kept(d, pruned)
    BY <1>7, <1>10, <1>11
  <2>2. pruned.interface # "absent"
    BY <1>1, <2>1 DEF Kept, Told
  <2> QED  BY <2>1, <2>2, SetConnectionSound DEF Kept, Told
<1>13. Sound(r) /\ Kept(d, r)
  BY <1>3, <1>10, <1>12 DEF Kept, Told
<1> QED  BY <1>1, <1>13 DEF r

\* Scenario 3 of activate().
LEMMA ActivateBySwitchingSound ==
    ASSUME NEW d, Sound(d), NEW cfg \in Configs, cfg.type \in DOMAIN d.connections,
           NEW fault
    PROVE  /\ Sound(ActivateBySwitching(d, cfg, fault).d)
           /\ Told(d, ActivateBySwitching(d, cfg, fault).d)
           /\ Polled(ActivateBySwitching(d, cfg, fault))
<1> DEFINE switched == SwitchServer(d, cfg, fault)
           e        == switched.d
           restored == [e EXCEPT !.resolvers = FALSE]
           resolved == [restored EXCEPT !.resolvers = NeedsResolvers(cfg)]
           a        == ActivateBySwitching(d, cfg, fault)
<1>1. d.interface # "absent" /\ Sound(e) /\ Kept(d, e)
  BY SwitchServerSound
<1>2. \/ ~a.ok /\ a.d \in {e, restored}
      \/ a.d = Pending(resolved, cfg).d
  BY DEF ActivateBySwitching, Failed
<1>3. restored = [e EXCEPT !.resolvers = FALSE]
  OBVIOUS
<1>4. resolved = [restored EXCEPT !.resolvers = NeedsResolvers(cfg)]
  OBVIOUS
<1> HIDE DEF switched, e, restored, resolved, a
<1>5. Sound(restored) /\ Kept(e, restored)
  BY <1>1, <1>3, ResolversSet
<1>6. Sound(resolved) /\ Kept(restored, resolved)
  <2>1. NeedsResolvers(cfg) \in BOOLEAN
    BY DEF NeedsResolvers
  <2> QED  BY <1>4, <1>5, <2>1, ResolversSet
<1>7. /\ Sound(Pending(resolved, cfg).d) /\ Told(d, Pending(resolved, cfg).d)
      /\ Pending(resolved, cfg).d.handshakeTimer = TRUE
  <2>1. resolved.interface # "absent" /\ Told(d, resolved)
    BY <1>1, <1>5, <1>6 DEF Kept, Told
  <2> QED  BY <1>6, <2>1, PendingSound DEF Told
<1>8. Sound(a.d) /\ Told(d, a.d) /\ Polled(a)
  BY <1>1, <1>2, <1>5, <1>7 DEF Kept, Told, Polled
<1> QED  BY <1>8 DEF a

\* An interface that cannot be configured is left behind.
LEMMA BringUpSound ==
    ASSUME NEW d, Sound(d), NEW fault
    PROVE  LET up == BringUpInterface(d, fault)
           IN  /\ Sound(up.d) /\ Told(d, up.d)
               /\ up.ok => up.d.interface # "absent"
<1>1. \A i \in {"created", "configured"} :
         LET r == [d EXCEPT !.interface = i]
         IN  Sound(r) /\ Told(d, r) /\ r.interface = i
  <2> TAKE i \in {"created", "configured"}
  <2> DEFINE r == [d EXCEPT !.interface = i]
  <2>1. Typed(d) /\ IsRecord(d)
    BY DEF Sound, Typed
  <2>2. r = [d EXCEPT !.interface = i]
    OBVIOUS
  <2> HIDE DEF r
  <2>3. /\ IsRecord(r) /\ r.connections = d.connections
        /\ r.handshakeTimer = d.handshakeTimer /\ r.session = d.session
        /\ r.interface = i /\ r.peers = d.peers
        /\ r.handshakes = d.handshakes /\ r.routes = d.routes
        /\ r.resolvers = d.resolvers /\ r.out = d.out
    BY <2>1, <2>2 DEF IsRecord
  <2>4. Sound(r) /\ Told(d, r)
    BY <2>1, <2>3 DEF Sound, Typed, Clean, Told
  <2> QED  BY <2>3, <2>4 DEF r
<1> QED  BY <1>1 DEF BringUpInterface, Failed, Succeeded, Told

\* Scenario 1 of activate().
LEMMA ActivateAnewSound ==
    ASSUME NEW d, Sound(d), NEW cfg \in Configs, NEW fault
    PROVE  /\ Sound(ActivateAnew(d, cfg, fault).d)
           /\ Told(d, ActivateAnew(d, cfg, fault).d)
           /\ Polled(ActivateAnew(d, cfg, fault))
<1> DEFINE up       == BringUpInterface(d, fault)
           e        == up.d
           peered   == [e EXCEPT !.peers = e.peers \cup {cfg.key}]
           resolved == [peered EXCEPT !.resolvers = peered.resolvers \/ NeedsResolvers(cfg)]
           routed   == [resolved EXCEPT !.routes = resolved.routes \cup cfg.ranges]
           a        == ActivateAnew(d, cfg, fault)
<1>1. Sound(e) /\ Told(d, e) /\ (up.ok => e.interface # "absent")
  BY BringUpSound
<1>2. \/ ~a.ok /\ a.d = e
      \/ up.ok /\ ~a.ok /\ a.d \in {peered, resolved}
      \/ up.ok /\ a.d = Pending(routed, cfg).d
  BY DEF ActivateAnew, Failed
<1>3. peered = [e EXCEPT !.peers = e.peers \cup {cfg.key}]
  OBVIOUS
<1>4. resolved = [peered EXCEPT !.resolvers = peered.resolvers \/ NeedsResolvers(cfg)]
  OBVIOUS
<1>5. routed = [resolved EXCEPT !.routes = resolved.routes \cup cfg.ranges]
  OBVIOUS
<1> HIDE DEF up, e, peered, resolved, routed, a
<1>6. CASE ~a.ok /\ a.d = e
  BY <1>1, <1>6 DEF a, Polled
<1>7. CASE /\ up.ok
           /\ \/ ~a.ok /\ a.d \in {peered, resolved}
              \/ a.d = Pending(routed, cfg).d
  <2>1. Sound(peered) /\ Kept(e, peered)
    BY <1>1, <1>3, <1>7, ConfigFields, PeerAdded
  <2>2. Sound(resolved) /\ Kept(peered, resolved)
    <3>1. (peered.resolvers \/ NeedsResolvers(cfg)) \in BOOLEAN
      OBVIOUS
    <3> QED  BY <1>4, <2>1, <3>1, ResolversSet
  <2>3. Sound(routed) /\ Kept(resolved, routed)
    <3>1. resolved.interface # "absent"
      BY <1>1, <1>7, <2>1, <2>2 DEF Kept, Told
    <3>2. resolved.routes \cup cfg.ranges \subseteq Ranges
      BY <2>2, ConfigFields DEF Sound, Typed
    <3> QED  BY <1>5, <2>2, <3>1, <3>2, RoutesSet
  <2>4. /\ Sound(Pending(routed, cfg).d) /\ Told(d, Pending(routed, cfg).d)
        /\ Pending(routed, cfg).d.handshakeTimer = TRUE
    <3>1. routed.interface # "absent" /\ Told(d, routed)
      BY <1>1, <1>7, <2>1, <2>2, <2>3 DEF Kept, Told
    <3> QED  BY <2>3, <3>1, PendingSound DEF Told
  <2>5. Sound(a.d) /\ Told(d, a.d) /\ Polled(a)
    BY <1>1, <1>7, <2>1, <2>2, <2>4 DEF Kept, Told, Polled
  <2> QED  BY <2>5 DEF a
<1> QED  BY <1>2, <1>6, <1>7

\* activate()
LEMMA ActivateSound ==
    ASSUME NEW d, Sound(d), NEW cfg \in Configs, NEW fault
    PROVE  /\ Sound(ActivateDaemon(d, cfg, fault).d)
           /\ Told(d, ActivateDaemon(d, cfg, fault).d)
           /\ Polled(ActivateDaemon(d, cfg, fault))
<1> DEFINE down == DeactivateDaemon(d, FALSE, fault)
<1>1. Sound(down.d) /\ Told(d, down.d)
  BY DeactivateSound
<1>2. /\ Sound(ActivateAnew(down.d, cfg, fault).d)
      /\ Told(d, ActivateAnew(down.d, cfg, fault).d)
      /\ Polled(ActivateAnew(down.d, cfg, fault))
  BY <1>1, ActivateAnewSound DEF Told
<1>3. /\ Sound(ActivateAnew(d, cfg, fault).d)
      /\ Told(d, ActivateAnew(d, cfg, fault).d)
      /\ Polled(ActivateAnew(d, cfg, fault))
  BY ActivateAnewSound
<1>4. cfg.type \in DOMAIN d.connections =>
         /\ Sound(ActivateBySwitching(d, cfg, fault).d)
         /\ Told(d, ActivateBySwitching(d, cfg, fault).d)
         /\ Polled(ActivateBySwitching(d, cfg, fault))
  BY ActivateBySwitchingSound
<1>5. ActivateDaemon(d, cfg, fault) =
         (IF cfg.type \notin DOMAIN d.connections THEN ActivateAnew(d, cfg, fault)
          ELSE IF SupportServerSwitching(d, cfg) THEN ActivateBySwitching(d, cfg, fault)
          ELSE IF ~down.ok THEN down
          ELSE ActivateAnew(down.d, cfg, fault))
  BY DEF ActivateDaemon
<1> HIDE DEF down
<1>6. ~down.ok => Polled(down)
  BY DEF Polled
<1> QED  BY <1>1, <1>2, <1>3, <1>4, <1>5, <1>6

-----------------------------------------------------------------------------
\* Members that no invariant looks at, or all do.

LEMMA OutSet ==
    ASSUME NEW d, Sound(d), NEW out, NEW r, r = [d EXCEPT !.out = out]
    PROVE  /\ Sound(r) /\ r.connections = d.connections /\ r.session = d.session
           /\ r.handshakeTimer = d.handshakeTimer /\ r.interface = d.interface
           /\ r.peers = d.peers /\ r.handshakes = d.handshakes /\ r.out = out
<1>1. Typed(d) /\ Clean(d) /\ IsRecord(d)
  BY DEF Sound, Typed
<1>2. /\ IsRecord(r) /\ r.connections = d.connections
      /\ r.handshakeTimer = d.handshakeTimer /\ r.session = d.session
      /\ r.interface = d.interface /\ r.peers = d.peers
      /\ r.handshakes = d.handshakes /\ r.routes = d.routes
      /\ r.resolvers = d.resolvers /\ r.out = out
  BY <1>1 DEF IsRecord
<1> QED  BY <1>1, <1>2 DEF Sound, Typed, Clean

LEMMA SessionSet ==
    ASSUME NEW d, Sound(d), NEW session \in BOOLEAN,
           NEW r, r = [d EXCEPT !.session = session]
    PROVE  Sound(r) /\ r.session = session /\ r.out = d.out
<1>1. Typed(d) /\ Clean(d) /\ IsRecord(d)
  BY DEF Sound, Typed
<1>2. /\ IsRecord(r) /\ r.connections = d.connections
      /\ r.handshakeTimer = d.handshakeTimer /\ r.session = session
      /\ r.interface = d.interface /\ r.peers = d.peers
      /\ r.handshakes = d.handshakes /\ r.routes = d.routes
      /\ r.resolvers = d.resolvers /\ r.out = d.out
  BY <1>1 DEF IsRecord
<1> QED  BY <1>1, <1>2 DEF Sound, Typed, Clean

\* The invariant of the daemon, for a record.
Good(d) == Sound(d) /\ SessionOf(d)

\* The messages of a step that ends in r.
Disconnected(r) == \E i \in DOMAIN r.out : r.out[i].type = "disconnected"

\* What every step keeps: a connection that nobody polls for is no news, or told.
Step(d, r) == Good(r) /\ (Unpolled(r) => Unpolled(d) \/ Disconnected(r))

\* Without connections there is nothing to poll for and no session to keep.
LEMMA EmptyStep ==
    ASSUME NEW d, NEW r, Sound(r), r.connections = <<>>
    PROVE  Step(d, r)
BY EmptyMap DEF Step, Good, SessionOf, Unpolled

\* A reply.
LEMMA ReplyStep ==
    ASSUME NEW d, Good(d), NEW message
    PROVE  Step(d, Reply(d, message))
<1> DEFINE out == Append(d.out, message)
           r == Reply(d, message)
<1>1. Sound(d)
  BY DEF Good
<1>2. r = [d EXCEPT !.out = out]
  BY <1>1 DEF Reply, Sound, Typed, IsRecord
<1> HIDE DEF r, out
<1>3. /\ Sound(r) /\ r.connections = d.connections /\ r.session = d.session
      /\ r.handshakeTimer = d.handshakeTimer
  BY <1>1, <1>2, OutSet
<1>4. Step(d, r)
  BY <1>3 DEF Step, Good, SessionOf, Unpolled
<1> QED  BY <1>4 DEF r

\* The command `activate': the session is opened before, and a failure is told.
LEMMA ActivateStep ==
    ASSUME NEW d, Good(d), d.out = <<>>, NEW cfg \in Configs, NEW fault
    PROVE  LET a == ActivateDaemon([d EXCEPT !.session = TRUE], cfg, fault)
           IN  Step(d, IF a.ok THEN a.d ELSE Reply(a.d, Message("disconnected")))
<1> DEFINE e == [d EXCEPT !.session = TRUE]
           a == ActivateDaemon(e, cfg, fault)
           out == Append(a.d.out, Message("disconnected"))
           r == Reply(a.d, Message("disconnected"))
<1>1. Sound(d)
  BY DEF Good
<1>2. e = [d EXCEPT !.session = TRUE]
  OBVIOUS
<1>3. r = [a.d EXCEPT !.out = out]
  BY DEF Reply
<1> HIDE DEF e
<1>4. Sound(e) /\ e.session = TRUE /\ e.out = <<>>
  BY <1>1, <1>2, SessionSet
<1>5. Sound(a.d) /\ Told(e, a.d) /\ Polled(a)
  BY <1>4, ActivateSound
<1>6. a.d.session = TRUE /\ a.d.out = <<>>
  BY <1>4, <1>5 DEF Told
<1> HIDE DEF a, r
<1>7. a.ok => Step(d, a.d)
  BY <1>5, <1>6 DEF Step, Good, SessionOf, Unpolled, Polled
<1>8. Step(d, r)
  <2>1. out = <<Message("disconnected")>>
    BY <1>6
  <2>2. Message("disconnected").type = "disconnected"
    BY DEF Message
  <2> HIDE DEF out
  <2>3. Sound(r) /\ r.session = TRUE /\ r.out = out
    BY <1>3, <1>5, <1>6, OutSet
  <2>4. Disconnected(r)
    BY <2>1, <2>2, <2>3 DEF Disconnected
  <2> QED  BY <2>3, <2>4 DEF Step, Good, SessionOf
<1>9. Step(d, IF a.ok THEN a.d ELSE r)
  BY <1>7, <1>8
<1> QED  BY <1>9 DEF a, r, e

\* The command `deactivate': the session is closed before.
LEMMA DeactivateStep ==
    ASSUME NEW d, Good(d), NEW fault
    PROVE  Step(d, DeactivateDaemon([d EXCEPT !.session = FALSE], TRUE, fault).d)
<1> DEFINE e == [d EXCEPT !.session = FALSE]
<1>1. e = [d EXCEPT !.session = FALSE]
  OBVIOUS
<1> HIDE DEF e
<1>2. Sound(e)
  BY <1>1, SessionSet DEF Good
<1>3. Step(d, DeactivateDaemon(e, TRUE, fault).d)
  BY <1>2, DeactivateSound, EmptyStep
<1> QED  BY <1>3 DEF e

\* parseCommand()
LEMMA CommandStep ==
    ASSUME NEW d, Good(d), d.out = <<>>, NEW command \in Commands, NEW fault
    PROVE  Step(d, OnCommand(d, command, fault))
<1> DEFINE a == ActivateDaemon([d EXCEPT !.session = TRUE], command.config, fault)
           activated == IF a.ok THEN a.d ELSE Reply(a.d, Message("disconnected"))
           down == DeactivateDaemon([d EXCEPT !.session = FALSE], TRUE, fault).d
           r == OnCommand(d, command, fault)
<1>1. \/ command.type = "activate" /\ command.config \in Configs
      \/ command.type \in {"deactivate", "status", "logs", "cleanlogs"}
  BY DEF Commands
<1>2. \/ r = d
      \/ r = Reply(d, Message("logs"))
      \/ command.type = "activate" /\ r = activated
      \/ r = down
      \/ r = Reply(d, GetStatusReply(d))
  BY <1>1 DEF OnCommand
<1>3. Step(d, d)
  BY DEF Step, Good
<1>4. command.type = "activate" => Step(d, activated)
  BY <1>1, ActivateStep
<1>5. Step(d, down)
  BY DeactivateStep
<1> HIDE DEF activated, down, r
<1>6. Step(d, Reply(d, Message("logs"))) /\ Step(d, Reply(d, GetStatusReply(d)))
  BY ReplyStep
<1>7. Step(d, r)
  BY <1>2, <1>3, <1>4, <1>5, <1>6
<1> QED  BY <1>7 DEF r

\* checkHandshake() dates connections, and polls for those without a date.
LEMMA CheckHandshakeStep ==
    ASSUME NEW d, Good(d)
    PROVE  Step(d, CheckHandshakeOf(d))
<1> DEFINE c == d.connections
           done == {t \in DOMAIN c : ~c[t].date /\ c[t].config.key \in d.handshakes}
           dated == [t \in DOMAIN c |->
                        IF t \in done THEN [c[t] EXCEPT !.date = TRUE] ELSE c[t]]
           waiting == \E t \in DOMAIN dated : ~dated[t].date
           r == CheckHandshakeOf(d)
<1>1. Typed(d) /\ Clean(d) /\ IsRecord(d) /\ IsMap(c) /\ SessionOf(d)
  BY DEF Good, Sound, Typed
<1>2. IsMap(dated) /\ DOMAIN dated = DOMAIN c
  <2>1. \A t \in DOMAIN c : /\ c[t] \in [config : Configs, date : BOOLEAN]
                            /\ c[t].config.type = t
    BY <1>1 DEF IsMap
  <2>2. \A t \in DOMAIN c : /\ dated[t] \in [config : Configs, date : BOOLEAN]
                            /\ dated[t].config.type = t
    BY <2>1
  <2>3. DOMAIN dated = DOMAIN c /\ dated = [t \in DOMAIN dated |-> dated[t]]
    OBVIOUS
  <2> HIDE DEF dated
  <2> QED  BY <1>1, <2>2, <2>3 DEF IsMap
<1>3. PICK out : r = [d EXCEPT !.connections = dated, !.handshakeTimer = waiting,
                               !.out = out]
  BY Zenon DEF CheckHandshakeOf
<1>4. waiting \in BOOLEAN
  OBVIOUS
<1>5. waiting <=> \E t \in DOMAIN dated : ~dated[t].date
  OBVIOUS
<1> HIDE DEF dated, waiting, r
<1>6. /\ IsRecord(r) /\ r.connections = dated
      /\ r.handshakeTimer = waiting /\ r.session = d.session
      /\ r.interface = d.interface /\ r.peers = d.peers
      /\ r.handshakes = d.handshakes /\ r.routes = d.routes
      /\ r.resolvers = d.resolvers
  BY <1>1, <1>3 DEF IsRecord
<1>7. Sound(r)
  BY <1>1, <1>2, <1>4, <1>6 DEF Sound, Typed, Clean
<1>8. SessionOf(r) /\ ~Unpolled(r)
  BY <1>1, <1>2, <1>4, <1>5, <1>6 DEF SessionOf, Unpolled
<1> QED  BY <1>7, <1>8 DEF Step, Good, r

\* WireGuard completes a handshake.
LEMMA HandshakeStep ==
    ASSUME NEW d, Good(d), NEW key \in d.peers
    PROVE  Step(d, [d EXCEPT !.handshakes = d.handshakes \cup {key}])
<1> DEFINE r == [d EXCEPT !.handshakes = d.handshakes \cup {key}]
<1>1. Typed(d) /\ Clean(d) /\ IsRecord(d) /\ SessionOf(d)
  BY DEF Good, Sound, Typed
<1>2. r = [d EXCEPT !.handshakes = d.handshakes \cup {key}]
  OBVIOUS
<1> HIDE DEF r
<1>3. /\ IsRecord(r) /\ r.connections = d.connections
      /\ r.handshakeTimer = d.handshakeTimer /\ r.session = d.session
      /\ r.interface = d.interface /\ r.peers = d.peers
      /\ r.handshakes = d.handshakes \cup {key} /\ r.routes = d.routes
      /\ r.resolvers = d.resolvers
  BY <1>1, <1>2 DEF IsRecord
<1>4. Sound(r)
  BY <1>1, <1>3 DEF Sound, Typed, Clean
<1>5. Step(d, r)
  BY <1>1, <1>3, <1>4 DEF Step, Good, SessionOf, Unpolled
<1> QED  BY <1>5 DEF r

\* The state of a daemon that has just been started.
LEMMA StoppedSound == Sound(Stopped) /\ Stopped.connections = <<>>
<1>1. /\ IsRecord(Stopped) /\ Stopped.connections = <<>>
      /\ Stopped.handshakeTimer = FALSE /\ Stopped.session = FALSE
      /\ Stopped.interface = "absent" /\ Stopped.peers = {}
      /\ Stopped.handshakes = {} /\ Stopped.routes = {} /\ Stopped.resolvers = FALSE
  BY DEF Stopped, IsRecord
<1> QED  BY <1>1, EmptyMap DEF Sound, Typed, Clean

-----------------------------------------------------------------------------
\* The inductive invariant.
Inv == Good(dmn)

\* A step starts with nothing written.
LEMMA QuietStart ==
    ASSUME Inv
    PROVE  /\ Good(Quiet) /\ Quiet.out = <<>>
           /\ Quiet.peers = dmn.peers /\ Quiet.handshakes = dmn.handshakes
           /\ Unpolled(Quiet) <=> Unpolled(dmn)
<1> DEFINE q == Quiet
<1>1. q = [dmn EXCEPT !.out = <<>>]
  BY DEF Quiet
<1> HIDE DEF q
<1>2. /\ Sound(q) /\ q.connections = dmn.connections /\ q.session = dmn.session
      /\ q.handshakeTimer = dmn.handshakeTimer
      /\ q.peers = dmn.peers /\ q.handshakes = dmn.handshakes /\ q.out = <<>>
  BY <1>1, OutSet DEF Inv, Good
<1>3. /\ Good(q) /\ q.out = <<>>
      /\ q.peers = dmn.peers /\ q.handshakes = dmn.handshakes
      /\ Unpolled(q) <=> Unpolled(dmn)
  BY <1>2 DEF Inv, Good, SessionOf, Unpolled
<1> QED  BY <1>3 DEF q

LEMMA InitInv == Init => Inv
BY StoppedSound, EmptyMap DEF Init, Inv, Good, SessionOf

\* Every action of the daemon is a Step.
LEMMA NextStep ==
    ASSUME Inv, Next
    PROVE  Step(Quiet, dmn')
<1>1. Good(Quiet) /\ Quiet.out = <<>> /\ Quiet.peers = dmn.peers
  BY QuietStart
<1>2. ASSUME NEW command \in Commands, NEW fault, Command(command, fault)
      PROVE  Step(Quiet, dmn')
  BY <1>1, <1>2, CommandStep DEF Command
<1>3. CASE CheckHandshake
  BY <1>1, <1>3, CheckHandshakeStep DEF CheckHandshake
<1>4. ASSUME NEW key \in Keys, PeerHandshake(key)
      PROVE  Step(Quiet, dmn')
  <2> DEFINE q == Quiet
             r == [q EXCEPT !.handshakes = q.handshakes \cup {key}]
  <2>1. dmn' = r /\ key \in q.peers
    BY <1>1, <1>4 DEF PeerHandshake
  <2>2. Step(q, r)
    <3> HIDE DEF q
    <3> QED  BY <1>1, <2>1, HandshakeStep DEF q
  <2> QED  BY <2>1, <2>2
<1>5. ASSUME NEW fault, BackendFailure(fault)
      PROVE  Step(Quiet, dmn')
  <2> DEFINE out == <<Message("backendFailure")>>
             e == [Quiet EXCEPT !.out = out]
  <2>1. dmn' = DeactivateDaemon(e, TRUE, fault).d
    BY <1>5 DEF BackendFailure
  <2>2. e = [Quiet EXCEPT !.out = out]
    OBVIOUS
  <2> HIDE DEF out, e
  <2>3. Sound(e)
    BY <1>1, <2>2, OutSet DEF Good
  <2> QED  BY <2>1, <2>3, DeactivateSound, EmptyStep
<1>6. CASE Restart
  BY <1>6, StoppedSound, EmptyStep DEF Restart
<1> QED  BY <1>2, <1>3, <1>4, <1>5, <1>6 DEF Next

LEMMA NextInv == Inv /\ [Next]_dmn => Inv'
<1> SUFFICES ASSUME Inv, [Next]_dmn PROVE Inv'
  OBVIOUS
<1>1. CASE Next
  BY <1>1, NextStep DEF Step, Inv
<1>2. CASE UNCHANGED dmn
  BY <1>2 DEF Inv
<1> QED  BY <1>1, <1>2

LEMMA Invariant == Spec => []Inv
BY InitInv, NextInv, PTL DEF Spec

\* The members of Daemon keep their types, each connection is filed under the type
\* of its hop and each handshake belongs to a peer: for any configs and whichever of
\* the system calls fail.
THEOREM TypeCorrect == Spec => []TypeOK
<1>1. ASSUME NEW c, IsMap(c)
      PROVE  c \in Connections
  <2>1. c \in [DOMAIN c -> [config : Configs, date : BOOLEAN]]
    BY <1>1 DEF IsMap
  <2>2. DOMAIN c \in SUBSET Types
    BY <1>1 DEF IsMap
  <2> QED  BY <2>1, <2>2 DEF Connections
<1>2. Inv => TypeOK
  <2> SUFFICES ASSUME Inv PROVE TypeOK
    OBVIOUS
  <2>1. Typed(dmn)
    BY DEF Inv, Good, Sound
  <2>2. dmn.connections \in Connections
    BY <1>1, <2>1 DEF Typed
  <2>3. \A t \in DOMAIN dmn.connections : dmn.connections[t].config.type = t
    BY <2>1 DEF Typed, IsMap
  <2> QED  BY <2>1, <2>2, <2>3 DEF Typed, TypeOK
<1> QED  BY <1>2, Invariant, PTL

\* A connection can always be taken down: there is a session for as long as
\* m_connections is not empty, through every failure of activate() and deactivate().
THEOREM ConnectionsHaveSession == Spec => []TunnelHasSession
<1>1. Inv => TunnelHasSession
  BY DEF Inv, Good, SessionOf, TunnelHasSession
<1> QED  BY <1>1, Invariant, PTL

\* Nothing of a tunnel is left without an interface, whichever call of activate(),
\* switchServer() or deactivate() fails and whenever the daemon crashes.
THEOREM NothingLeftBehind == Spec => []NothingWithoutInterface
<1>1. Inv => NothingWithoutInterface
  BY DEF Inv, Good, Sound, Clean, NothingWithoutInterface
<1> QED  BY <1>1, Invariant, PTL

\* No activation is forgotten: a step that leaves a connection without a date and
\* without m_handshakeTimer writes `disconnected' to the client.
THEOREM NoActivationForgotten == Spec => PolledOrReported
<1>1. Inv /\ [Next]_dmn =>
         [Unpolled(dmn)' /\ ~Unpolled(dmn) => Wrote("disconnected")]_dmn
  <2> SUFFICES ASSUME Inv, Next, Unpolled(dmn'), ~Unpolled(dmn)
               PROVE  Wrote("disconnected")
    BY DEF Unpolled
  <2>1. Unpolled(Quiet) <=> Unpolled(dmn)
    BY QuietStart
  <2>2. Step(Quiet, dmn')
    BY NextStep
  <2> QED  BY <2>1, <2>2 DEF Step, Disconnected, Wrote
<1> QED  BY <1>1, Invariant, PTL DEF Spec, PolledOrReported
=============================================================================
