------------------------------ MODULE OrbisNode ------------------------------
(***************************************************************************)
(* Node registry of x/orbis: the NodeInfo records that ring committees,    *)
(* reshares and reports consult.  A node key signs its own CreateNodeInfo; *)
(* every later change is signed by the controller key that record names.   *)
(*                                                                         *)
(* Data abstraction: keys and identifiers are opaque values.  Hex          *)
(* normalisation of keys, the 256-entry whitelist limit and the            *)
(* non-empty-string checks concern inputs outside the sets below.          *)
(***************************************************************************)
EXTENDS Integers, FiniteSets, Sequences

CONSTANTS
    RingId,          \* ring identifiers; an identifier is the hash of a ring configuration
    Node,            \* node keys
    Policy,          \* ACP policies
    PeerId,          \* libp2p peer identifiers
    Controller,      \* controller keys
    ManagedNode,     \* nodes whose key and controller send registry messages
    GenesisNodeInfo, \* the node registry imported at genesis
    NoInfo           \* the registry holds nothing for a node

VARIABLE
    nodeInfo         \* NodeInfo store: node key -> record, or NoInfo

NodeInfo == [peerId : PeerId, controller : Controller,
             policies : SUBSET Policy, rings : SUBSET RingId]

ASSUME NodeAssumption ==
    /\ IsFiniteSet(Node) /\ ManagedNode \subseteq Node
    /\ NoInfo \notin NodeInfo
    /\ GenesisNodeInfo \in [Node -> NodeInfo \cup {NoInfo}]

Registered(n) == nodeInfo[n] # NoInfo

NodeKnown(n, p, id) == Registered(n)

(* nodeInfoAllowsRing for ring id created under policy p. *)
NodeAllowsRing(n, p, id) ==
    /\ Registered(n)
    /\ p \in nodeInfo[n].policies \/ id \in nodeInfo[n].rings

-----------------------------------------------------------------------------

CreateNodeInfo(n, info) ==
    /\ ~ Registered(n)
    /\ nodeInfo' = [nodeInfo EXCEPT ![n] = info]

(* authorizeNodeInfoUpdate: the signer's key is the stored controller key. *)
Authorized(n, signer) == Registered(n) /\ signer = nodeInfo[n].controller

UpdateNodePeerId(n, signer, p) ==
    /\ Authorized(n, signer)
    /\ p # nodeInfo[n].peerId
    /\ nodeInfo' = [nodeInfo EXCEPT ![n].peerId = p]

TransferNodeController(n, signer, c) ==
    /\ Authorized(n, signer)
    /\ c # nodeInfo[n].controller
    /\ nodeInfo' = [nodeInfo EXCEPT ![n].controller = c]

AddNodeToWhitelist(n, signer) ==
    /\ Authorized(n, signer)
    /\ \/ \E p \in Policy \ nodeInfo[n].policies :
             nodeInfo' = [nodeInfo EXCEPT ![n].policies = @ \cup {p}]
       \/ \E r \in RingId \ nodeInfo[n].rings :
             nodeInfo' = [nodeInfo EXCEPT ![n].rings = @ \cup {r}]

RemoveNodeFromWhitelist(n, signer) ==
    /\ Authorized(n, signer)
    /\ \/ \E p \in nodeInfo[n].policies :
             nodeInfo' = [nodeInfo EXCEPT ![n].policies = @ \ {p}]
       \/ \E r \in nodeInfo[n].rings :
             nodeInfo' = [nodeInfo EXCEPT ![n].rings = @ \ {r}]

NodeInit == nodeInfo = GenesisNodeInfo

NodeNext ==
    \E n \in ManagedNode :
        \/ \E info \in NodeInfo : CreateNodeInfo(n, info)
        \/ \E signer \in Controller :
              \/ \E p \in PeerId : UpdateNodePeerId(n, signer, p)
              \/ \E c \in Controller : TransferNodeController(n, signer, c)
              \/ AddNodeToWhitelist(n, signer)
              \/ RemoveNodeFromWhitelist(n, signer)

=============================================================================
