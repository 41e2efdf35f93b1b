---------------------------- MODULE OrbisDocument ----------------------------
(***************************************************************************)
(* Documents and key derivations of x/orbis: what users store for a ring,  *)
(* sealed to the keys the ring has when they store it.                     *)
(*                                                                         *)
(* A document identifier hashes the ring, the content and, when there is   *)
(* one, the PET tag, but not the creator; a derivation's hashes the ring   *)
(* and the content.  The hashed fields therefore stand for the identifier. *)
(***************************************************************************)
EXTENDS OrbisRing

CONSTANTS
    Content,           \* ciphertexts with their proof and policy binding; derivations
    Creator,           \* DIDs of the users who store
    NoEntry            \* nothing is stored under an identifier

VARIABLES
    documents,         \* document store: identifier -> entry, or NoEntry
    keyDerivations     \* key derivation store: identifier -> entry, or NoEntry

documentVars == <<documents, keyDerivations>>
storeVars == <<vars, documentVars>>

DocumentId == [ring : RingId, content : Content, tagged : BOOLEAN]
DerivationId == [ring : RingId, content : Content]

(* sealed is history: the ring's keys when the entry was stored. *)
Entry == [creator : Creator, sealed : Output]

-----------------------------------------------------------------------------

NewEntry(creator, id) == [creator |-> creator, sealed |-> rings[id].output]

StoreDocumentOver(d, creator) ==
    /\ Exists(d.ring) /\ Finalized(rings[d.ring])
    /\ d.tagged <=> Config[d.ring].requiresPet
    /\ documents' = [documents EXCEPT ![d] = NewEntry(creator, d.ring)]
    /\ UNCHANGED keyDerivations

StoreDocument(d, creator) ==
    /\ Exists(d.ring) /\ Finalized(rings[d.ring])
    /\ d.tagged <=> Config[d.ring].requiresPet
    /\ documents[d] = NoEntry
    /\ documents' = [documents EXCEPT ![d] = NewEntry(creator, d.ring)]
    /\ UNCHANGED keyDerivations

StoreKeyDerivation(k, creator) ==
    /\ Exists(k.ring) /\ Finalized(rings[k.ring])
    /\ keyDerivations[k] = NoEntry
    /\ keyDerivations' = [keyDerivations EXCEPT ![k] = NewEntry(creator, k.ring)]
    /\ UNCHANGED documents

-----------------------------------------------------------------------------

DocumentInit ==
    /\ Init
    /\ documents = [d \in DocumentId |-> NoEntry]
    /\ keyDerivations = [k \in DerivationId |-> NoEntry]

DocumentNext ==
    \/ Next /\ UNCHANGED documentVars
    \/ /\ \E c \in Creator :
             \/ \E d \in DocumentId : StoreDocument(d, c)
             \/ \E k \in DerivationId : StoreKeyDerivation(k, c)
       /\ OtherMessage
       /\ fresh' = FALSE
       /\ UNCHANGED blockVars

DocumentSpec == DocumentInit /\ [][DocumentNext]_storeVars

-----------------------------------------------------------------------------
(* Properties *)

(* Whatever is stored can be used for ever: its ring exists and still has  *)
(* the keys it was sealed to, and a document carries a PET tag exactly when*)
(* the ring has the key to test it with.                                   *)
StoredUsable ==
    /\ \A d \in DocumentId : documents[d] # NoEntry =>
          /\ Exists(d.ring)
          /\ rings[d.ring].output = documents[d].sealed
          /\ d.tagged <=> rings[d.ring].output.petPk # NoKey
    /\ \A k \in DerivationId : keyDerivations[k] # NoEntry =>
          /\ Exists(k.ring)
          /\ rings[k.ring].output = keyDerivations[k].sealed

(* The first creator of a document or derivation keeps it: the same content*)
(* stored again, by anyone, never replaces the entry.                      *)
FirstCreatorKeeps ==
    [][/\ \A d \in DocumentId : documents[d] # NoEntry => documents'[d] = documents[d]
       /\ \A k \in DerivationId :
             keyDerivations[k] # NoEntry => keyDerivations'[k] = keyDerivations[k]]_storeVars
=============================================================================
