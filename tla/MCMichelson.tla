---------------------------- MODULE MCMichelson ------------------------------
(***************************************************************************)
(* What outlives a call of a Michelson contract, instantiated for TLC: its  *)
(* storage from call to call, the big maps of the lazy storage, and packed  *)
(* data.  They share no state, so that in each behaviour one part moves and *)
(* the others rest in their initial state.                                  *)
(***************************************************************************)
EXTENDS MichelsonContract

VARIABLES
  part,                    \* the part that moves
  bm_stack, saved, lazy,   \* BigMaps
  trees, wire              \* Serializer
bm_vars == <<bm_stack, saved, lazy>>
wire_vars == <<trees, wire>>

B == INSTANCE BigMaps
       WITH Keys <- {1}, Vals <- {1}, NoVal <- 0, MaxMaps <- 3, MaxIds <- 2, stack <- bm_stack

\* A number of two bytes, a string, bytes.
Leaves == {<<"int", -64>>, <<"string", <<97>>>>, <<"bytes", <<255>>>>}

MyAnns == {<<>>, <<<<58, 97>>, <<64, 37>>>>}

S == INSTANCE Serializer WITH MyPrims <- {"Emit"}, Octets <- {0, 4, 128}, MaxNodes <- 4

------------------------------------------------------------------------------
DataInit == part \in {"contract", "big_maps", "wire"} /\ Init /\ B!Init /\ S!Init

ContractNext == part = "contract" /\ Next /\ UNCHANGED <<part, bm_vars, wire_vars>>
BigMapsNext == part = "big_maps" /\ B!Next /\ UNCHANGED <<part, vars, wire_vars>>
WireNext == part = "wire" /\ S!Next /\ UNCHANGED <<part, vars, bm_vars>>

DataSpec ==
  DataInit /\ [][ContractNext \/ BigMapsNext \/ WireNext]_<<part, vars, bm_vars, wire_vars>>

------------------------------------------------------------------------------
(* Properties.                                                              *)

\* What is stored between calls can be used by the next one: it is read back as
\* the value that was stored, scripts do not panic on it, and the big maps it
\* names exist and belong to one value each (contract storage; big_map.rs,
\* dump_big_map_updates).
StorageSound == StorageReadable /\ ScriptNoPanic /\ B!IdsValid /\ B!StoredOnce

\* No update of a big map is seen through another value
\* (dump_big_map_updates).
MapsAreValues == B!MapsAreValues

\* Encoded Micheline decodes to the tree that was encoded and to nothing else,
\* and what the decoder accepts, the encoder writes back to something the
\* decoder reads as the same tree (serializer).
WireSound == S!Received /\ S!Stable
==============================================================================
