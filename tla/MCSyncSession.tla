--------------------------- MODULE MCSyncSession -----------------------------
(* Small meshes for TLC.                                                    *)
EXTENDS SyncSession

CONSTANTS x, y, z,        \* record ids
          ann, ben,       \* devices
          ours, theirs    \* key ids

(* x and y share a truncated id; or no two do.                              *)
MCHash == [i \in Id |-> IF i = z THEN <<0, 0>> ELSE <<1, 1>>]
SpreadHash == [i \in Id |-> CASE i = x -> <<0, 0>> [] i = y -> <<0, 1>> [] i = z -> <<1, 0>>]

OneLink == {"ab"}
MCInitiator == [l \in Link |-> ann]
MCResponder == [l \in Link |-> ben]

TrustAll == [d \in Device |-> Key]
(* ben has never been paired with the holder of the second key.             *)
TrustSome == [d \in Device |-> IF d = ben THEN {ours} ELSE Key]

NoLocal == [d \in Device |-> {}]
MCLocal == [d \in Device |-> {[recordId |-> IF d = ann THEN z ELSE x, kid |-> ours]}]
=============================================================================
