----------------------------- MODULE MCTopology -----------------------------
(* Instances of Topology for TLC. *)
EXTENDS Topology, TLC

CONSTANTS a1, a2, d1, e1

Registry(devices, unkeyed, device, area) ==
  [areas |-> {a1, a2}, devices |-> devices, unkeyed |-> unkeyed,
   entities |-> (e1 :> [device |-> device, area |-> area])]

(* The device moves from a1 to a2; or the device is removed and the entity  *)
(* given an area of its own, so that a fetch torn between two lists shows a *)
(* combination Home Assistant never had.                                    *)
Keyed == {Registry(d1 :> a1, FALSE, d1, None), Registry(d1 :> a2, FALSE, d1, None),
          Registry(EmptyMap, FALSE, None, a2)}
(* The same change, with a device that has no device_id. *)
WithUnkeyed == {Registry(d1 :> a1, FALSE, d1, None), Registry(EmptyMap, TRUE, None, a2)}
=============================================================================
