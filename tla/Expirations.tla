---------------------------- MODULE Expirations -----------------------------
(***************************************************************************)
(* cw0::Expiration and cw0::Duration: points in time that are given by a   *)
(* height, by a time, or not at all, and the durations that move them.     *)
(***************************************************************************)
EXTENDS Integers

Finite == {"height", "time"}
Expiration == [kind : Finite \cup {"never"}, at : Nat]
Duration == [kind : Finite, delta : Nat]
Block == [height : Nat, time : Nat]

Never == [kind |-> "never", at |-> 0]

IsExpired(e, block) ==
  \/ e.kind = "height" /\ block.height >= e.at
  \/ e.kind = "time" /\ block.time >= e.at

(* Duration::after *)
After(d, block) ==
  [kind |-> d.kind, at |-> d.delta + IF d.kind = "height" THEN block.height ELSE block.time]

(* Expiration + Duration, an error if one is a height and the other a time. *)
Addable(e, d) == e.kind \in {"never", d.kind}
Later(e, d) == IF e.kind = "never" THEN e ELSE [e EXCEPT !.at = @ + d.delta]
=============================================================================
