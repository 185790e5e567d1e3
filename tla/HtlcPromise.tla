---------------------------- MODULE HtlcPromise ----------------------------
(***************************************************************************)
(* What a swap whose escrow a secret unlocks promises to the user who      *)
(* holds the secret, whatever calls, ticks, events and restarts bring it   *)
(* about: the secret goes out for an open escrow only, and what the SDK    *)
(* tells about the escrow is so.  FromBTCLNSwap implements it.             *)
(***************************************************************************)
VARIABLES
  escrow,   \* "none", "open", "paid" or "refunded"
  late,     \* the escrow has timed out
  revealed, \* the secret is out
  told,     \* "quote", "held" (claim it), "claimed" or "over" (nothing to claim)
  up,       \* the SDK runs
  careful   \* the user relies on it: no call in use gives a commit up too early

vars == <<escrow, late, revealed, told, up, careful>>

Init ==
  /\ escrow = "none" /\ late = FALSE /\ revealed = FALSE /\ told = "quote" /\ up = TRUE
  /\ careful \in BOOLEAN

\* What may be told of the escrow as it is.
SoIs(t) ==
  \/ t = "quote"
  \/ t = "held" /\ escrow # "none"
  \/ t = "claimed" /\ escrow = "paid"
  \/ t = "over" /\ (escrow \in {"none", "refunded"} \/ late \/ ~careful)

\* A quote that was given up is not committed any more.
Open ==
  /\ escrow = "none" /\ (told # "over" \/ late \/ ~careful)
  /\ escrow' = "open"
  /\ UNCHANGED <<late, revealed, told, up>>

Reveal ==
  /\ ~revealed /\ escrow # "none"
  /\ revealed' = TRUE
  /\ UNCHANGED <<escrow, late, told, up>>

Settle ==
  /\ escrow = "open"
  /\ escrow' \in (IF revealed THEN {"paid"} ELSE {}) \cup (IF late THEN {"refunded"} ELSE {})
  /\ UNCHANGED <<late, revealed, told, up>>

Timeout == ~late /\ late' = TRUE /\ UNCHANGED <<escrow, revealed, told, up>>

\* "claimed" stands, at least until the escrow would have timed out.
Tell ==
  /\ up /\ (told = "claimed" => late)
  /\ \E t \in {"quote", "held", "claimed", "over"} : SoIs(t) /\ told' = t
  /\ UNCHANGED <<escrow, late, revealed, up>>

\* A restart may bring back what was told before.
Stop  == up /\ up' = FALSE /\ UNCHANGED <<escrow, late, revealed, told>>
Start ==
  /\ ~up /\ up' = TRUE
  /\ \E t \in {"quote", "held", "claimed", "over"} : SoIs(t) /\ told' = t
  /\ UNCHANGED <<escrow, late, revealed>>

Next ==
  /\ UNCHANGED careful
  /\ Open \/ Reveal \/ Settle \/ Timeout \/ Tell \/ Stop \/ Start

Spec == Init /\ [][Next]_vars
=============================================================================
