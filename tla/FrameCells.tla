----------------------------- MODULE FrameCells -----------------------------
(***************************************************************************)
(* What the shared frame ring promises to its users, without saying how:   *)
(* every cell is handed from one writer to one reader and back.  A cell is *)
(* claimed by one writer, offered with the frame that writer put into it,  *)
(* taken by one reader together with that very frame, and returned.  A     *)
(* holder that dies leaves its cell as it is, and the cell is lost.        *)
(*                                                                         *)
(* ShmRing implements this module; the mapping is stated there.            *)
(***************************************************************************)
CONSTANTS Writers,   \* the threads and processes that produce frames
          Readers,   \* those that consume them
          Cells,     \* the slots of the ring
          Frames,    \* what a writer may put into a cell
          NoFrame    \* content of a cell that was never offered

VARIABLES stage,     \* the cell's place in the hand-over
          holder,    \* the set of actors the cell belongs to
          content    \* the frame last offered in the cell

vars == <<stage, holder, content>>

Stages == {"Free", "Writing", "Ready", "Reading"}

Init == /\ stage = [c \in Cells |-> "Free"]
        /\ holder = [c \in Cells |-> {}]
        /\ content = [c \in Cells |-> NoFrame]

Claim(w, c) == /\ stage[c] = "Free"
               /\ holder[c] = {}
               /\ stage' = [stage EXCEPT ![c] = "Writing"]
               /\ holder' = [holder EXCEPT ![c] = {w}]
               /\ UNCHANGED content

Offer(w, c, f) == /\ stage[c] = "Writing"
                  /\ holder[c] = {w}
                  /\ stage' = [stage EXCEPT ![c] = "Ready"]
                  /\ holder' = [holder EXCEPT ![c] = {}]
                  /\ content' = [content EXCEPT ![c] = f]

Take(r, c) == /\ stage[c] = "Ready"
              /\ holder[c] = {}
              /\ stage' = [stage EXCEPT ![c] = "Reading"]
              /\ holder' = [holder EXCEPT ![c] = {r}]
              /\ UNCHANGED content

Return(r, c) == /\ stage[c] = "Reading"
                /\ holder[c] = {r}
                /\ stage' = [stage EXCEPT ![c] = "Free"]
                /\ holder' = [holder EXCEPT ![c] = {}]
                /\ UNCHANGED content

\* The holder dies; nothing tells the others, so the cell keeps its stage.
Abandon(a, c) == /\ holder[c] = {a}
                 /\ holder' = [holder EXCEPT ![c] = {}]
                 /\ UNCHANGED <<stage, content>>

Next == \E c \in Cells :
           \/ \E w \in Writers : \/ Claim(w, c)
                                 \/ \E f \in Frames : Offer(w, c, f)
           \/ \E r \in Readers : Take(r, c) \/ Return(r, c)
           \/ \E a \in Writers \cup Readers : Abandon(a, c)

Spec == Init /\ [][Next]_vars
=============================================================================
