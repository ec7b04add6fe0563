-------------------------- MODULE RequestService --------------------------
(***************************************************************************)
(* What two gateways promise to MQTT, whatever the radio does: a board     *)
(* opens its servo only for requests of the other one, and outcomes are    *)
(* reported in the order of the requests, one at most for each, and a      *)
(* success only after the other board has opened.  LoraNetwork implements  *)
(* this.                                                                   *)
(*                                                                         *)
(* The promise weakens with a restart, because the numbers begin anew: a   *)
(* board that has restarted may take an old answer for a new one, and the  *)
(* other may still obey an old request.                                    *)
(***************************************************************************)
EXTENDS Integers, Sequences

CONSTANTS
    Number,    \* the numbers requests can have
    Board,
    Other(_)   \* the board at the other end

VARIABLES
    asked,     \* how many requests a board has been given
    opened,    \* the numbers of the requests a board has obeyed
    outcomes,  \* what has been reported of a board's requests: [seq, success]
    restarts

vars == <<asked, opened, outcomes, restarts>>

Init ==
    /\ asked = [x \in Board |-> 0]
    /\ opened = [x \in Board |-> {}]
    /\ outcomes = [x \in Board |-> <<>>]
    /\ restarts = [x \in Board |-> 0]

Ask(x) ==
    /\ asked' = [asked EXCEPT ![x] = @ + 1]
    /\ UNCHANGED <<opened, outcomes, restarts>>

Obey(x, n) ==
    /\ restarts[Other(x)] = 0 => n <= asked[Other(x)]
    /\ opened' = [opened EXCEPT ![x] = @ \cup {n}]
    /\ UNCHANGED <<asked, outcomes, restarts>>

Report(x, n, success) ==
    /\ n <= asked[x]
    /\ \A i \in DOMAIN outcomes[x] : outcomes[x][i].seq < n
    /\ success /\ restarts[x] = 0 => n \in opened[Other(x)]
    /\ outcomes' = [outcomes EXCEPT ![x] = Append(@, [seq |-> n, success |-> success])]
    /\ UNCHANGED <<asked, opened, restarts>>

Restart(x) ==
    /\ asked' = [asked EXCEPT ![x] = 0]
    /\ outcomes' = [outcomes EXCEPT ![x] = <<>>]
    /\ opened' = [opened EXCEPT ![Other(x)] = {}]
    /\ restarts' = [restarts EXCEPT ![x] = @ + 1]

Next ==
    \E x \in Board :
        \/ Ask(x)
        \/ \E n \in Number : Obey(x, n)
        \/ \E n \in Number, success \in BOOLEAN : Report(x, n, success)
        \/ Restart(x)

Spec == Init /\ [][Next]_vars
=============================================================================
