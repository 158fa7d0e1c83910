-------------------------- MODULE MCCardanoPayout --------------------------
EXTENDS CardanoPayout

Ada == [s \in Swaps |-> "ada"]
Token == [s \in Swaps |-> "tok"]
Two == [s \in Swaps |-> 2]
TwoOutputs == <<[ada |-> 9, tok |-> 1], [ada |-> 6, tok |-> 3]>>

=============================================================================
