--------------------------- MODULE MCConversation ----------------------------
(* A small instance of Conversation; session ids are interchangeable.        *)
EXTENDS Conversation, TLC

MCMessages == [tab: Tabs \cup {Nobody}, n: 0..MaxMessages]

Symmetry == Permutations(Sessions \ Foreign)

=============================================================================
