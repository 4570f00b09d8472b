------------------------------- MODULE MCUmad -------------------------------
(***************************************************************************)
(* Values for the constants of Umad that a configuration cannot write.     *)
(***************************************************************************)
EXTENDS UmadProps, TLC

Offer(kind, n) == [kind |-> kind, n |-> n]

ShortPrompt == {Offer("prompt", 1)}
LongPrompt == {Offer("prompt", 3)}
PromptOrBad == {Offer("prompt", 1), Offer("badreq", 0)}
OneOfEach == {Offer("prompt", 2)} \cup {Offer(k, 0) : k \in Kinds \ {"prompt"}}

Symmetry == Permutations(Fds)
=============================================================================
