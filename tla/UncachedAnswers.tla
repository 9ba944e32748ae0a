--------------------------- MODULE UncachedAnswers ---------------------------
(***************************************************************************)
(* What every cache of this system promises its callers: that they cannot  *)
(* tell it is there.  A client asks, and the answer it gets is the result  *)
(* computed from the source as it then is.  The source changes only while  *)
(* nobody is asking, which is what an exclusive borrow of it means.        *)
(***************************************************************************)
CONSTANTS
    Client,
    Request,
    NoRequest,      \* what a client that waits for no answer has asked
    Result(_, _)    \* the answer to a request, computed from the source

VARIABLES
    source,
    asked,          \* the request of each client, NoRequest when it has none
    answered        \* the last request of each client with its answer,
                    \* <<>> until it has one

answerVars == <<source, asked, answered>>

NobodyAsks == \A c \in Client : asked[c] = NoRequest

Ask(c) ==
    /\ asked[c] = NoRequest
    /\ \E r \in Request : asked' = [asked EXCEPT ![c] = r]
    /\ answered' = [answered EXCEPT ![c] = <<>>]
    /\ UNCHANGED source

Answer(c) ==
    /\ asked[c] # NoRequest
    /\ answered' = [answered EXCEPT ![c] = <<asked[c], Result(source, asked[c])>>]
    /\ asked' = [asked EXCEPT ![c] = NoRequest]
    /\ UNCHANGED source

ChangeSource ==
    /\ NobodyAsks
    /\ NobodyAsks'
    /\ UNCHANGED answered

UncachedNext == ChangeSource \/ \E c \in Client : Ask(c) \/ Answer(c)

UncachedSpec == NobodyAsks /\ [][UncachedNext]_answerVars
=============================================================================
