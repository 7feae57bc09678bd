---------------------------- MODULE MCHttpRequest ----------------------------
(***************************************************************************)
(* A request for TLC: its text before the parser, and its URI before the   *)
(* handler, one or the other, since they share no state and each has       *)
(* characters of its own.  URIs are short ones of any characters, and all  *)
(* spellings of the URIs that the properties are about.                    *)
(***************************************************************************)
EXTENDS RequestHandler, RequestParser

ShortUris == UNION {[1..n -> {"/", "s", "?", "%", "2", "e", "h", ".", "+"}] : n \in 0..4}
MCUris == ShortUris \cup UNION {Spellings(u) : u \in PlayUrls \cup Parents}

MCClientLists == {<<>>, <<"one">>, <<"one", "two">>}

requestVars == <<vars, handlerVars>>

RequestInit == Init /\ HandlerInit

RequestNext ==
    \/ reply = NoReply /\ shm_map = <<>> /\ Next /\ UNCHANGED handlerVars
    \/ text = <<>> /\ HandlerNext /\ UNCHANGED vars

RequestSpec == RequestInit /\ [][RequestNext]_requestVars
=============================================================================
