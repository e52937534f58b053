--------------------------- MODULE MCStreamRelay ----------------------------
(* Small instances of StreamRelay: requests around every limit of the token  *)
(* plan, answers with every shape of usage, and streams of a few lines whose *)
(* texts begin or end with a blank.                                          *)
EXTENDS StreamRelay

MCChars == {"_", "x"}
Words(n) == [i \in 1..n |-> "x"]

Text(t) == [type |-> "text", text |-> t]
Image == [type |-> "image_url", text |-> <<>>]
Said(plain, parts) == [role |-> "user", plain |-> plain, parts |-> parts]

\* Five tokens of overhead, two of text, eight for an image.
Bodies == {<<Said(TRUE, <<Text(Words(8))>>)>>,
           <<Said(TRUE, <<Text(<<"_">>)>>)>>,
           <<Said(FALSE, <<>>)>>,
           <<Said(FALSE, <<Text(<<"_">>), Image>>)>>,
           <<[Said(FALSE, <<Text(Words(5)), Text(Words(2)), Image>>) EXCEPT !.role = "assistant"]>>,
           <<Said(TRUE, <<Text(Words(8))>>), Said(TRUE, <<Text(Words(1))>>)>>}

MCRequests == [messages : Bodies, max_tokens : {Null, 0, 1, 5}, stream : BOOLEAN]

Counts == {Absent, Null, 1, 30}
MCResponses ==
  [reports : {TRUE}, prompt_tokens : Counts, completion_tokens : Counts,
   total_tokens : Counts, choices : {<<>>}] \cup
  [reports : {FALSE}, choices : {<<>>, <<Words(4)>>, <<Words(3), <<"_", "x">>>>}]

Chunk(t) == [kind |-> "chunk", choices |-> <<t>>]
MCLines == {Chunk(<<>>), Chunk(Words(3)), Chunk(<<"_", "x">>), Chunk(<<"x", "_">>), Done} \cup
           {[kind |-> k, choices |-> <<>>] : k \in {"comment", "other", "space"}}
=============================================================================
