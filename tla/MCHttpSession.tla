---------------------------- MODULE MCHttpSession ----------------------------
(* Small instance of HttpSession: bodies of one and of two chunks, one with  *)
(* the digit that begins the terminator and one with all of the terminator,   *)
(* read in pieces of every length up to seven, over two addresses and two     *)
(* requests.                                                                  *)
EXTENDS HttpSession

Values == {"v", "0"}

Binary == <<"a", "0", "cr", "lf", "cr", "lf", "a">>

MCReplies == [kind : {"upgrade"}, value : Values, chunks : {<<>>}]
             \cup [kind : {"length", "chunked"}, value : Values,
                   chunks : {<< <<"a", "0">> >>, <<Binary>>, << <<"0">>, <<"b", "a">> >>}]
==============================================================================
