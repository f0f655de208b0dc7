---------------------------- MODULE MCRTPSources ----------------------------
(* RTPSources with three identifiers, two hosts and one packet of each kind *)
(* per question the table asks of it.                                      *)
EXTENDS RTPSources

MCSSRC == {"o", "a", "b"}
MCRTPFrom == {<<"h", 1>>, <<"h", 2>>, ThisTransmitter}
MCRTCPFrom == {<<"h", 2>>, <<"g", 2>>}
MCAddress == {<<"h", 1>>, <<"h", 2>>, <<"g", 2>>}
MCDelay == [d \in {"sender", "bye", "general", "note"} |->
              IF d \in {"sender", "general"} THEN 1 ELSE 0]

\* "a" is a mixer that names the others.
MCRTPPackets ==
  [ssrc : {"a"}, expected : BOOLEAN, csrcs : {<<>>, <<"b", "o">>}]
  \cup [ssrc : {"b", "o"}, expected : {TRUE}, csrcs : {<<>>}]

Item(t, v) == [type |-> t, value |-> v]
Report(t, s, blocks) == [type |-> t, ssrc |-> s, blocks |-> blocks]
Describe(s, items) == [type |-> "SDES", ssrc |-> s, items |-> items]
Bye(ss) == [type |-> "BYE", ssrcs |-> ss]

MCCompounds ==
  {<<Report("RR", "a", {})>>,
   <<Report("SR", "b", {"o", "a"}), Describe("b", <<Item("CNAME", "x")>>)>>,
   <<Report("RR", "a", {"o"}), Describe("a", <<Item("CNAME", "y"),
                                              Item("NOTE", TRUE)>>)>>,
   <<Report("RR", "b", {"b"}), Describe("b", <<>>),
     Describe("a", <<Item("PRIV", ""), Item("NAME", ""), Item("CNAME", "x")>>)>>,
   <<Describe("a", <<Item("NOTE", FALSE), Item("Unknown", ""),
                     Item("CNAME", "x")>>), Bye(<<"a">>)>>,
   <<Report("RR", "b", {}), [type |-> "APP"], Bye(<<"b", "a">>)>>,
   <<Bye(<<"o">>)>>}
=============================================================================
