---------------------------- MODULE MCSessionList ----------------------------
(***************************************************************************)
(* An instance of SessionList for TLC.                                     *)
(***************************************************************************)
EXTENDS SessionList, TLC

CONSTANTS c1, c2, h1, h2, i1, i2, i3, v1, v2, v3, draw, adult

\* c1 announces from the network, c2 from the machine of the server.
ClientAddresses == c1 :> h1 @@ c2 :> h2

ResolvedHosts == h1 :> {c1} @@ h2 :> {}

IdLengths == i1 :> 1 @@ i2 :> 36 @@ i3 :> 37

\* 1 is "Draw 18+", 2 is "draw".
CaseSensitive == draw :> {2} @@ adult :> {1}

AnyCase == draw :> {1, 2} @@ adult :> {1}

\* v3 is "4.2", which is in the text of v1, "dp:4.24.0".
VersionTexts == v1 :> {v1} @@ v2 :> {v2} @@ v3 :> {v1, v3}

Info(host, port, id, protocol, title, nsfm) ==
  [host |-> host, port |-> port, id |-> id, protocol |-> protocol,
   title |-> title, nsfm |-> nsfm]

\* The last five are to be refused.
Inputs ==
  {<<c1, Info(NoHost, 0, i1, v2, 1, FALSE)>>,
   <<c2, Info(h2, 5000, i2, v3, 2, TRUE)>>,
   <<c2, Info(NoHost, 0, i1, v1, 2, FALSE)>>,
   <<c1, Info(h2, 5000, i1, v1, 2, FALSE)>>,
   <<c1, Info(NoHost, 1023, i1, v1, 2, FALSE)>>,
   <<c1, Info(NoHost, 65536, i1, v1, 2, FALSE)>>,
   <<c1, Info(NoHost, 0, i3, v1, 2, FALSE)>>}

Query(title, nsfm, protocol) == [title |-> title, nsfm |-> nsfm, protocol |-> protocol]

Queries ==
  {Query(NoFilter, FALSE, {}), Query(adult, TRUE, {v2}), Query(draw, TRUE, {v1, v3})}

Copy(id, protocol, title, nsfm) ==
  [host |-> h1, port |-> 27750, id |-> id, protocol |-> protocol,
   title |-> title, nsfm |-> nsfm, source |-> "included"]

\* Two addresses of one server, the second with an older list.
ServerLists ==
  <<{<<Copy(i1, v2, 1, FALSE), Copy(i2, v2, 1, TRUE)>>},
    {<<Copy(i2, v2, 2, FALSE)>>, <<Copy(i1, v2, 2, FALSE), Copy(i3, v2, 1, FALSE)>>}>>

NoServers == <<>>

\* "a-5000", 27750, "x" and "a", 5000, "27750-x" read the same.
DashedNames ==
  [name \in Hosts \X {5000, 27750} \X Ids |->
     IF name = <<h2, 5000, i2>> THEN <<h1, 27750, i3>> ELSE name]

=============================================================================
