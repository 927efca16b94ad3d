----------------------------- MODULE MCController -----------------------------
(***************************************************************************)
(* Three nodes, of which two lie in zone a; two datastores.                *)
(***************************************************************************)
EXTENDS Controller, TLC

CONSTANTS n1, n2, n3

Tag(c, v)  == [category |-> c, name |-> v]
Topo(z, r) == [zone |-> z, region |-> r]

(* n1 and n2 share d1; n3 sees only d2; a host overrides the zone of its   *)
(* cluster, and a folder carries the region.                               *)
Tree(access, tags) ==
    [path   |-> (n1 :> <<"root", "c1", "h1">>) @@ (n2 :> <<"root", "c1", "h2">>)
                @@ (n3 :> <<"root", "c2">>),
     tags   |-> tags, access |-> access, listed |-> {"d1", "d2"}, labels |-> TRUE]

Access  == (n1 :> {"d1", "d2"}) @@ (n2 :> {"d1"}) @@ (n3 :> {"d2"})
Zoned   == [o \in {"root", "c1", "c2", "h1", "h2"} |->
               CASE o = "root" -> <<Tag("region", "r")>>
                 [] o = "c1"   -> <<Tag("zone", "a")>>
                 [] o = "c2"   -> <<Tag("zone", "b")>>
                 [] OTHER      -> << >>]
Overridden == [Zoned EXCEPT !["h2"] = <<Tag("rack", "x"), Tag("zone", "b")>>]
Untagged   == [Zoned EXCEPT !["c2"] = << >>]

Want(t, p, r, u) == [topology |-> t, preferred |-> p, requisite |-> r, url |-> u]
Plain(u) == Want(FALSE, << >>, << >>, u)

MCCases ==
    LET spread == Want(TRUE, <<Topo("a", "r")>>, <<Topo("a", "r"), Topo("b", "r")>>, "")
        region == Want(TRUE, <<Topo("c", "r")>>, <<Topo("", "r")>>, "")
        two    == Want(TRUE, <<Topo("b", "r"), Topo("a", "r")>>, << >>, "d2")
        scene(i, r) == [inv |-> i, req |-> r]
    IN  <<scene(Tree(Access, Untagged), spread),
          scene(Tree(Access, Overridden), spread),
          scene(Tree(Access, Overridden), region),
          scene(Tree(Access, Zoned), two),
          scene([Tree([Access EXCEPT ![n3] = {"d1", "d2"}], Zoned) EXCEPT !.listed = {"d1"}],
               Plain("d1"))>>
===============================================================================
