----------------------------- MODULE MCDoorstop -----------------------------
(***************************************************************************)
(* The importer on small trees: links forward, backward and to nobody, two *)
(* kinds of ref, a tree that loses an item, trees that do not map file by  *)
(* file, and projects whose collections are in the way or are not.         *)
(***************************************************************************)
EXTENDS Doorstop

CONSTANTS a1, a2, b1, ghost, refa1, refa2, refb1, refghost, named, REQ, DES, reqdir, desdir, own, q1, q2

MCSlug == REQ :> reqdir @@ DES :> desdir
MCRefName == a1 :> refa1 @@ a2 :> refa2 @@ b1 :> refb1 @@ ghost :> refghost
MCFits == {<<a1, REQ>>, <<a2, REQ>>, <<b1, DES>>}

Entry(uid, links, ref) ==
    [uid |-> uid, form |-> "mapping", links |-> links, ref |-> ref,
     reviewed |-> links = <<>>, extra |-> ref = "text"]
Folder(prefix, items) == [marker |-> "ok", prefix |-> prefix, items |-> items]

First == Entry(a1, <<>>, "url")
Second == Entry(a2, <<<<"hashed", b1>>>>, "none")
Design == Entry(b1, <<<<"uid", a1>>, <<"odd", a2>>, <<"uid", ghost>>>>, "text")

Whole == <<Folder(REQ, <<First, Second>>), Folder(DES, <<Design>>)>>
Shorter == <<Folder(REQ, <<First>>), Folder(DES, <<Design>>)>>
Torn == <<Folder(REQ, <<First, [Second EXCEPT !.form = "list"]>>)>>
\* An item under the other document's prefix; the same document twice.
Strayed == <<Folder(REQ, <<First>>), Folder(DES, <<Design, First>>)>>
Twice == <<Folder(REQ, <<First>>), Folder(REQ, <<First, Second>>)>>

Empty == [dirs |-> <<>>, files |-> <<>>]
Note == [uuid |-> Id(0, "item", <<0, 0>>, 0), uid |-> None, links |-> <<>>, shape |-> "content",
         url |-> None, log |-> <<>>, legacy |-> {}]
Beside == [dirs |-> own :> "OWN", files |-> <<own, named>> :> Note]
Taken == [dirs |-> own :> DES, files |-> <<>>]

MCScenes == {
    [home |-> Beside, trees |-> {Whole}],
    [home |-> Empty, trees |-> {Shorter, Whole}],
    [home |-> Taken, trees |-> {Shorter, Torn}],
    [home |-> Empty, trees |-> {Strayed}],
    [home |-> Empty, trees |-> {Twice}] }
Symmetric == Permutations(Requests)
=============================================================================
