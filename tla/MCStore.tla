------------------------------ MODULE MCStore ------------------------------
EXTENDS Suggestions
CONSTANTS u1, u2, u3, n1, n2, d1, d2, x1, x2, t1, t2, png, pdf, todo, r1, r2

MCSlug == x1 :> d1 @@ x2 :> d1
Empty == [files |-> <<>>, dirs |-> <<>>]
One(p, f) == [files |-> p :> f, dirs |-> d1 :> x1]
Note == One(Path(d1, n1, Md), Artifact(u1, "content", "front", None))
Page == One(Path(d1, n1, UrlSide), Artifact(u1, "url", "json", t1))
Scan == [One(Path(d1, n1, Side(png)), Artifact(u1, "blob", "json", png))
            EXCEPT !.files = Path(d1, n1, Bin(png)) :> Bytes @@ @]
Pair == [files |-> Path(d1, n1, Md) :> Artifact(u1, "content", "front", None)
                @@ Path(d1, n2, Md) :> Artifact(u2, "content", "front", None)
                @@ PendingAt :> ListFile({Suggestion(<<u1, u2>>, 0)})
                @@ DeclinedAt :> ListFile({Suggestion(<<u2, u1>>, 0)}),
         dirs |-> d1 :> x1]
ScanOfNote == [Scan EXCEPT !.files =
    Path(d1, n2, Md) :> Artifact(u2, "content", "front", None)
    @@ PendingAt :> ListFile({Suggestion(<<u1, u2>>, 0)}) @@ @]
MCKeys == {<<u1, u2>>, <<u2, u1>>}
MCScenes == {
    [tree |-> Pair, ops |-> {"analyze", "accept", "reject", "reinstate"}],
    [tree |-> Pair, ops |-> {"accept", "reject", "review"}],
    [tree |-> Pair, ops |-> {"accept", "reinstate", "update", "delete"}],
    [tree |-> Pair, ops |-> {"accept", "wipe"}],
    [tree |-> Note, ops |-> {"create", "update", "review", "rename", "delete"}],
    [tree |-> Note, ops |-> {"create", "createurl", "delete", "mkcoll", "rmcoll", "wipe"}],
    [tree |-> Page, ops |-> {"createurl", "check", "update", "rename", "delete"}],
    [tree |-> Page, ops |-> {"check", "update", "review"}],
    [tree |-> Scan, ops |-> {"createblob", "adopt", "delete"}],
    [tree |-> Scan, ops |-> {"adopt", "update", "delete", "replace"}],
    [tree |-> ScanOfNote, ops |-> {"accept", "replace"}],
    [tree |-> Empty, ops |-> {"import", "mkcoll", "rmcoll"}],
    [tree |-> Empty, ops |-> {"import", "wipe"}],
    [tree |-> Empty, ops |-> {"import", "sample", "update", "check"}] }
Symmetric == Permutations(Requests)
=============================================================================
