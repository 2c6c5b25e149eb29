------------------------------ MODULE MCEditor ------------------------------
\* On disk: a config with pages in an included file, and one with an include in
\* that.  On a page: includes in a list, in a block, and in an included file.
\* Rights: two pages of one name, slugs of their own, one of them the slug that
\* another page gets with its number, and a page for one user; one editor is
\* restricted to two slugs.
EXTENDS Editor, TLC

CONSTANTS r1, r2, main, f, g, x1, x2, x3,
          l1, l2, w1, w2, w3,
          home, news, news2, private, ann, bob,
          homeWord, newsWord, privateWord

Start(inMain, inF, inG) == (main :> inMain) @@ (f :> inF) @@ (g :> inG)

MCStarts == {
    Start(<<x1, f>>, <<x2>>, Absent),
    Start(<<f>>, <<g, x1>>, <<x2>>)}

MCSymmetry == Permutations(Requests)

Page(a, b, inF, inG, block) ==
    [tree |-> (l1 :> a) @@ (l2 :> b) @@ (f :> inF) @@ (g :> inG),
     kind |-> (l1 :> IF block THEN "block" ELSE "list") @@ (l2 :> "list")]

MCTreeStarts == {
    Page(<<f, g>>, << >>, <<w1, w2>>, <<w3>>, FALSE),
    Page(<<w1, f>>, <<w3>>, <<g>>, <<w2>>, FALSE),
    Page(<<f, g>>, << >>, <<w1>>, <<w2>>, TRUE),
    Page(<<w1, f>>, << >>, <<w2, w3>>, Absent, FALSE)}

MCNameOf == (home :> "Home") @@ (news :> "News") @@ (news2 :> "News") @@ (private :> "Private")

MCTitleSlug == ("Home" :> <<homeWord>>) @@ ("News" :> <<newsWord>>) @@ ("Private" :> <<privateWord>>)

MCSlugOf == (home :> NoSlug) @@ (news :> NoSlug)
            @@ (news2 :> <<newsWord>>) @@ (private :> <<newsWord, 2>>)

MCReadersOf == (home :> {}) @@ (news :> {}) @@ (news2 :> {}) @@ (private :> {ann})

MCRestrictedTo == (ann :> {}) @@ (bob :> {<<homeWord>>, <<newsWord, 2>>})

MCFirstVersion == <<home, news, private>>

MCVersions == {MCFirstVersion, <<private, home, news>>, <<news2, news, home, private>>,
               <<private, news2>>, <<news, news2, home>>}
=============================================================================
