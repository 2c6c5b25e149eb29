----------------------------- MODULE PageSlugs ------------------------------
(***************************************************************************)
(* The slugs newApplication gives to the pages of a config, in order: each *)
(* keeps its own, or that of its title, unless an earlier page has it;     *)
(* then the first number that is free goes behind the whole of it.         *)
(***************************************************************************)
EXTENDS Integers, Sequences, FiniteSets

\* A slug is the words between its hyphens; numbers are words: "news-2" is
\* <<"news", 2>>, and with a second number it is "news-2-2".
Slug(word) == <<word>>

FirstFree(slug, taken) ==
    IF slug \notin taken THEN slug
    ELSE LET free == {k \in 2..Cardinality(taken) + 2 : Append(slug, k) \notin taken}
         IN Append(slug, CHOOSE k \in free : \A m \in free : k <= m)

SlugsFor(bases) ==
    LET slugs[i \in 0..Len(bases)] ==
            IF i = 0 THEN << >>
            ELSE LET before == slugs[i - 1]
                 IN Append(before, FirstFree(bases[i], {before[j] : j \in 1..i - 1}))
    IN slugs[Len(bases)]
=============================================================================
