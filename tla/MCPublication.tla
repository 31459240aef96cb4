---------------------------- MODULE MCPublication ----------------------------
(* Names m and m-7b, so that the dash link of m:7b is the plain link of     *)
(* m-7b, a tag with a colon, as the override "m:x:y" makes one, and a name  *)
(* with a slash, as "m/n:latest" does.                                      *)
EXTENDS Publication, TLC

McLatest == <<"latest">>
McPortable == {<<<<"m">>, <<"7b">>>>, <<<<"m", "-", "7b">>, McLatest>>}
McImported == {<<<<"m">>, <<"7b">>>>}
McTarget ==
  McPortable \cup {<<<<"m">>, <<"x", ":", "y">>>>, <<<<"m", "/", "n">>, McLatest>>}

(* No definition tells two pulls or two digests apart.                      *)
McSymmetry == Permutations(Puller) \cup Permutations(Digest)

(* What a pull or an import that is over worked on is never read again, and *)
(* how it ended neither.  A List at work is known by what it has yet to     *)
(* meet of what was there when it began: a tag that came later may be met   *)
(* or not, which nothing reads.  Of an ended one counts what is claimed.    *)
McView ==
  <<stored, flat, tag, at, setting, settled,
    IF list.pc = "done" THEN <<"done", ListAllOrNothing>> ELSE <<list.pc, (before \cap Walked) \ list.met>>,
    [h \in DOMAIN ppc |-> IF ppc[h] \in Ended THEN "over" ELSE ppc[h]],
    [h \in DOMAIN job |-> IF Active(h) THEN job[h] ELSE None],
    {p \in disturbed : Active(p)}>>
==============================================================================
