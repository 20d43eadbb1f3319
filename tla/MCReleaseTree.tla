---------------------------- MODULE MCReleaseTree ----------------------------
(***************************************************************************)
(* Small archives: a body of two names, one of which may be a directory,   *)
(* bare or in a wrapper, with or without an AppleDouble member beside it,  *)
(* listed as tar programs list them, and with one strange member.          *)
(***************************************************************************)
EXTENDS ReleaseTree

MCName == {"a", "b", "B", "q", "u", "L", "._L", Marker, "8", "?", "o"}

(* "q" stands for a name in double quotes, "u" for one with a lone quote,  *)
(* "8" for one that is not UTF-8, "?" for the one that it is displayed as, *)
(* and "o" for "8" in double quotes, with an octal escape.                 *)
MCUnquoted == [n \in MCName |->
  CASE n = "q" -> "a" [] n = "o" -> "8" [] n = "u" -> None [] OTHER -> n]

MCDisplayed == [n \in MCName |-> IF n = "8" THEN "?" ELSE n]

MCNameLength == [n \in MCName |->
  CASE n = "q" -> 3 [] n = "?" -> 3 [] n = "o" -> 6 [] n = Marker -> 9 [] OTHER -> 1]

MCFolded == [n \in MCName |-> IF n = "B" THEN "b" ELSE n]

MCPolicy == [members |-> 6, bytes |-> 4, ratio |-> 3, filesize |-> 3, depth |-> 4]

MCAppleDouble == {"._L"}

-----------------------------------------------------------------------------
(* Trees. *)

Dir  == [kind |-> "dir", data |-> <<>>]
File == [kind |-> "file", data |-> <<"x">>]
Leaf == {File, [kind |-> "exec", data |-> <<"y">>], [kind |-> "link", data |-> <<"b">>],
         [kind |-> "dirlink", data |-> <<"b">>], Dir}

Under(name, t) ==
  [p \in {<<name>>} \cup {<<name>> \o q : q \in DOMAIN t} |->
     IF Len(p) = 1 THEN Dir ELSE t[Tail(p)]]

Flat  == UNION {[S -> Leaf] : S \in {{}, {<<"a">>}, {<<"a">>, <<"b">>}, {<<"a">>, <<"q">>}}}
Odd   == {(<<"a">> :> File) @@ (<<n>> :> File) : n \in {"u", "._L", Marker}}
Body  == Flat \cup Odd
  \cup {Under("a", s) @@ t : s \in Flat \cup Odd, t \in {<<>>, <<"b">> :> File, <<"b">> :> Dir}}
Stray == <<"._L">> :> File

Tree == Body \cup {Under("L", b) : b \in Body}
  \cup {Under("L", b) @@ Stray : b \in Flat} \cup {Under("L", Under("L", b)) : b \in Flat}

-----------------------------------------------------------------------------
(* Archives.  Every file has one byte, so that no tree is over a budget. *)

Member(p, node) ==
  [path |-> p, kind |-> node.kind, data |-> node.data,
   size |-> IF node.kind \in {"file", "exec"} THEN 1 ELSE 0]

Packed(ms, size, n) ==
  [packed |-> TRUE, readable |-> TRUE, size |-> size, members |-> ms, strip |-> n]
Unreadable == [packed |-> TRUE, readable |-> FALSE, size |-> 1, members |-> <<>>, strip |-> 0]
Loose(t)   == [packed |-> FALSE, tree |-> t, strip |-> 0]

(* Every path with a member; directories only where nothing is in them;    *)
(* "./a" for a; the same with "." itself; both ways of naming in one.      *)
Listed(t)   == [p \in DOMAIN t |-> Member(p, t[p])]
Implied(t)  == [p \in {q \in DOMAIN t : Children(t, q) = {}} |-> Member(p, t[p])]
Dotting(p)  == <<".">> \o p
Prefixed(t) == [p \in DOMAIN t |-> Member(Dotting(p), t[p])]
Here(t)     == Prefixed(t) @@ (<<".">> :> Member(<<".">>, Dir))
HalfPrefixed(t) ==
  [p \in DOMAIN t |-> Member(IF Last(p) = "a" THEN Dotting(p) ELSE p, t[p])]

Single == {<<Packed(Listed(t), 1, n)>> : t \in Tree, n \in 0..2}
  \cup UNION {{<<Packed(Implied(t), 1, 1)>>, <<Packed(Prefixed(t), 1, 1)>>,
               <<Packed(Here(t), 1, 1)>>, <<Packed(HalfPrefixed(t), 1, 1)>>} : t \in Tree}

Extra(p, kind, data, size) == [path |-> p, kind |-> kind, data |-> data, size |-> size]
Extras ==
  {Extra(p, "file", <<"x">>, 1) :
     p \in {<<"/", "L">>, <<"L", "..", "L">>, <<"a">>, <<"B">>, <<"a", "L">>,
            <<"L", "a", "a", "a">>, <<"L", "a", "a", "a", "a">>}}
  \cup {Extra(<<"L">>, "file", <<"x">>, s) : s \in {3, 4, 5}}
  \cup {Extra(<<"L">>, kind, <<n>>, 0) : kind \in {"hard", "special"}, n \in {"a", "u"}}
  \cup {Extra(p, "link", d, 0) : p \in {<<"L">>, <<"L", "b">>},
                                 d \in {<<"..", "b">>, <<"..", "..", "b">>, <<"/", "b">>}}

(* No archive has a hard link to a directory or a member below a file. *)
Possible(t, x) ==
  /\ x.kind = "hard" /\ x.data \in DOMAIN t => t[x.data] # Dir
  /\ \A p \in DOMAIN t : IsStrictPrefix(p, x.path) => t[p].kind \notin {"file", "exec"}

Strange ==
  UNION {{<<Packed(Listed(t) @@ (<<"extra">> :> x), s, 1)>> :
            x \in {y \in Extras : Possible(t, y)}} : s \in {1, 2}, t \in Flat \ {<<>>}}
  \cup {<<Unreadable>>,
        <<Packed(Listed(Under("L", (<<Marker>> :> Dir) @@ (<<"a">> :> File))), 1, 1)>>}
  \cup {<<Packed(Listed([p \in {<<"a", n>> : n \in MCName \ {"B"}} |-> Dir]), 1, 1)>>}

Plain == {t \in Body : \A p \in DOMAIN t : t[p] \in {File, Dir}}
Patch == {(<<"a">> :> [File EXCEPT !.data = <<"y">>]), Under("a", <<"b">> :> File),
          Under("b", <<"a">> :> File), <<>>, Under("a", Under("a", <<"b">> :> File))}

Double == UNION {{<<Packed(Listed(t), 1, 0), Loose(s)>>, <<Loose(t), Loose(s)>>,
                  <<Packed(Listed(t), 1, 0), Packed(Listed(s), 1, 0)>>} : t \in Plain, s \in Patch}
  \cup {<<r[1], Packed(Listed(s), 1, 0)>> :
          r \in {<<Unreadable>>, <<Packed(<<"a">> :> Extra(<<"/", "a">>, "file", <<"x">>, 4), 1, 0)>>},
          s \in Patch}

(* Two sources that name the same paths. *)
Nest  == Under("a", <<"b">> :> File)
Alike == {<<Loose(s), Loose(t)>> : s \in {Nest, <<"a">> :> File},
                                   t \in {Nest, <<"a">> :> Dir, <<"a">> :> File}}

(* Archives that get through although something of them is lost. *)
HardTo(n, p) == Extra(p, "hard", <<n>>, 0)
Overlooked ==
  {<<Packed(Listed((<<"a">> :> File) @@ Under("b", <<>>))
              @@ (<<"extra">> :> HardTo("a", <<"b", "L">>)), 1, 0)>>,
   <<Packed(Listed(<<"a">> :> File) @@ (<<"extra">> :> HardTo("a", <<"q">>)), 1, 0)>>}
  \cup {<<Packed(Listed(t), 1, 0)>> :
          t \in {Under("L", Stray) @@ Stray, Under("._L", Stray)}}

(* Names that are not UTF-8: of files, of directories that hold the same,  *)
(* of an empty directory, of a wrapper, and in the target of a link.       *)
Foreign ==
  LET bodies == {[p \in S |-> File] :
                   S \in SUBSET {<<"8">>, <<"?">>, <<"o">>, <<"a">>} \ {{}}}
        \cup {Under(n, <<"a">> :> File) @@ t :
                n \in {"8", "?", "o"}, t \in {<<>>, <<"a">> :> File}}
        \cup {Under("8", <<"a">> :> File) @@ Under("?", <<"a">> :> File),
              Under("8", <<>>) @@ (<<"a">> :> File),
              <<"a">> :> [kind |-> "link", data |-> <<"8">>]}
  IN {<<Packed(Listed(t), 1, n)>> : t \in bodies \cup {Under("L", b) : b \in bodies}
                                           \cup {Under("8", b) : b \in bodies}, n \in 0..2}

MCRecipe == Single \cup Strange \cup Double \cup Alike \cup Overlooked \cup Foreign
=============================================================================
