------------------------------ MODULE MCStack -------------------------------
(***************************************************************************)
(* Three groups of scenarios over one small tree (directory 1 with files   *)
(* 11 and 12, file 2, link 3 to directory 1).  In the first one process    *)
(* stacks a layer of up to three entries on it, in the second it runs up   *)
(* to two hook operations, in the third two processes commit to one target *)
(* in every pair of formats and options.                                   *)
(***************************************************************************)
EXTENDS Stack

CONSTANTS p1, p2

d == <<1>>
rx == Perm({"r", "x"}, {"r", "x"}, {"r", "x"})
shared == Perm({"r", "w", "x"}, {"r", "w", "x"}, {"r", "x"})
MCHides == 0 :> 2   \* <<0>> is .wh. of <<2>>
At(e, l) == [e EXCEPT !.to = l]

bottom == << Entry("dir", d, "", DirMode), Entry("file", <<1, 1>>, "a", Base),
             Entry("file", <<1, 2>>, "b", rx), Entry("file", <<2>>, "c", Base),
             At(Entry("link", <<3>>, "", Base), d) >>

entries == <<
  Entry("file", <<1, 1>>, "new", rx),
  Entry("file", <<1, 4, 1>>, "deep", Base),
  Entry("remove", <<1, 1>>, "", Base),
  Entry("opaque", d, "", Base),
  [Entry("opaque", d, "", Base) EXCEPT !.dotted = TRUE],
  Entry("dir", <<1, 4>>, "", shared),
  At(Entry("link", <<2>>, "", Base), d),
  Entry("dir", <<2>>, "", rx),
  Entry("file", <<3, 1>>, "through", Base),
  Entry("remove", d, "", Base),
  Entry("other", <<1, 5>>, "", Base),
  Entry("hard", <<1, 6>>, "", Base),
  Entry("unsafe", <<9>>, "", Base) >>

three == {2, 4, 6}   \* the first of three entries: below, in and of directory 1
triples == {t \in (1..Len(entries)) \X (1..Len(entries)) \X (1..Len(entries)) :
              t[1] \in three \/ t[3] = 1}
lowest == <<0>>
top == <<1>>
osLayer == <<2>>
imgLayer == <<3>>
MCLayerOf == (lowest :> bottom) @@ (top :> << Entry("file", <<2>>, "top", Base), Entry("file", <<6>>, "top", Base) >>)
  @@ (osLayer :> << Entry("dir", <<1>>, "", rx), At(Entry("link", <<4>>, "", Base), <<1>>),
                 At(Entry("link", <<6>>, "", Base), <<8>>), Entry("file", <<2>>, "os", Base) >>)
  @@ (imgLayer :> << Entry("dir", <<2>>, "", rx) >>)
  @@ [t \in triples |-> [i \in 1..3 |-> entries[t[i]]]]

Manifest(layers, hook) == [layers |-> layers, hook |-> hook]
Request(m, f) == [manifests |-> m, hooks |-> TRUE, format |-> f, mask |-> NoMode, bad |-> FALSE,
                  force |-> FALSE, base |-> <<>>, finalize |-> FALSE]
Idle == Request(<<>>, "dir")
Alone(r) == (p1 :> r @@ p2 :> Idle)

Layering == {Alone([Request(<< Manifest(<<lowest, t>>, <<>>) >>, "dir") EXCEPT !.mask = rx]) :
               t \in triples}

files == {<<1, 1>>, <<1, 2>>}
x == << [w \in {"u"} |-> [op |-> "+", bits |-> {"x"}]] >>
hookOps == {
  [op |-> "chmod", glob |-> {<<1>>, <<1, 1>>, <<3>>}, mode |-> x],
  [op |-> "mkdir", path |-> <<4, 1>>, parents |-> TRUE, mode |-> NoMode],
  [op |-> "mkdir", path |-> <<4>>, parents |-> FALSE, mode |-> Octal(shared)],
  [op |-> "symlink", path |-> <<2>>, to |-> <<1>>, replace |-> TRUE],
  [op |-> "write", path |-> <<1, 1>>, data |-> "w", mode |-> NoMode, replace |-> TRUE],
  [op |-> "write", path |-> <<2>>, data |-> "w", mode |-> x, replace |-> FALSE],
  [op |-> "write", path |-> <<0>>, data |-> "w", mode |-> NoMode, replace |-> FALSE],
  [op |-> "template", from |-> <<2>>, path |-> <<4>>, data |-> "t", mode |-> NoMode],
  [op |-> "copy", glob |-> files, to |-> <<4>>],
  [op |-> "copy", glob |-> {<<1, 1>>}, to |-> d],
  [op |-> "move", glob |-> files, to |-> <<4>>],
  [op |-> "move", glob |-> files, to |-> <<>>],
  [op |-> "move", glob |-> {<<2>>}, to |-> <<3>>],
  [op |-> "delete", glob |-> {<<1>>, <<1, 1>>}],
  [op |-> "delete", glob |-> {<<1, 2>>, <<2>>}],
  [op |-> "index", from |-> <<1>>, path |-> <<1, 3>>],
  [op |-> "patch", path |-> <<2>>, from |-> "c", data |-> "p"]}

Hooking == {Alone(Request(<< Manifest(<<lowest>>, h) >>, "tar")) :
              h \in {<<o>> : o \in hookOps} \cup (hookOps \X hookOps)}

write == << [op |-> "write", path |-> <<4, 1>>, data |-> "w", mode |-> NoMode, replace |-> FALSE] >>
lib == Manifest(<<lowest>>, <<>>)
app == Manifest(<<top, lowest>>, write)
os == Manifest(<<osLayer>>, write)
plain == {Request(<<lib, app>>, f) : f \in {"dir", "tar", "qcow2"}}
    \cup {[Request(<<lib, app>>, f) EXCEPT !.force = TRUE] : f \in {"dir", "tar"}}
    \cup {[Request(<<app>>, "dir") EXCEPT !.mask = rx, !.force = f] : f \in BOOLEAN}
kinds == {[r EXCEPT !.base = IF r.format = "qcow2" THEN <<os>> ELSE <<>>] : r \in plain}
    \cup {[Request(<<lib, app>>, "dir") EXCEPT !.mask = rx, !.bad = TRUE],
          [Request(<<Manifest(<<imgLayer>>, <<>>)>>, "qcow2") EXCEPT !.base = <<os>>],
          [Request(<<app>>, "qcow2") EXCEPT !.base = <<os>>, !.finalize = TRUE]}
Committing == {(p1 :> r @@ p2 :> s) : r, s \in kinds}

old == {Nothing, TreeOut(EmptyTree), TreeOut(<<7>> :> File("old", Base) @@ EmptyTree),
        FileOut({}, {})}
Merging == {Alone([Request(<<app>>, "qcow2") EXCEPT !.base = <<os>>])}
MCScenario == {[req |-> r, out |-> Nothing] : r \in Layering \cup Hooking \cup Merging}
         \cup {[req |-> r, out |-> o] : r \in Committing, o \in old}
MCHooks == {[req |-> Alone(Request(<<lib, app>>, "dir")), out |-> Nothing]}
=============================================================================
