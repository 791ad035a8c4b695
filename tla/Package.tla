------------------------------- MODULE Package ------------------------------
(***************************************************************************)
(* The commands of hc that make, package and unpack a project              *)
(* (cli/src/cli/init.rs, generate.rs, package.rs): a directory tree is     *)
(* folded into one JSON object, the DNA, with a section "__META__" in each *)
(* object that says how to get the tree back.                              *)
(*                                                                         *)
(* A tree maps paths (sequences of names) to nodes.  A JSON object is a    *)
(* function of its keys; a text is what it encodes.  In which order a      *)
(* directory is listed is up to the file system.                           *)
(***************************************************************************)
EXTENDS Integers, Sequences, SequencesExt

CONSTANTS
    Sorted,    \* the names of files and directories in their byte order
    Orders,    \* the orders a file system may list them in
    Edits,     \* what a developer may put into the project: <<path, node>>
    Zomes,     \* names of zomes to generate
    MaxSteps   \* bound on the commands and edits of a run

VARIABLES
    project,   \* the tree of the project
    cargo,     \* is cargo installed?
    packed,    \* the bundle last written, and what it was made from
    dest,      \* the tree that bundles are unpacked into
    last,      \* the last command and how it went
    steps

vars == <<project, cargo, packed, dest, last, steps>>

-----------------------------------------------------------------------------
(* Nodes, contents of files, and JSON.                                      *)

Dir == [k |-> "dir"]
File(content) == [k |-> "file", has |-> content]

Text(t) == [text |-> t]         \* also any JSON that is no object
Json(obj) == [json |-> obj]     \* a JSON object
Ignore(names) == [ignore |-> names]
BuildFile(wasm) == [build |-> wasm]
Wasm(name) == [wasm |-> name]

Empty == <<>>
Str(text) == [str |-> text]
Obj(obj) == [obj |-> obj]
Base64(content) == [base64 |-> content]

IsStr(v) == "str" \in DOMAIN v
IsObj(v) == "obj" \in DOMAIN v

Insert(obj, key, v) == (key :> v) @@ obj
Without(obj, keys) == [key \in DOMAIN obj \ keys |-> obj[key]]

(* base64::decode.  A JSON string printed as JSON keeps its quotes, which   *)
(* are no base64; the four letters of null are.                             *)
Decodes(text) == "base64" \in DOMAIN text \/ text = Text("null")
Decode(text) == IF "base64" \in DOMAIN text THEN text.base64 ELSE Text("garbage")

(* Value::to_string, for a key that may be missing (Null). *)
Printed(obj, key) ==
    IF key \in DOMAIN obj THEN [quoted |-> obj[key]] ELSE Text("null")

JsonNames == {"app.json", "zome.json", "more.json", "package.json", "dna.json"}
Hidden == {".hcbuild", ".hcignore", ".gitignore"}
WasmName(n) == IF n = "code" THEN "code.wasm" ELSE "other.wasm"

-----------------------------------------------------------------------------
(* hc init and hc generate.                                                 *)

Fresh == (<<>> :> Dir)

Put(tree, at, sub) == [p \in {at \o q : q \in DOMAIN sub} |-> sub[SubSeq(p, Len(at) + 1, Len(p))]] @@ tree

AppConfig == ("name" :> Str(Text("name"))) @@ ("description" :> Str(Text("A Holochain app")))

InitialProject ==
    Fresh
      @@ (<<"zomes">> :> Dir)
      @@ (<<"app.json">> :> File(Json(AppConfig)))
      @@ (<<".gitignore">> :> File(Ignore({"dist"})))
      @@ (<<".hcignore">> :> File(Ignore({"dist", "test", "README.md"})))
      @@ (<<"test">> :> Dir)
      @@ (<<"test", "index.js">> :> File(Text("test")))
      @@ (<<"test", "package.json">> :> File(Json("scripts" :> Str(Text("test")))))

(* util::check_for_cargo: a command that needs it ends without an error. *)
check_for_cargo == cargo

Said(cmd, ok) ==
    /\ last' = [cmd |-> cmd, ok |-> ok, fresh |-> dest = Fresh]
    /\ steps' = steps + 1

init ==
    /\ steps < MaxSteps
    /\ project' = IF project = Fresh THEN InitialProject ELSE project
    /\ Said("init", project = Fresh)
    /\ UNCHANGED <<cargo, packed, dest>>

ZomeConfig(z) == "description" :> Str(Text(z))

RustCode(z) ==
    (<<>> :> Dir)
      @@ (<<"Cargo.toml">> :> File(Text(z)))
      @@ (<<"src">> :> Dir)
      @@ (<<"src", "lib.rs">> :> File(Text("lib")))
      @@ (<<".hcbuild">> :> File(BuildFile(z)))

(* generate: the zome's directory, its configuration and the code directory *)
(* are there before the language is looked at and cargo is run.             *)
generate(z, language) ==
    LET at == <<"zomes", z>>
        made == Put(project, <<"zomes">>,
                    (<<>> :> Dir) @@ (<<z>> :> Dir)
                      @@ (<<z, "zome.json">> :> File(Json(ZomeConfig(z))))
                      @@ (<<z, "code">> :> Dir))
        isCrate == Append(at, "code") \o <<"Cargo.toml">> \in DOMAIN project
        scaffolds == language = "rust" /\ check_for_cargo /\ ~isCrate
    IN  /\ steps < MaxSteps
        /\ project' = IF scaffolds THEN Put(made, Append(at, "code"), RustCode(z)) ELSE made
        /\ Said("generate", language = "rust" /\ (check_for_cargo => ~isCrate))
        /\ UNCHANGED <<cargo, packed, dest>>

(* The developer edits the project. *)
Edit(path, node) ==
    /\ steps < MaxSteps
    /\ path \notin DOMAIN project
    /\ Front(path) \in DOMAIN project /\ project[Front(path)] = Dir
    /\ project' = (path :> node) @@ project
    /\ Said("edit", TRUE)
    /\ UNCHANGED <<cargo, packed, dest>>

-----------------------------------------------------------------------------
(* hc package.                                                              *)

(* ignore::WalkBuilder: hidden files are left out, and what an ignore file  *)
(* of the directory or of one above it names.                               *)
Shown(tree, path, n) ==
    /\ n \notin Hidden
    /\ \A i \in 0 .. Len(path), f \in {".hcignore", ".gitignore"} :
          LET ignore == Append(SubSeq(path, 1, i), f)
          IN  ignore \in DOMAIN tree => n \notin tree[ignore].has.ignore

Has(tree, path, n) == Append(path, n) \in DOMAIN tree

IsFile(tree, path, n) == Has(tree, path, n) /\ tree[Append(path, n)] # Dir
IsDir(tree, path, n) == Has(tree, path, n) /\ tree[Append(path, n)] = Dir

(* The JSON files of a directory; the first is its configuration. *)
JsonFiles(tree, path, names) ==
    SelectSeq(names, LAMBDA n : n \in JsonNames /\ IsFile(tree, path, n))

(* serde_json::from_str(..).unwrap_or_default() *)
Parsed(content) == IF "json" \in DOMAIN content THEN content.json ELSE Empty

(* Build::run: the base64 of the artifact, unless a build step fails. *)
BuildOf(tree, path) == tree[Append(path, ".hcbuild")].has.build
Builds(wasm) == wasm # "broken"

(* __hdk_get_json_definition of the built code *)
json_from_wasm(wasm) == "entry_types" :> Str(Text(wasm))

WithDefinition(obj, wasm) == json_from_wasm(wasm) @@ obj

Stop(acc) == [acc EXCEPT !.ok = FALSE]

RECURSIVE bundle_recurse(_, _, _, _)
bundle_recurse(tree, path, strip, order) ==
    LET names == SelectSeq(order, LAMBDA n : Has(tree, path, n) /\ Shown(tree, path, n))
        jsons == JsonFiles(tree, path, names)
        config == IF jsons = <<>> THEN Empty
                  ELSE Parsed(tree[Append(path, jsons[1])].has)
        nodes == IF jsons = <<>> THEN names
                 ELSE SelectSeq(names, LAMBDA n : n # jsons[1])
        Add(acc, n) ==
            LET node == Append(path, n)
                codes == SelectSeq(order, LAMBDA d : IsDir(tree, node, d)
                                                       /\ Has(tree, Append(node, d), ".hcbuild"))
                sub == bundle_recurse(tree, node, strip, order)
                With(id, v) == [acc EXCEPT !.main = Insert(@, n, v),
                                           !.meta = Insert(@, n, Str(Text(id)))]
            IN  IF ~acc.ok THEN acc
                ELSE IF tree[node] # Dir
                THEN IF acc.main = Empty THEN acc
                     ELSE With("file", Str(Base64(tree[node].has)))
                ELSE IF codes # <<>>
                THEN LET wasm == BuildOf(tree, Append(node, codes[1]))
                     IN  IF ~Builds(wasm) \/ ~sub.ok THEN Stop(acc)
                         ELSE With("dir", Obj(WithDefinition(sub.obj, wasm)))
                ELSE IF Has(tree, node, ".hcbuild")
                THEN IF ~Builds(BuildOf(tree, node)) THEN Stop(acc)
                     ELSE With("bin", Obj("code" :> Str(Base64(Wasm(BuildOf(tree, node))))))
                ELSE IF ~sub.ok THEN Stop(acc)
                ELSE With("dir", Obj(sub.obj))
        all == FoldLeft(Add, [ok |-> TRUE, main |-> config, meta |-> Empty], nodes)
        section == (IF all.meta = Empty THEN Empty ELSE "tree" :> Obj(all.meta))
                     @@ (IF jsons = <<>> THEN Empty ELSE "config_file" :> Str(Text(jsons[1])))
    IN  [ok |-> all.ok,
         obj |-> IF strip \/ section = Empty THEN all.main
                 ELSE Insert(all.main, "__META__", Obj(section))]

(* Dna::try_from: the zomes are objects, and the code of a zome, if it has  *)
(* any, is an object with base64 text in it.                                *)
IsDna(obj) ==
    "zomes" \in DOMAIN obj =>
       /\ IsObj(obj["zomes"])
       /\ \A z \in DOMAIN obj["zomes"].obj :
             LET zome == obj["zomes"].obj[z]
             IN  /\ IsObj(zome)
                 /\ "code" \in DOMAIN zome.obj =>
                       /\ IsObj(zome.obj["code"])
                       /\ "code" \in DOMAIN zome.obj["code"].obj
                       /\ IsStr(zome.obj["code"].obj["code"])
                       /\ Decodes(zome.obj["code"].obj["code"].str)

NoBundle == [written |-> FALSE, obj |-> Empty, from |-> Fresh, strip |-> FALSE]

(* Packager::package, Packager::run, with the default output: a file of the *)
(* directory dist, which is made first.                                     *)
package(strip, order) ==
    LET tree == (<<"dist">> :> Dir) @@ project
        bundle == bundle_recurse(tree, <<>>, strip, order)
        writes == check_for_cargo /\ bundle.ok /\ IsDna(bundle.obj)
    IN  /\ steps < MaxSteps
        /\ project' = IF writes
                      THEN (<<"dist", "dna.json">> :> File(Json(bundle.obj))) @@ tree
                      ELSE tree
        /\ packed' = IF writes
                     THEN [written |-> TRUE, obj |-> bundle.obj, from |-> tree, strip |-> strip]
                     ELSE packed
        /\ Said("package", check_for_cargo => writes)
        /\ UNCHANGED <<cargo, dest>>

-----------------------------------------------------------------------------
(* hc unpack.                                                               *)

(* Faulty: the configuration is what the bundle holds, files and all. *)
ConfigLeftWhole(obj, tree) == Without(obj, {"__META__"})

(* What is left for the configuration when the entries of the tree section  *)
(* are taken out.                                                           *)
ConfigLeft(obj, tree) == Without(obj, {"__META__"} \cup DOMAIN tree)

RECURSIVE unpack_recurse(_, _, _)
unpack_recurse(obj, to, made) ==
    LET meta == IF "__META__" \in DOMAIN obj /\ IsObj(obj["__META__"])
                THEN obj["__META__"].obj ELSE Empty
        tree == IF "tree" \in DOMAIN meta /\ IsObj(meta["tree"])
                THEN meta["tree"].obj ELSE Empty
        Add(acc, n) ==
            LET id == tree[n].str.text
                entry == obj[n]
                at == Append(to, n)
                bin == Printed(entry.obj, n)
            IN  IF ~acc.ok THEN acc
                ELSE IF id = "file" /\ IsStr(entry) /\ Decodes(entry.str)
                THEN [acc EXCEPT !.made = (at :> File(Decode(entry.str))) @@ @]
                ELSE IF id = "bin" /\ IsObj(entry) /\ Decodes(bin)
                THEN [acc EXCEPT !.made =
                         (Append(to, WasmName(n)) :> File(Decode(bin))) @@ @]
                ELSE IF id = "dir" /\ IsObj(entry) /\ at \notin DOMAIN acc.made
                THEN unpack_recurse(entry.obj, at, (at :> Dir) @@ acc.made)
                ELSE Stop(acc)
        all == FoldLeft(Add, [ok |-> TRUE, made |-> made],
                        SelectSeq(Sorted, LAMBDA n : n \in DOMAIN tree))
        config == ConfigLeft(obj, tree)
    IN  IF all.ok /\ "config_file" \in DOMAIN meta /\ config # Empty
        THEN [all EXCEPT !.made =
                 (Append(to, meta["config_file"].str.text) :> File(Json(config))) @@ @]
        ELSE all

unpack ==
    /\ steps < MaxSteps
    /\ packed.written
    /\ LET un == unpack_recurse(packed.obj, <<>>, dest)
       IN  dest' = un.made /\ Said("unpack", un.ok)
    /\ UNCHANGED <<project, cargo, packed>>

-----------------------------------------------------------------------------
Init ==
    /\ project = Fresh
    /\ cargo \in BOOLEAN
    /\ packed = NoBundle
    /\ dest = Fresh
    /\ last = [cmd |-> "none", ok |-> TRUE, fresh |-> TRUE]
    /\ steps = 0

Next ==
    \/ init
    \/ \E z \in Zomes, language \in {"rust", "other"} : generate(z, language)
    \/ \E e \in Edits : Edit(e[1], e[2])
    \/ \E strip \in BOOLEAN, order \in Orders : package(strip, order)
    \/ unpack

Spec == Init /\ [][Next]_vars

-----------------------------------------------------------------------------
(* The part of a tree that is packaged. *)
ShownTree(tree) ==
    [p \in {p \in DOMAIN tree : \A i \in 1 .. Len(p) : Shown(tree, SubSeq(p, 1, i - 1), p[i])}
       |-> tree[p]]

Dirs(tree) == {p \in DOMAIN tree : tree[p] = Dir}
NamesIn(tree, path) == {n \in ToSet(Sorted) : Has(tree, path, n)}
FilesIn(tree, path) == {n \in NamesIn(tree, path) : IsFile(tree, path, n)}
JsonsIn(tree, path) == FilesIn(tree, path) \cap JsonNames

(* A directory that a bundle can hold: it has no code and at most one JSON  *)
(* file; that one is an object with keys of its own, or, if there is none,  *)
(* there are no files at all.                                               *)
Plain(tree, path) ==
    /\ ~Has(tree, path, ".hcbuild")
    /\ LET shown == ShownTree(tree)
           jsons == JsonsIn(shown, path)
       IN  IF jsons = {} THEN FilesIn(shown, path) = {}
           ELSE \E j \in jsons :
                   LET config == Parsed(shown[Append(path, j)].has)
                   IN  /\ jsons = {j} /\ config # Empty
                       /\ DOMAIN config \cap (NamesIn(shown, path) \cup {"__META__"}) = {}

AllPlain(tree) == \A p \in Dirs(ShownTree(tree)) : Plain(tree, p)

(* What is packaged and unpacked into an empty directory comes back as it   *)
(* was, for a project all of whose directories are plain ones.              *)
UnpackRestores ==
    last.cmd = "unpack" /\ last.fresh /\ ~packed.strip /\ AllPlain(packed.from) =>
       last.ok /\ dest = ShownTree(packed.from)

(* The directories in one that are built. *)
Built(tree, path) ==
    {n \in NamesIn(tree, path) : IsDir(tree, path, n) /\ Has(tree, Append(path, n), ".hcbuild")}

(* A directory whose part of the bundle is settled whatever the listing. *)
Settled(tree, path) ==
    LET shown == ShownTree(tree)
        jsons == JsonsIn(shown, path)
    IN  /\ Cardinality(jsons) = IF FilesIn(shown, path) = {} THEN 0 ELSE 1
        /\ \A j \in jsons : Parsed(shown[Append(path, j)].has) # Empty
        /\ Cardinality(Built(tree, path)) <= 1

(* The bundle, and with it the DNA's address, does not depend on the order  *)
(* in which the file system lists the directories, if each has one JSON     *)
(* file or no files, and builds one code at most.                           *)
SameInAnyOrder ==
    (last.cmd # "package" /\ \A p \in Dirs(ShownTree(project)) : Settled(project, p)) =>
       \A o1 \in Orders, o2 \in Orders :
          LET b1 == bundle_recurse(project, <<>>, FALSE, o1)
              b2 == bundle_recurse(project, <<>>, FALSE, o2)
          IN  b1.ok = b2.ok /\ (b1.ok => b1.obj = b2.obj)

(* Every zome directory with a directory code in it is a zome of the DNA    *)
(* that carries the built code and, if no other code is built beside it,    *)
(* the definition which that code gives of itself; a half-generated zome is *)
(* never packaged.                                                          *)
ZomesCarryCode ==
    packed.written =>
       \A z \in NamesIn(ShownTree(packed.from), <<"zomes">>) :
          LET at == <<"zomes", z>>
              code == Append(at, "code")
          IN  code \in Dirs(ShownTree(packed.from)) =>
                LET zome == packed.obj["zomes"].obj[z].obj
                    wasm == BuildOf(packed.from, code)
                IN  /\ Has(packed.from, code, ".hcbuild")
                    /\ zome["code"] = Obj("code" :> Str(Base64(Wasm(wasm))))
                    /\ Built(packed.from, at) = {"code"} => zome["entry_types"] = Str(Text(wasm))

(* A bundle that was packaged with its meta sections can be unpacked into   *)
(* an empty directory.                                                      *)
BundlesUnpack ==
    last.cmd = "unpack" /\ last.fresh /\ ~packed.strip => last.ok

=============================================================================
