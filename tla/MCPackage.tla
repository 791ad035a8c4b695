----------------------------- MODULE MCPackage -----------------------------
(***************************************************************************)
(* Instance of Package: one zome, and edits that add a second JSON file, a *)
(* plain file beside a configuration and beside none, and a broken build.  *)
(***************************************************************************)
EXTENDS Package

MCSorted ==
    <<".gitignore", ".hcbuild", ".hcignore", "Cargo.toml", "README.md", "app.json", "chat",
      "code", "code.wasm", "dist", "dna.json", "docs", "index.js", "lib.rs", "more.json",
      "name", "notes", "other", "package.json", "src", "test", "zome.json", "zomes">>

MCOrders == {MCSorted, Reverse(MCSorted)}

MCEdits ==
    { <<<<"notes">>, File(Text("notes"))>>,
      <<<<"name">>, File(Text("a file named as a key"))>>,
      <<<<"more.json">>, File(Json("more" :> Str(Text("more"))))>>,
      <<<<"docs">>, Dir>>,
      <<<<"docs", "notes">>, File(Text("notes"))>>,
      <<<<"docs", "more.json">>, File(Text("[]"))>>,
      <<<<"docs", "src">>, Dir>>,
      <<<<"zomes", "chat", "notes">>, File(Text("notes"))>>,
      <<<<"zomes", "chat", "code", ".hcbuild">>, File(BuildFile("broken"))>>,
      <<<<"zomes", "chat", "other">>, Dir>>,
      <<<<"zomes", "chat", "other", ".hcbuild">>, File(BuildFile("aside"))>>,
      <<<<"zomes", "notes">>, File(Text("notes"))>> }

=============================================================================
