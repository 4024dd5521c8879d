----------------------------- MODULE ClusterRows -----------------------------
(***************************************************************************)
(* The components of semantic_clustering (app/modular_clustering.py):      *)
(* embed writes a shard of embeddings per group of samples, one here, and  *)
(* registers it as an artifact of the task; sae, where a config asks for   *)
(* it, trains a sparse autoencoder on all shards and registers that; group *)
(* reads the shards back and replaces the cluster nodes and the evidence   *)
(* made with them, one commit per scope: every artist or concept folder, or*)
(* all samples together.                                                   *)
(***************************************************************************)
EXTENDS StyleRows

-----------------------------------------------------------------------------
(* Faulty versions of definitions below, used by no specification.         *)

RolesOfLastScope(before, c, members) ==
  IF Settings[c].roles THEN {<<c, f>> : f \in members} ELSE before

(* The originals.                                                          *)

(* list_samples: for clusters of artists the core of each artist, by the   *)
(* evidence that is there; a concept folder has no core.                   *)
Samples ==
  LET Core(f) == f \in Settings[found.style[f]].core IN
    IF Settings[task.config].scope = "artist" THEN {f \in Scopes : Core(f)} ELSE Scopes

Listable ==
  /\ Resolvable
  /\ Settings[task.config].scope = "artist" => \A f \in Scopes : found.style[f] # None

(* _registered_shard: an artifact row vouches for the file it names.       *)
Intact(f) == found.shards[f] \in {None, disk.embed[f]}

BeginEmbed(w) ==
  LET last == ckpt[task.config]["embed"] IN
    /\ At(w, "embed", "begin")
    /\ Holds(w)
    /\ task.status = "working"
    /\ IF Listable /\ (last # None => last.units = Samples)
         THEN Enter(w, Samples, None) ELSE Raise(w)

(* load_embeddings_for_sample_ids: every shard is hashed before it is used.*)
Loadable(files) == \A f \in files : Intact(f)

(* Only a registered shard is taken; a file that merely lies there is not. *)
Embed(w) ==
  LET f == Current(w) IN
    /\ At(w, "embed", "work")
    /\ IF ~Intact(f) \/ (found.shards[f] = None /\ ~Unchanged(f))
         THEN Raise(w)
         ELSE /\ mem' = IF found.shards[f] # None
                          THEN [mem EXCEPT ![w].at = @ + 1, ![w].pc = "commit",
                                           ![w].seen[f] = found.shards[f]]
                          ELSE [mem EXCEPT ![w].pc = "write"]
              /\ UNCHANGED <<task, holder, ckpt, tree, disk, rows, found, hist>>

(* EmbeddingShardStore.write.                                              *)
WriteEmbed(w) ==
  LET f == Current(w) IN
    /\ At(w, "embed", "write")
    /\ disk' = [disk EXCEPT !.embed[f] = w]
    /\ hist' = IF ~Holds(w) /\ disk.embed[f] \notin {None, w}
                 THEN [hist EXCEPT !.causes = @ \cup {"clobbered"}] ELSE hist
    /\ mem' = [mem EXCEPT ![w].at = @ + 1, ![w].pc = "commit", ![w].seen[f] = w]
    /\ UNCHANGED <<task, holder, ckpt, tree, rows, found>>

(* register_embedding_shard.                                               *)
ShardsRegistered(w) == [found EXCEPT !.shards = Registered(@, mem[w].seen)]

CommitEmbed(w) ==
  /\ At(w, "embed", "commit")
  /\ Commit(w, rows, ShardsRegistered(w), NewCursor(w, FALSE, None))

(* ClusteringRepository.scopes: every folder for artists and for concepts, *)
(* or else "__all__", here 0, if there is any sample.                      *)
ClusterScopes ==
  IF Settings[task.config].scope \in {"artist", "concept"} \/ Samples = {}
    THEN Samples ELSE {0}

(* The samples a config clusters under a scope are those it embedded.      *)
Members(c, s) == IF s = 0 THEN ckpt[c]["embed"].units ELSE {s}

(* _embedding_artifacts: embed has completed for these very samples, and   *)
(* its shards are what was registered.                                     *)
Embedded(c) ==
  /\ ckpt[c]["embed"].complete
  /\ ckpt[c]["embed"].units = Samples
  /\ Loadable(Samples)

(* The autoencoder a worker is at: its key is made of the hashes of all    *)
(* shards, which never change once they are registered.                    *)
CodeKey(w) == ckpt[ConfigOf(w)]["embed"].units

BeginSae(w) ==
  LET c == task.config IN
    /\ At(w, "sae", "begin")
    /\ Holds(w)
    /\ task.status = "working"
    /\ IF Listable /\ Embedded(c)
         THEN Enter(w, IF Samples = {} THEN {} ELSE {0}, None) ELSE Raise(w)

(* A registered autoencoder is taken, if it is still what was registered;  *)
(* otherwise the shards are loaded and one is trained.                     *)
Train(w) ==
  LET key == CodeKey(w) IN
    /\ At(w, "sae", "work")
    /\ IF \/ found.codes[key] \notin {None, disk.sae[key]}
          \/ found.codes[key] = None /\ ~Loadable(key)
         THEN Raise(w)
         ELSE /\ mem' = IF found.codes[key] # None
                          THEN [mem EXCEPT ![w].at = @ + 1, ![w].pc = "commit",
                                           ![w].list = found.codes[key]]
                          ELSE [mem EXCEPT ![w].pc = "write"]
              /\ UNCHANGED <<task, holder, ckpt, tree, disk, rows, found, hist>>

(* SAEStore.write.                                                         *)
WriteSae(w) ==
  LET key == CodeKey(w) IN
    /\ At(w, "sae", "write")
    /\ disk' = [disk EXCEPT !.sae[key] = w]
    /\ hist' = IF ~Holds(w) /\ disk.sae[key] \notin {None, w}
                 THEN [hist EXCEPT !.causes = @ \cup {"clobbered"}] ELSE hist
    /\ mem' = [mem EXCEPT ![w].at = @ + 1, ![w].pc = "commit", ![w].list = w]
    /\ UNCHANGED <<task, holder, ckpt, tree, rows, found>>

(* register_sae, if there was anything to train on.                        *)
CodesRegistered(w) ==
  IF Pending(w) = {} THEN found
  ELSE [found EXCEPT !.codes[CodeKey(w)] = mem[w].list]

CommitSae(w) ==
  /\ At(w, "sae", "commit")
  /\ Commit(w, rows, CodesRegistered(w), NewCursor(w, FALSE, None))

(* _sae_cache_key: a config with an autoencoder waits for it.              *)
SaeDone(c) == "sae" \in Settings[c].parts => ckpt[c]["sae"].complete

BeginGroup(w) ==
  LET c == task.config IN
    /\ At(w, "group", "begin")
    /\ Holds(w)
    /\ task.status = "working"
    /\ IF Listable /\ Embedded(c) /\ SaeDone(c)
         THEN Enter(w, ClusterScopes, None) ELSE Raise(w)

(* The shards are loaded again for every scope.                            *)
Group(w) ==
  /\ At(w, "group", "work")
  /\ IF Loadable(Members(ConfigOf(w), Current(w)))
       THEN /\ mem' = [mem EXCEPT ![w].at = @ + 1, ![w].pc = "commit"]
            /\ UNCHANGED <<task, holder, ckpt, tree, disk, rows, found, hist>>
       ELSE Raise(w)

(* The rows before a scope: the nodes, the duplicate evidence and the role *)
(* evidence of the task are deleted before the first one, or without one.  *)
NodesCleared(anew) ==
  IF anew THEN [found EXCEPT !.nodes = NothingFound.nodes, !.twins = {}, !.roles = {}]
  ELSE found

(* _persist_semantic_duplicates, for the leaves of a scope.                *)
TwinsFound(before, c, scopes) == before \cup {<<c, s>> : s \in scopes}

(* _persist_character_consistency, for the members of a scope: it deletes  *)
(* their role evidence first, whichever config left it.                    *)
RolesFound(before, c, members) ==
  IF Settings[c].roles
    THEN {e \in before : e[2] \notin members} \cup {<<c, f>> : f \in members}
    ELSE before

(* persist_cluster_scope.                                                  *)
ScopePersisted(before, c, scopes) ==
  [before EXCEPT !.nodes = [s \in 0..NFiles |-> IF s \in scopes THEN c ELSE @[s]],
                 !.twins = TwinsFound(@, c, scopes),
                 !.roles = RolesFound(@, c, UNION {Members(c, s) : s \in scopes})]

(* A node of the scope that is there already violates the unique key.      *)
CommitGroup(w) ==
  LET before == NodesCleared(~Prepared(w)) IN
    /\ At(w, "group", "commit")
    /\ IF Holds(w) /\ \E s \in Pending(w) : before.nodes[s] # None
         THEN Raise(w)
         ELSE Commit(w, rows, ScopePersisted(before, ConfigOf(w), Pending(w)),
                     NewCursor(w, TRUE, None))

(* Control is looked at while something is computed, and only then.        *)
Computing(w) ==
  \/ At(w, "embed", "work") /\ found.shards[Current(w)] = None
  \/ At(w, "sae", "work") /\ found.codes[CodeKey(w)] = None
  \/ At(w, "group", "work")

Clustering(w) ==
  \/ BeginEmbed(w) \/ Embed(w) \/ WriteEmbed(w) \/ CommitEmbed(w)
  \/ BeginSae(w) \/ Train(w) \/ WriteSae(w) \/ CommitSae(w)
  \/ BeginGroup(w) \/ Group(w) \/ CommitGroup(w)
  \/ Computing(w) /\ ControlCommit(w)
=============================================================================
