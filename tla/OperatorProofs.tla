--------------------------- MODULE OperatorProofs ---------------------------
(***************************************************************************)
(* Theorems about the operator's scripts, DevnetSetup and DevnetDrills,    *)
(* for any levels, any sets of scripts used together, any caps and any     *)
(* number of lost, late and unconfirmed transactions.                      *)
(***************************************************************************)
EXTENDS DevnetSetup, DevnetDrills, SequenceTheorems, TLAPS

-----------------------------------------------------------------------------
(* Set-up and migration: what the scripts have in common *)

Layouts == {"none", "v0", "v1"}

Vault == [layout : Layouts, limited : BOOLEAN, cap : {"setup", "raised"}]

Chain ==
    [allocator : {"none", "v0", "v1", "v1 without room"}, treasury : Layouts,
     treasuryMint : {"test", "circle"}, vault : [Levels -> Vault],
     position : [Levels -> Layouts], atas : SUBSET Atas, strategy : BOOLEAN,
     funded : BOOLEAN, idleUsdc : BOOLEAN, orphans : Int]

(* Groups that only look, groups that send, and what they send.            *)
LookNames == {"prerequisites", "treasury_account", "repointed"}

SendNames ==
    {"allocator", "treasury", "vault", "idle_ata", "asset_ata", "share_ata", "treasury_ata",
     "fund", "strategy", "idle_usdc", "grow_allocator", "grow_treasury", "grow_vault",
     "grow_position", "repoint", "cap"}

Groups == (LookNames \cup SendNames) \X Levels

SetupTx == (SendNames \cup {"createMint"}) \X Levels

(* What a group is for is done, or the run did without it. *)
Done(g, r, c) ==
    CASE g[1] = "allocator"      -> c.allocator # "none"
      [] g[1] = "treasury"       -> c.treasury # "none" \/ r.fellBack
      [] g[1] = "vault"          -> c.vault[g[2]].layout # "none"
      [] g[1] \in Atas           -> g[1] \in c.atas
      [] g[1] = "fund"           -> c.funded
      [] g[1] = "strategy"       -> c.strategy
      [] g[1] = "idle_usdc"      -> c.idleUsdc
      [] g[1] = "grow_allocator" -> Readable(c)
      [] g[1] \in {"grow_treasury", "treasury_account"} -> c.treasury = "v1"
      [] g[1] = "grow_vault"     -> c.vault[g[2]].layout # "v0"
      [] g[1] = "grow_position"  -> c.position[g[2]] # "v0"
      [] g[1] = "repoint"        -> c.treasuryMint = "test"
      [] g[1] = "cap"            -> g[2] \in r.missing \/ c.vault[g[2]].cap = "raised"
      [] OTHER                   -> TRUE

(* d is a later deployment than c. *)
Advances(c, d) ==
    /\ c.allocator # "none" => d.allocator # "none"
    /\ Readable(c) => Readable(d)
    /\ c.treasury # "none" => d.treasury # "none"
    /\ c.treasury = "v1" => d.treasury = "v1"
    /\ c.treasuryMint = "test" => d.treasuryMint = "test"
    /\ \A l \in Levels :
          /\ c.vault[l].layout # "none" => d.vault[l].layout # "none"
          /\ c.vault[l].layout # "v0" => d.vault[l].layout # "v0"
          /\ c.vault[l].cap = "raised" => d.vault[l].cap = "raised"
          /\ c.position[l] # "v0" => d.position[l] # "v0"
    /\ c.atas \subseteq d.atas
    /\ (c.funded => d.funded) /\ (c.strategy => d.strategy) /\ (c.idleUsdc => d.idleUsdc)

(* One vault of v at another layout, or with another cap. *)
WithLayout(v, l, x) == [v EXCEPT ![l].layout = x]
WithCap(v, l, x) == [v EXCEPT ![l].cap = x]

(* The other vaults stay as they are, and so does the cap. *)
LEMMA LayoutFacts ==
    ASSUME NEW v \in [Levels -> Vault], NEW l \in Levels, NEW x \in Layouts
    PROVE  /\ WithLayout(v, l, x) \in [Levels -> Vault] /\ WithLayout(v, l, x)[l].layout = x
           /\ WithLayout(v, l, x)[l].cap = v[l].cap
           /\ \A m \in Levels \ {l} : WithLayout(v, l, x)[m] = v[m]
<1>1. v[l] \in Vault
  OBVIOUS
<1>2. PICK a \in Vault : a = [v[l] EXCEPT !.layout = x]
  BY <1>1 DEF Vault
<1>3. a.layout = x /\ a.cap = v[l].cap
  BY <1>1, <1>2 DEF Vault
<1>4. WithLayout(v, l, x) = [v EXCEPT ![l] = a]
  BY <1>2, Zenon DEF WithLayout
<1> QED BY <1>3, <1>4

(* The other vaults stay as they are, and so does the layout. *)
LEMMA CapFacts ==
    ASSUME NEW v \in [Levels -> Vault], NEW l \in Levels, NEW x \in {"setup", "raised"}
    PROVE  /\ WithCap(v, l, x) \in [Levels -> Vault] /\ WithCap(v, l, x)[l].cap = x
           /\ WithCap(v, l, x)[l].layout = v[l].layout
           /\ \A m \in Levels \ {l} : WithCap(v, l, x)[m] = v[m]
<1>1. v[l] \in Vault
  OBVIOUS
<1>2. PICK a \in Vault : a = [v[l] EXCEPT !.cap = x]
  BY <1>1 DEF Vault
<1>3. a.cap = x /\ a.layout = v[l].layout
  BY <1>1, <1>2 DEF Vault
<1>4. WithCap(v, l, x) = [v EXCEPT ![l] = a]
  BY <1>2, Zenon DEF WithCap
<1> QED BY <1>3, <1>4

(* What a transaction that the program accepts makes of the deployment.    *)
LEMMA EffectFacts ==
    ASSUME NEW t \in SetupTx, NEW c \in Chain, Accepts(t, c)
    PROVE  /\ Effect(t, c) \in Chain /\ Advances(c, Effect(t, c))
           /\ \A r : Done(t, r, Effect(t, c))
           /\ c.allocator \in {"none", "v1"} => Effect(t, c).allocator \in {"none", "v1"}
           /\ \A l \in Levels :
                 Effect(t, c).vault[l].layout # "none" =>
                     c.vault[l].layout # "none" \/ t = <<"vault", l>>
           /\ t[1] \notin {"createMint", "vault"} => Effect(t, c).orphans = c.orphans
           /\ t[1] = "createMint" => Effect(t, c).orphans <= c.orphans + 1
           /\ t[1] = "vault" => Effect(t, c).orphans = c.orphans - 1
<1> DEFINE e == Effect(t, c)
<1>0. t = <<t[1], t[2]>> /\ t[2] \in Levels /\ t[1] \in SendNames \cup {"createMint"}
  BY DEF SetupTx
<1>1. CASE t[1] = "allocator"
  <2>1. e = [c EXCEPT !.allocator = "v1"]
    BY <1>1 DEF Effect, Atas
  <2> HIDE DEF e
  <2>2. e \in Chain
    BY <1>1, <2>1 DEF Chain, Layouts
  <2>3. /\ e.allocator = "v1" /\ e.treasury = c.treasury /\ e.treasuryMint = c.treasuryMint
        /\ e.vault = c.vault /\ e.position = c.position /\ e.atas = c.atas
        /\ e.funded = c.funded /\ e.strategy = c.strategy /\ e.idleUsdc = c.idleUsdc
        /\ e.orphans = c.orphans
    BY <2>1 DEF Chain
  <2>4. Advances(c, e)
    BY <2>3 DEF Advances, Readable, Chain, Layouts
  <2>5. \A r : Done(t, r, e)
    BY <1>1, <2>3 DEF Done, Atas, Readable, Chain, Layouts
  <2> QED BY <1>0, <1>1, <2>2, <2>3, <2>4, <2>5 DEF Chain, e
<1>2. CASE t[1] = "treasury"
  <2>1. e = [c EXCEPT !.treasury = "v1", !.treasuryMint = "test"]
    BY <1>2 DEF Effect, Atas
  <2> HIDE DEF e
  <2>2. e \in Chain
    <3>1. PICK d \in Chain : d = [c EXCEPT !.treasury = "v1"]
      BY <1>2 DEF Chain, Layouts
    <3>2. e = [d EXCEPT !.treasuryMint = "test"]
      BY <2>1, <3>1 DEF Chain
    <3> QED BY <3>1, <3>2 DEF Chain, Layouts
  <2>3. /\ e.allocator = c.allocator /\ e.treasury = "v1" /\ e.treasuryMint = "test"
        /\ e.vault = c.vault /\ e.position = c.position /\ e.atas = c.atas
        /\ e.funded = c.funded /\ e.strategy = c.strategy /\ e.idleUsdc = c.idleUsdc
        /\ e.orphans = c.orphans
    BY <2>1 DEF Chain
  <2>4. Advances(c, e)
    BY <2>3 DEF Advances, Readable, Chain, Layouts
  <2>5. \A r : Done(t, r, e)
    BY <1>2, <2>3 DEF Done, Atas, Readable, Chain, Layouts
  <2> QED BY <1>0, <1>2, <2>2, <2>3, <2>4, <2>5 DEF Chain, e
<1>3. CASE t[1] = "fund"
  <2>1. e = [c EXCEPT !.funded = TRUE]
    BY <1>3 DEF Effect, Atas
  <2> HIDE DEF e
  <2>2. e \in Chain
    BY <1>3, <2>1 DEF Chain, Layouts
  <2>3. /\ e.allocator = c.allocator /\ e.treasury = c.treasury /\ e.treasuryMint = c.treasuryMint
        /\ e.vault = c.vault /\ e.position = c.position /\ e.atas = c.atas
        /\ e.funded = TRUE /\ e.strategy = c.strategy /\ e.idleUsdc = c.idleUsdc
        /\ e.orphans = c.orphans
    BY <2>1 DEF Chain
  <2>4. Advances(c, e)
    BY <2>3 DEF Advances, Readable, Chain, Layouts
  <2>5. \A r : Done(t, r, e)
    BY <1>3, <2>3 DEF Done, Atas, Readable, Chain, Layouts
  <2> QED BY <1>0, <1>3, <2>2, <2>3, <2>4, <2>5 DEF Chain, e
<1>4. CASE t[1] = "strategy"
  <2>1. e = [c EXCEPT !.strategy = TRUE]
    BY <1>4 DEF Effect, Atas
  <2> HIDE DEF e
  <2>2. e \in Chain
    BY <1>4, <2>1 DEF Chain, Layouts
  <2>3. /\ e.allocator = c.allocator /\ e.treasury = c.treasury /\ e.treasuryMint = c.treasuryMint
        /\ e.vault = c.vault /\ e.position = c.position /\ e.atas = c.atas
        /\ e.funded = c.funded /\ e.strategy = TRUE /\ e.idleUsdc = c.idleUsdc
        /\ e.orphans = c.orphans
    BY <2>1 DEF Chain
  <2>4. Advances(c, e)
    BY <2>3 DEF Advances, Readable, Chain, Layouts
  <2>5. \A r : Done(t, r, e)
    BY <1>4, <2>3 DEF Done, Atas, Readable, Chain, Layouts
  <2> QED BY <1>0, <1>4, <2>2, <2>3, <2>4, <2>5 DEF Chain, e
<1>5. CASE t[1] = "idle_usdc"
  <2>1. e = [c EXCEPT !.idleUsdc = TRUE]
    BY <1>5 DEF Effect, Atas
  <2> HIDE DEF e
  <2>2. e \in Chain
    BY <1>5, <2>1 DEF Chain, Layouts
  <2>3. /\ e.allocator = c.allocator /\ e.treasury = c.treasury /\ e.treasuryMint = c.treasuryMint
        /\ e.vault = c.vault /\ e.position = c.position /\ e.atas = c.atas
        /\ e.funded = c.funded /\ e.strategy = c.strategy /\ e.idleUsdc = TRUE
        /\ e.orphans = c.orphans
    BY <2>1 DEF Chain
  <2>4. Advances(c, e)
    BY <2>3 DEF Advances, Readable, Chain, Layouts
  <2>5. \A r : Done(t, r, e)
    BY <1>5, <2>3 DEF Done, Atas, Readable, Chain, Layouts
  <2> QED BY <1>0, <1>5, <2>2, <2>3, <2>4, <2>5 DEF Chain, e
<1>6. CASE t[1] = "repoint"
  <2>1. e = [c EXCEPT !.treasuryMint = "test"]
    BY <1>6 DEF Effect, Atas
  <2> HIDE DEF e
  <2>2. e \in Chain
    BY <1>6, <2>1 DEF Chain, Layouts
  <2>3. /\ e.allocator = c.allocator /\ e.treasury = c.treasury /\ e.treasuryMint = "test"
        /\ e.vault = c.vault /\ e.position = c.position /\ e.atas = c.atas
        /\ e.funded = c.funded /\ e.strategy = c.strategy /\ e.idleUsdc = c.idleUsdc
        /\ e.orphans = c.orphans
    BY <2>1 DEF Chain
  <2>4. Advances(c, e)
    BY <2>3 DEF Advances, Readable, Chain, Layouts
  <2>5. \A r : Done(t, r, e)
    BY <1>6, <2>3 DEF Done, Atas, Readable, Chain, Layouts
  <2> QED BY <1>0, <1>6, <2>2, <2>3, <2>4, <2>5 DEF Chain, e
<1>7. CASE t[1] \in Atas
  <2>1. e = [c EXCEPT !.atas = c.atas \cup {t[1]}]
    BY <1>7 DEF Effect, Atas
  <2> HIDE DEF e
  <2>2. e \in Chain
    BY <1>7, <2>1 DEF Chain, Layouts, Atas
  <2>3. /\ e.allocator = c.allocator /\ e.treasury = c.treasury /\ e.treasuryMint = c.treasuryMint
        /\ e.vault = c.vault /\ e.position = c.position /\ e.atas = c.atas \cup {t[1]}
        /\ e.funded = c.funded /\ e.strategy = c.strategy /\ e.idleUsdc = c.idleUsdc
        /\ e.orphans = c.orphans
    BY <2>1 DEF Chain
  <2>4. Advances(c, e)
    BY <2>3 DEF Advances, Readable, Chain, Layouts, Atas
  <2>5. \A r : Done(t, r, e)
    BY <1>7, <2>3 DEF Done, Atas, Readable, Chain, Layouts, Atas
  <2> QED BY <1>0, <1>7, <2>2, <2>3, <2>4, <2>5 DEF Chain, e, Atas
<1>8. CASE t[1] = "createMint"
  <2> DEFINE w == CountedOrphans(c.orphans + 1)
  <2>0. w \in Int /\ w <= c.orphans + 1
    <3>1. c.orphans \in Int
      BY DEF Chain
    <3>2. MaxOrphans \in Nat
      BY SetupAssumption
    <3> QED BY <3>1, <3>2 DEF CountedOrphans
  <2>1. e = [c EXCEPT !.orphans = w]
    BY <1>8 DEF Effect, Atas
  <2> HIDE DEF e, w
  <2>2. e \in Chain
    BY <1>8, <2>1, <2>0, <1>0 DEF Chain, Layouts
  <2>3. /\ e.allocator = c.allocator /\ e.treasury = c.treasury /\ e.treasuryMint = c.treasuryMint
        /\ e.vault = c.vault /\ e.position = c.position /\ e.atas = c.atas
        /\ e.funded = c.funded /\ e.strategy = c.strategy /\ e.idleUsdc = c.idleUsdc
        /\ e.orphans = w
    BY <2>1, <2>0, <1>0 DEF Chain
  <2>4. Advances(c, e)
    BY <2>3, <2>0, <1>0 DEF Advances, Readable, Chain, Layouts
  <2>5. \A r : Done(t, r, e)
    BY <1>8, <2>3, <2>0, <1>0 DEF Done, Atas, Readable, Chain, Layouts
  <2> QED BY <1>0, <1>8, <2>2, <2>3, <2>4, <2>5, <2>0, <1>0 DEF Chain, e
<1>9. CASE t[1] = "vault"
  <2> DEFINE w == WithLayout(c.vault, t[2], "v1")
  <2>0. /\ w \in [Levels -> Vault] /\ w[t[2]].layout = "v1" /\ w[t[2]].cap = c.vault[t[2]].cap
        /\ \A m \in Levels \ {t[2]} : w[m] = c.vault[m]
    <3>1. c.vault \in [Levels -> Vault] /\ "v1" \in Layouts
      BY DEF Chain, Layouts
    <3> QED BY <1>0, <3>1, LayoutFacts
  <2>1. e = [c EXCEPT !.vault = w, !.orphans = c.orphans - 1]
    BY <1>9 DEF Effect, Atas, WithLayout
  <2> HIDE DEF e, w
  <2>2. e \in Chain
    <3>1. PICK d \in Chain : d = [c EXCEPT !.vault = w]
      BY <1>9, <2>0, <1>0 DEF Chain, Layouts
    <3>2. e = [d EXCEPT !.orphans = c.orphans - 1]
      BY <2>1, <3>1 DEF Chain
    <3>3. c.orphans \in Int
      BY DEF Chain
    <3>4. c.orphans - 1 \in Int
      BY <3>3
    <3> QED BY <3>1, <3>2, <3>4, <2>0, <1>0 DEF Chain, Layouts
  <2>3. /\ e.allocator = c.allocator /\ e.treasury = c.treasury /\ e.treasuryMint = c.treasuryMint
        /\ e.vault = w /\ e.position = c.position /\ e.atas = c.atas
        /\ e.funded = c.funded /\ e.strategy = c.strategy /\ e.idleUsdc = c.idleUsdc
        /\ e.orphans = c.orphans - 1
    BY <2>1, <2>0, <1>0 DEF Chain
  <2>6. \A l \in Levels :
           /\ w[l].cap = c.vault[l].cap
           /\ w[l].layout = c.vault[l].layout \/ (l = t[2] /\ w[l].layout = "v1")
    BY <2>0
  <2>4. Advances(c, e)
    BY <2>3, <2>6 DEF Advances, Readable
  <2>5. \A r : Done(t, r, e)
    BY <1>9, <2>0, <2>3 DEF Done, Atas
  <2> QED BY <1>0, <1>9, <2>2, <2>3, <2>4, <2>5, <2>6 DEF e
<1>10. CASE t[1] = "grow_vault"
  <2> DEFINE w == WithLayout(c.vault, t[2], Grown(c.vault[t[2]].layout))
  <2>0. /\ w \in [Levels -> Vault] /\ w[t[2]].layout = Grown(c.vault[t[2]].layout)
        /\ w[t[2]].cap = c.vault[t[2]].cap
        /\ \A m \in Levels \ {t[2]} : w[m] = c.vault[m]
    <3>1. c.vault \in [Levels -> Vault] /\ Grown(c.vault[t[2]].layout) \in Layouts
      BY <1>0 DEF Chain, Vault, Layouts, Grown
    <3> QED BY <1>0, <3>1, LayoutFacts
  <2>1. e = [c EXCEPT !.vault = w]
    BY <1>10 DEF Effect, Atas, WithLayout
  <2> HIDE DEF e, w
  <2>2. e \in Chain
    BY <1>10, <2>1, <2>0, <1>0 DEF Chain, Layouts, Grown
  <2>3. /\ e.allocator = c.allocator /\ e.treasury = c.treasury /\ e.treasuryMint = c.treasuryMint
        /\ e.vault = w /\ e.position = c.position /\ e.atas = c.atas
        /\ e.funded = c.funded /\ e.strategy = c.strategy /\ e.idleUsdc = c.idleUsdc
        /\ e.orphans = c.orphans
    BY <2>1, <2>0, <1>0 DEF Chain
  <2>6. \A l \in Levels :
           /\ w[l].cap = c.vault[l].cap
           /\ w[l].layout # "none" => c.vault[l].layout # "none"
           /\ c.vault[l].layout # "none" => w[l].layout # "none"
           /\ c.vault[l].layout # "v0" => w[l].layout # "v0"
    BY <2>0 DEF Grown
  <2>4. Advances(c, e)
    BY <2>3, <2>6 DEF Advances, Readable
  <2>7. w[t[2]].layout # "v0"
    BY <2>0 DEF Grown
  <2>5. \A r : Done(t, r, e)
    BY <1>10, <2>3, <2>7 DEF Done, Atas
  <2> QED BY <1>0, <1>10, <2>2, <2>3, <2>4, <2>5, <2>6 DEF e
<1>11. CASE t[1] = "cap"
  <2> DEFINE w == WithCap(c.vault, t[2], "raised")
  <2>0. /\ w \in [Levels -> Vault] /\ w[t[2]].cap = "raised"
        /\ w[t[2]].layout = c.vault[t[2]].layout
        /\ \A m \in Levels \ {t[2]} : w[m] = c.vault[m]
    BY <1>0, CapFacts DEF Chain, Layouts
  <2>1. e = [c EXCEPT !.vault = w]
    BY <1>11 DEF Effect, Atas, WithCap
  <2> HIDE DEF e, w
  <2>2. e \in Chain
    BY <1>11, <2>1, <2>0, <1>0 DEF Chain, Layouts
  <2>3. /\ e.allocator = c.allocator /\ e.treasury = c.treasury /\ e.treasuryMint = c.treasuryMint
        /\ e.vault = w /\ e.position = c.position /\ e.atas = c.atas
        /\ e.funded = c.funded /\ e.strategy = c.strategy /\ e.idleUsdc = c.idleUsdc
        /\ e.orphans = c.orphans
    BY <2>1, <2>0, <1>0 DEF Chain
  <2>6. \A l \in Levels :
           /\ w[l].layout = c.vault[l].layout
           /\ c.vault[l].cap = "raised" => w[l].cap = "raised"
    BY <2>0
  <2>4. Advances(c, e)
    BY <2>3, <2>6 DEF Advances, Readable
  <2>5. \A r : Done(t, r, e)
    BY <1>11, <2>0, <2>3 DEF Done, Atas
  <2> QED BY <1>0, <1>11, <2>2, <2>3, <2>4, <2>5, <2>6 DEF e
<1>12. CASE t[1] = "grow_allocator"
  <2>1. e = [c EXCEPT !.allocator = IF @ = "v0" THEN "v1 without room" ELSE @]
    BY <1>12 DEF Effect, Atas, admin_migrate_allocator
  <2> HIDE DEF e
  <2>2. e \in Chain
    BY <1>12, <2>1 DEF Chain, Layouts, Accepts
  <2>3. /\ e.allocator = (IF c.allocator = "v0" THEN "v1 without room" ELSE c.allocator) /\ e.treasury = c.treasury /\ e.treasuryMint = c.treasuryMint
        /\ e.vault = c.vault /\ e.position = c.position /\ e.atas = c.atas
        /\ e.funded = c.funded /\ e.strategy = c.strategy /\ e.idleUsdc = c.idleUsdc
        /\ e.orphans = c.orphans
    BY <2>1 DEF Chain
  <2>4. Advances(c, e)
    BY <2>3 DEF Advances, Readable, Chain, Layouts, Accepts
  <2>5. \A r : Done(t, r, e)
    BY <1>12, <2>3 DEF Done, Atas, Readable, Chain, Layouts, Accepts
  <2> QED BY <1>0, <1>12, <2>2, <2>3, <2>4, <2>5 DEF Chain, e
<1>13. CASE t[1] = "grow_treasury"
  <2>1. e = [c EXCEPT !.treasury = Grown(@)]
    BY <1>13 DEF Effect, Atas, admin_migrate_treasury
  <2> HIDE DEF e
  <2>2. e \in Chain
    BY <1>13, <2>1 DEF Chain, Layouts, Accepts, Grown
  <2>3. /\ e.allocator = c.allocator /\ e.treasury = Grown(c.treasury) /\ e.treasuryMint = c.treasuryMint
        /\ e.vault = c.vault /\ e.position = c.position /\ e.atas = c.atas
        /\ e.funded = c.funded /\ e.strategy = c.strategy /\ e.idleUsdc = c.idleUsdc
        /\ e.orphans = c.orphans
    BY <2>1 DEF Chain
  <2>4. Advances(c, e)
    BY <2>3 DEF Advances, Readable, Chain, Layouts, Accepts, Grown
  <2>5. \A r : Done(t, r, e)
    BY <1>13, <2>3 DEF Done, Atas, Readable, Chain, Layouts, Accepts, Grown
  <2> QED BY <1>0, <1>13, <2>2, <2>3, <2>4, <2>5 DEF Chain, e
<1>14. CASE t[1] = "grow_position"
  <2>1. e = [c EXCEPT !.position[t[2]] = Grown(@)]
    BY <1>14 DEF Effect, Atas, admin_migrate_user_position
  <2> HIDE DEF e
  <2>2. e \in Chain
    BY <1>14, <2>1, <1>0 DEF Chain, Layouts, Grown
  <2>3. /\ e.allocator = c.allocator /\ e.treasury = c.treasury /\ e.treasuryMint = c.treasuryMint
        /\ e.vault = c.vault /\ e.position = [c.position EXCEPT ![t[2]] = Grown(@)] /\ e.atas = c.atas
        /\ e.funded = c.funded /\ e.strategy = c.strategy /\ e.idleUsdc = c.idleUsdc
        /\ e.orphans = c.orphans
    BY <2>1, <1>0 DEF Chain
  <2>4. Advances(c, e)
    BY <2>3, <1>0 DEF Advances, Readable, Chain, Layouts, Grown
  <2>5. \A r : Done(t, r, e)
    BY <1>14, <2>3, <1>0 DEF Done, Atas, Readable, Chain, Layouts, Grown
  <2> QED BY <1>0, <1>14, <2>2, <2>3, <2>4, <2>5, <1>0 DEF Chain, e
<1> QED BY <1>0, <1>1, <1>2, <1>3, <1>4, <1>5, <1>6, <1>7, <1>8, <1>9, <1>10, <1>11, <1>12, <1>13, <1>14 DEF SendNames, Atas

(* What a concatenation contains. *)
LEMMA ContainsConcat ==
    ASSUME NEW S, NEW a \in Seq(S), NEW b \in Seq(S), NEW g
    PROVE  /\ a \o b \in Seq(S)
           /\ Contains(a \o b, g) <=> (Contains(a, g) \/ Contains(b, g))
<1>1. /\ a \o b \in Seq(S) /\ Len(a \o b) = Len(a) + Len(b) /\ Len(a) \in Nat /\ Len(b) \in Nat
      /\ \A i \in 1..Len(a) + Len(b) : (a \o b)[i] = IF i <= Len(a) THEN a[i] ELSE b[i - Len(a)]
  BY ConcatProperties
<1>2. ASSUME Contains(a \o b, g) PROVE Contains(a, g) \/ Contains(b, g)
  <2>1. PICK i \in 1..Len(a \o b) : (a \o b)[i] = g
    BY <1>2 DEF Contains
  <2>2. CASE i <= Len(a)
    BY <1>1, <2>1, <2>2 DEF Contains
  <2>3. CASE i > Len(a)
    <3>1. i - Len(a) \in 1..Len(b) /\ b[i - Len(a)] = g
      BY <1>1, <2>1, <2>3
    <3> QED BY <3>1 DEF Contains
  <2> QED BY <1>1, <2>1, <2>2, <2>3
<1>3. ASSUME Contains(a, g) PROVE Contains(a \o b, g)
  <2>1. PICK i \in 1..Len(a) : a[i] = g
    BY <1>3 DEF Contains
  <2>2. i \in 1..Len(a \o b) /\ (a \o b)[i] = g
    BY <1>1, <2>1
  <2> QED BY <2>2 DEF Contains
<1>4. ASSUME Contains(b, g) PROVE Contains(a \o b, g)
  <2>1. PICK i \in 1..Len(b) : b[i] = g
    BY <1>4 DEF Contains
  <2>2. i + Len(a) \in 1..Len(a \o b) /\ (a \o b)[i + Len(a)] = g
    BY <1>1, <2>1
  <2> QED BY <2>2 DEF Contains
<1> QED BY <1>1, <1>2, <1>3, <1>4

(* What is left of a sequence. *)
LEMMA ContainsTail ==
    ASSUME NEW S, NEW s \in Seq(S), s # <<>>, NEW g
    PROVE  /\ Head(s) \in S /\ Tail(s) \in Seq(S)
           /\ Contains(Tail(s), g) => Contains(s, g)
           /\ Contains(s, g) => g = Head(s) \/ Contains(Tail(s), g)
<1>1. /\ Head(s) \in S /\ Tail(s) \in Seq(S) /\ Len(Tail(s)) = Len(s) - 1 /\ Len(s) \in Nat
      /\ \A i \in 1..Len(Tail(s)) : Tail(s)[i] = s[i + 1]
  BY HeadTailProperties
<1>2. ASSUME Contains(Tail(s), g) PROVE Contains(s, g)
  <2>1. PICK i \in 1..Len(Tail(s)) : Tail(s)[i] = g
    BY <1>2 DEF Contains
  <2>2. i + 1 \in 1..Len(s) /\ s[i + 1] = g
    BY <1>1, <2>1
  <2> QED BY <2>2 DEF Contains
<1>3. ASSUME Contains(s, g), g # Head(s) PROVE Contains(Tail(s), g)
  <2>1. PICK i \in 1..Len(s) : s[i] = g
    BY <1>3 DEF Contains
  <2>2. i # 1
    BY <1>3, <2>1
  <2>3. i - 1 \in 1..Len(Tail(s)) /\ Tail(s)[i - 1] = g
    BY <1>1, <2>1, <2>2
  <2> QED BY <2>3 DEF Contains
<1> QED BY <1>1, <1>2, <1>3

(* Sequences of one group and of none. *)
LEMMA ContainsOne ==
    ASSUME NEW h, NEW g
    PROVE  /\ Contains(<<h>>, g) <=> g = h
           /\ ~Contains(<<>>, g)
  BY DEF Contains

(* One group for each level. *)
LEMMA PerLevelFacts ==
    ASSUME NEW name \in LookNames \cup SendNames, NEW ls \in SUBSET Levels
    PROVE  /\ PerLevel(name, ls) \in Seq(Groups)
           /\ \A l \in ls : Contains(PerLevel(name, ls), <<name, l>>)
           /\ \A g : Contains(PerLevel(name, ls), g) => g[1] = name
<1> DEFINE one(l) == IF l \in ls THEN << <<name, l>> >> ELSE <<>>
<1>1. \A l : one(l) \in Seq(Groups)
  BY DEF Groups
<1>2. \A l, g : Contains(one(l), g) <=> l \in ls /\ g = <<name, l>>
  BY ContainsOne
<1>3. PerLevel(name, ls) = one(0) \o one(1) \o one(2)
  BY DEF PerLevel
<1>4. ls \subseteq {0, 1, 2}
  BY SetupAssumption
<1> HIDE DEF one
<1>5. one(0) \o one(1) \in Seq(Groups)
  BY <1>1, ContainsConcat
<1>6. \A g : Contains(one(0) \o one(1), g) <=> Contains(one(0), g) \/ Contains(one(1), g)
  BY <1>1, ContainsConcat
<1>7. ASSUME NEW a \in Seq(Groups), NEW b \in Seq(Groups), PerLevel(name, ls) = a \o b, NEW g
      PROVE  /\ PerLevel(name, ls) \in Seq(Groups)
             /\ Contains(PerLevel(name, ls), g) <=> (Contains(a, g) \/ Contains(b, g))
  BY <1>7, ContainsConcat
<1>8. one(2) \in Seq(Groups)
  BY <1>1
<1>9. /\ PerLevel(name, ls) \in Seq(Groups)
      /\ \A g : Contains(PerLevel(name, ls), g) <=>
                   (Contains(one(0) \o one(1), g) \/ Contains(one(2), g))
  BY <1>3, <1>5, <1>7, <1>8
<1> QED BY <1>2, <1>4, <1>6, <1>9

(* What a script consists of. *)
LEMMA PlanFacts ==
    /\ Scripts = {"setup_devnet", "setup_ranger", "migrate_v1", "migrate_vaults",
                  "migrate_positions", "fix_treasury", "raise_caps"}
    /\ Plan["setup_devnet"] = setup_devnet /\ Plan["setup_ranger"] = setup_ranger
    /\ Plan["migrate_v1"] = migrate_v1 /\ Plan["migrate_vaults"] = migrate_vaults
    /\ Plan["migrate_positions"] = migrate_positions /\ Plan["fix_treasury"] = fix_treasury
    /\ Plan["raise_caps"] = raise_caps
  BY DEF Scripts, Plan

(* Every plan is of groups; only setup makes treasury and vaults, and its  *)
(* first group is the allocator.                                           *)
LEMMA PlanGroups ==
    ASSUME NEW s \in Scripts
    PROVE  /\ Plan[s] \in Seq(Groups)
           /\ \A n \in {"treasury", "vault"}, l \in Levels :
                 Contains(Plan[s], <<n, l>>) => Head(Plan[s])[1] = "allocator"
<1>0. 0 \in Levels
  BY SetupAssumption
<1> DEFINE first == << <<"allocator", 0>>, <<"treasury", 0>> >>
<1>1. CASE s = "setup_devnet"
  <2>1. first \in Seq(Groups) /\ Len(first) = 2 /\ first[1][1] = "allocator"
    BY <1>0 DEF Groups, SendNames
  <2>2. Plan[s] = first \o PerLevel("vault", Levels)
    BY <1>1, PlanFacts DEF setup_devnet
  <2> HIDE DEF first
  <2>3. PerLevel("vault", Levels) \in Seq(Groups)
    BY PerLevelFacts DEF SendNames
  <2>4. ASSUME NEW a \in Seq(Groups), NEW b \in Seq(Groups), Len(a) = 2
        PROVE  a \o b \in Seq(Groups) /\ (a \o b)[1] = a[1] /\ a \o b # <<>>
    BY <2>4, ConcatProperties
  <2>5. Plan[s] \in Seq(Groups) /\ Plan[s][1] = first[1] /\ Plan[s] # <<>>
    BY <2>1, <2>2, <2>3, <2>4
  <2> QED BY <2>1, <2>5
<1>2. CASE s = "setup_ranger"
  <2>1. Plan[s] = setup_ranger
    BY <1>2, PlanFacts
  <2>2. setup_ranger \in Seq(Groups)
    BY <1>0 DEF setup_ranger, Groups, SendNames, LookNames
  <2>3. \A i \in 1..Len(setup_ranger) : setup_ranger[i][1] \notin {"treasury", "vault"}
    BY DEF setup_ranger
  <2> QED BY <2>1, <2>2, <2>3 DEF Contains
<1>3. CASE s = "migrate_v1"
  <2>1. Plan[s] = migrate_v1
    BY <1>3, PlanFacts
  <2>2. migrate_v1 \in Seq(Groups)
    BY <1>0 DEF migrate_v1, Groups, SendNames, LookNames
  <2>3. \A i \in 1..Len(migrate_v1) : migrate_v1[i][1] \notin {"treasury", "vault"}
    BY DEF migrate_v1
  <2> QED BY <2>1, <2>2, <2>3 DEF Contains
<1>4. CASE s = "fix_treasury"
  <2>1. Plan[s] = fix_treasury
    BY <1>4, PlanFacts
  <2>2. fix_treasury \in Seq(Groups)
    BY <1>0 DEF fix_treasury, Groups, SendNames, LookNames
  <2>3. \A i \in 1..Len(fix_treasury) : fix_treasury[i][1] \notin {"treasury", "vault"}
    BY DEF fix_treasury
  <2> QED BY <2>1, <2>2, <2>3 DEF Contains
<1>5. CASE s = "migrate_vaults"
  <2>1. Plan[s] = PerLevel("grow_vault", Levels \ {0})
    BY <1>5, PlanFacts DEF migrate_vaults
  <2>0. "grow_vault" \in LookNames \cup SendNames
    BY DEF SendNames
  <2>2. Plan[s] \in Seq(Groups) /\ \A g : Contains(Plan[s], g) => g[1] = "grow_vault"
    BY <2>0, <2>1, PerLevelFacts
  <2>3. \A l : <<"vault", l>>[1] # "grow_vault" /\ <<"treasury", l>>[1] # "grow_vault"
    OBVIOUS
  <2> QED BY <2>2, <2>3
<1>6. CASE s = "migrate_positions"
  <2>1. Plan[s] = PerLevel("grow_position", Levels)
    BY <1>6, PlanFacts DEF migrate_positions
  <2>0. "grow_position" \in LookNames \cup SendNames
    BY DEF SendNames
  <2>2. Plan[s] \in Seq(Groups) /\ \A g : Contains(Plan[s], g) => g[1] = "grow_position"
    BY <2>0, <2>1, PerLevelFacts
  <2>3. \A l : <<"vault", l>>[1] # "grow_position" /\ <<"treasury", l>>[1] # "grow_position"
    OBVIOUS
  <2> QED BY <2>2, <2>3
<1>7. CASE s = "raise_caps"
  <2>1. Plan[s] = PerLevel("cap", Levels)
    BY <1>7, PlanFacts DEF raise_caps
  <2>0. "cap" \in LookNames \cup SendNames
    BY DEF SendNames
  <2>2. Plan[s] \in Seq(Groups) /\ \A g : Contains(Plan[s], g) => g[1] = "cap"
    BY <2>0, <2>1, PerLevelFacts
  <2>3. \A l : <<"vault", l>>[1] # "cap" /\ <<"treasury", l>>[1] # "cap"
    OBVIOUS
  <2> QED BY <2>2, <2>3
<1> QED BY <1>1, <1>2, <1>3, <1>4, <1>5, <1>6, <1>7, PlanFacts

(* A script whose groups are all done has done what it is for. *)
LEMMA PlanReachesGoal ==
    ASSUME NEW r, NEW c, r.script \in Scripts,
           r.fellBack /\ c.treasury = "none" => faults < MaxFaults,
           \A g \in Groups : Contains(Plan[r.script], g) => Done(g, r, c)
    PROVE  Goal(r, c)
<1>0. 0 \in Levels
  BY SetupAssumption
<1>1. CASE r.script = "setup_devnet"
  <2> DEFINE first == << <<"allocator", 0>>, <<"treasury", 0>> >>
  <2>1. /\ first \in Seq(Groups)
        /\ Contains(first, <<"allocator", 0>>) /\ Contains(first, <<"treasury", 0>>)
    BY <1>0 DEF Groups, SendNames, Contains
  <2>2. Plan[r.script] = first \o PerLevel("vault", Levels)
    BY <1>1, PlanFacts DEF setup_devnet
  <2> HIDE DEF first
  <2>3. /\ PerLevel("vault", Levels) \in Seq(Groups)
        /\ \A l \in Levels : Contains(PerLevel("vault", Levels), <<"vault", l>>)
    BY PerLevelFacts DEF SendNames
  <2>4. \A g : Contains(first, g) \/ Contains(PerLevel("vault", Levels), g)
                => Contains(Plan[r.script], g)
    BY <2>1, <2>2, <2>3, ContainsConcat
  <2>5. <<"allocator", 0>> \in Groups /\ <<"treasury", 0>> \in Groups
        /\ \A l \in Levels : <<"vault", l>> \in Groups
    BY <1>0 DEF Groups, SendNames
  <2>6. /\ Done(<<"allocator", 0>>, r, c) /\ Done(<<"treasury", 0>>, r, c)
        /\ \A l \in Levels : Done(<<"vault", l>>, r, c)
    BY <2>1, <2>3, <2>4, <2>5
  <2> QED BY <1>1, <2>6 DEF Goal, Done, Atas
<1>2. CASE r.script = "setup_ranger"
  <2>1. \A i \in 1..7 : setup_ranger[i] \in Groups /\ Contains(Plan[r.script], setup_ranger[i])
    BY <1>0, <1>2, PlanFacts DEF setup_ranger, Groups, SendNames, LookNames, Contains
  <2>2. \A i \in 1..7 : Done(setup_ranger[i], r, c)
    BY <2>1
  <2>3. /\ Done(<<"idle_ata", 0>>, r, c) /\ Done(<<"asset_ata", 0>>, r, c)
        /\ Done(<<"share_ata", 0>>, r, c) /\ Done(<<"fund", 0>>, r, c)
        /\ Done(<<"strategy", 0>>, r, c) /\ Done(<<"idle_usdc", 0>>, r, c)
    BY <2>2 DEF setup_ranger
  <2>4. {"idle_ata", "asset_ata", "share_ata"} \subseteq c.atas
    BY <2>3 DEF Done, Atas
  <2>5. c.funded /\ c.strategy /\ c.idleUsdc
    BY <2>3 DEF Done, Atas
  <2> QED BY <1>2, <2>4, <2>5 DEF Goal, Atas
<1>3. CASE r.script = "migrate_v1"
  <2>1. \A i \in 1..2 : migrate_v1[i] \in Groups /\ Contains(Plan[r.script], migrate_v1[i])
    BY <1>0, <1>3, PlanFacts DEF migrate_v1, Groups, SendNames, LookNames, Contains
  <2>2. Done(<<"grow_allocator", 0>>, r, c) /\ Done(<<"grow_treasury", 0>>, r, c)
    BY <2>1 DEF migrate_v1
  <2> QED BY <1>3, <2>2 DEF Goal, Done, Atas
<1>4. CASE r.script = "fix_treasury"
  <2>1. \A i \in 1..4 : fix_treasury[i] \in Groups /\ Contains(Plan[r.script], fix_treasury[i])
    BY <1>0, <1>4, PlanFacts DEF fix_treasury, Groups, SendNames, LookNames, Contains
  <2>2. Done(<<"treasury_account", 0>>, r, c) /\ Done(<<"repoint", 0>>, r, c)
    BY <2>1 DEF fix_treasury
  <2> QED BY <1>4, <2>2 DEF Goal, Done, Atas
<1>5. CASE r.script = "migrate_vaults"
  <2>1. \A l \in Levels \ {0} : Contains(Plan[r.script], <<"grow_vault", l>>)
    BY <1>5, PlanFacts, PerLevelFacts DEF migrate_vaults, SendNames
  <2>2. \A l \in Levels \ {0} : Done(<<"grow_vault", l>>, r, c)
    BY <2>1 DEF Groups, SendNames
  <2> QED BY <1>5, <2>2 DEF Goal, Done, Atas
<1>6. CASE r.script = "migrate_positions"
  <2>1. \A l \in Levels : Contains(Plan[r.script], <<"grow_position", l>>)
    BY <1>6, PlanFacts, PerLevelFacts DEF migrate_positions, SendNames
  <2>2. \A l \in Levels : Done(<<"grow_position", l>>, r, c)
    BY <2>1 DEF Groups, SendNames
  <2> QED BY <1>6, <2>2 DEF Goal, Done, Atas
<1>7. CASE r.script = "raise_caps"
  <2>1. \A l \in Levels : Contains(Plan[r.script], <<"cap", l>>)
    BY <1>7, PlanFacts, PerLevelFacts DEF raise_caps, SendNames
  <2>2. \A l \in Levels : Done(<<"cap", l>>, r, c)
    BY <2>1 DEF Groups, SendNames
  <2> QED BY <1>7, <2>2 DEF Goal, Done, Atas
<1> QED BY <1>1, <1>2, <1>3, <1>4, <1>5, <1>6, <1>7, PlanFacts

Run ==
    [script : {"none"} \cup Scripts, todo : Seq(Groups), txs : Seq(SetupTx),
     fellBack : BOOLEAN, missing : SUBSET Levels, idle : BOOLEAN]

(* A run has done what is no longer before it, has an allocator before it  *)
(* makes treasury and vaults, sends what its group sends, and goes by what *)
(* is still so.                                                            *)
RunHolds(r, c) ==
    /\ r \in Run
    /\ r.script = "none" => r = NoRun
    /\ r.script # "none" =>
          \A g \in Groups : Contains(Plan[r.script], g) => Done(g, r, c) \/ Contains(r.todo, g)
    /\ \A n \in {"treasury", "vault"}, l \in Levels : Contains(r.todo, <<n, l>>) =>
          c.allocator # "none" \/ Head(r.todo)[1] = "allocator"
    /\ r.idle => c.idleUsdc
    /\ r.txs # <<>> =>
          /\ r.todo # <<>> /\ Head(r.todo)[1] \in SendNames
          /\ r.txs = Txs(Head(r.todo)) \/ r.txs = <<Head(r.todo)>>

(* From r to s a group is over. *)
Passes(r, s) ==
    /\ s \in Run /\ s.script = r.script /\ s.todo = Tail(r.todo) /\ s.txs = <<>>
    /\ r.fellBack => s.fellBack
    /\ r.missing \subseteq s.missing
    /\ s.idle => r.idle \/ chain.idleUsdc

(* From r to s the first of two transactions is over. *)
Proceeds(r, s) ==
    /\ s \in Run /\ s.script = r.script /\ s.todo = r.todo /\ s.txs = <<Head(r.todo)>>
    /\ s.fellBack = r.fellBack /\ s.missing = r.missing /\ s.idle = r.idle

SetupType ==
    /\ chain \in Chain
    /\ inflight = <<>> \/ \E t \in SetupTx : inflight = <<t>>
    /\ faults \in Int

(* What a group sends; the group itself comes last. *)
LEMMA TxsFacts ==
    ASSUME NEW g \in Groups, g[1] \in SendNames
    PROVE  /\ g \in SetupTx
           /\ \/ g[1] \notin {"treasury", "vault"} /\ Txs(g) = <<g>>
              \/ g[1] = "treasury" /\ Txs(g) = << <<"treasury_ata", 0>>, g >>
              \/ g[1] = "vault" /\ Txs(g) = << <<"createMint", g[2]>>, g >>
           /\ Txs(g) \in Seq(SetupTx)
           /\ Txs(g) = <<g>> \/ (Len(Txs(g)) = 2 /\ Tail(Txs(g)) = <<g>>)
<1>1. g \in SetupTx
  BY DEF Groups, SetupTx
<1>2. <<"treasury_ata", 0>> \in SetupTx /\ <<"createMint", g[2]>> \in SetupTx
  BY SetupAssumption DEF Groups, SetupTx, SendNames
<1>3. CASE g[1] = "treasury"
  BY <1>1, <1>2, <1>3 DEF Txs
<1>4. CASE g[1] = "vault"
  BY <1>1, <1>2, <1>4 DEF Txs
<1>5. CASE g[1] \notin {"treasury", "vault"}
  BY <1>1, <1>5 DEF Txs
<1> QED BY <1>1, <1>3, <1>4, <1>5

(* No run holds of any deployment. *)
LEMMA NoRunHolds == NoRun \in Run /\ \A c : RunHolds(NoRun, c)
<1>1. NoRun \in Run /\ NoRun.todo = <<>> /\ NoRun.txs = <<>> /\ NoRun.script = "none"
      /\ ~NoRun.idle
  BY DEF NoRun, Run
<1> QED BY <1>1, ContainsOne DEF RunHolds

(* What is done stays done. *)
LEMMA DoneStays ==
    ASSUME NEW g \in Groups, NEW r, NEW s, NEW c, NEW d, Done(g, r, c), Advances(c, d),
           r.fellBack => s.fellBack, r.missing \subseteq s.missing
    PROVE  Done(g, s, d)
<1>0. g[2] \in Levels /\ g[1] \in LookNames \cup SendNames
  BY DEF Groups
<1>1. CASE g[1] \in Atas
  BY <1>1 DEF Done, Advances, Atas
<1>2. CASE g[1] = "allocator"
  BY <1>2 DEF Done, Advances, Atas
<1>3. CASE g[1] = "treasury"
  BY <1>3 DEF Done, Advances, Atas
<1>4. CASE g[1] = "vault"
  BY <1>0, <1>4 DEF Done, Advances, Atas
<1>5. CASE g[1] \in {"fund", "strategy", "idle_usdc"}
  BY <1>5 DEF Done, Advances, Atas
<1>6. CASE g[1] = "grow_allocator"
  BY <1>6 DEF Done, Advances, Atas
<1>7. CASE g[1] \in {"grow_treasury", "treasury_account"}
  BY <1>7 DEF Done, Advances, Atas
<1>8. CASE g[1] = "grow_vault"
  BY <1>0, <1>8 DEF Done, Advances, Atas
<1>9. CASE g[1] = "grow_position"
  BY <1>0, <1>9 DEF Done, Advances, Atas
<1>10. CASE g[1] = "repoint"
  BY <1>10 DEF Done, Advances, Atas
<1>11. CASE g[1] = "cap"
  BY <1>0, <1>11 DEF Done, Advances, Atas
<1>12. CASE g[1] \in {"prerequisites", "repointed"}
  BY <1>12 DEF Done, Atas
<1> QED BY <1>0, <1>1, <1>2, <1>3, <1>4, <1>5, <1>6, <1>7, <1>8, <1>9, <1>10, <1>11, <1>12
        DEF LookNames, SendNames, Atas

(* The deployment advances under a run. *)
LEMMA RunOutlives ==
    ASSUME NEW r, NEW c, NEW d, RunHolds(r, c), Advances(c, d)
    PROVE  RunHolds(r, d)
<1>1. (c.allocator # "none" => d.allocator # "none") /\ (c.idleUsdc => d.idleUsdc)
  BY DEF Advances
<1>2. \A g \in Groups : Done(g, r, c) => Done(g, r, d)
  BY DoneStays
<1> QED BY <1>1, <1>2 DEF RunHolds

(* A group is over when its work is done. *)
LEMMA PassHolds ==
    ASSUME NEW r, NEW s, NEW d, RunHolds(r, chain), r.todo # <<>>, Passes(r, s),
           Advances(chain, d), Done(Head(r.todo), s, d)
    PROVE  RunHolds(s, d)
<1>1. r.todo \in Seq(Groups) /\ r.script # "none"
  BY DEF RunHolds, Run, NoRun
<1>2. ASSUME NEW g \in Groups, Contains(Plan[s.script], g)
      PROVE  Done(g, s, d) \/ Contains(s.todo, g)
  <2>1. CASE Done(g, r, chain)
    BY <2>1, DoneStays DEF Passes
  <2>2. CASE Contains(r.todo, g)
    BY <1>1, <2>2, ContainsTail DEF Passes
  <2> QED BY <1>1, <1>2, <2>1, <2>2 DEF RunHolds, Passes
<1>3. ASSUME NEW n \in {"treasury", "vault"}, NEW l \in Levels, Contains(s.todo, <<n, l>>)
      PROVE  d.allocator # "none"
  <2>1. Contains(r.todo, <<n, l>>)
    BY <1>1, <1>3, ContainsTail DEF Passes
  <2>2. CASE chain.allocator # "none"
    BY <2>2 DEF Advances
  <2>3. CASE Head(r.todo)[1] = "allocator"
    BY <2>3 DEF Done, Atas
  <2> QED BY <2>1, <2>2, <2>3 DEF RunHolds
<1>4. s \in Run /\ s.script = r.script /\ s.txs = <<>>
  BY DEF Passes
<1>5. s.idle => d.idleUsdc
  BY DEF Passes, RunHolds, Advances
<1> QED BY <1>1, <1>2, <1>3, <1>4, <1>5 DEF RunHolds

(* Between two transactions. *)
LEMMA ProceedHolds ==
    ASSUME NEW r, NEW s, NEW c, NEW d, RunHolds(r, c), r.txs # <<>>, Proceeds(r, s),
           Advances(c, d)
    PROVE  RunHolds(s, d)
<1>1. ASSUME NEW g \in Groups, Contains(Plan[s.script], g), s.script # "none"
      PROVE  Done(g, s, d) \/ Contains(s.todo, g)
  BY <1>1, DoneStays DEF RunHolds, Proceeds
<1>2. r.script # "none"
  BY DEF RunHolds, NoRun
<1>3. (c.allocator # "none" => d.allocator # "none") /\ (c.idleUsdc => d.idleUsdc)
  BY DEF Advances
<1>4. /\ s \in Run /\ s.script = r.script /\ s.todo = r.todo /\ s.txs = <<Head(r.todo)>>
      /\ s.idle = r.idle
  BY DEF Proceeds
<1> QED BY <1>1, <1>2, <1>3, <1>4 DEF RunHolds

(* The step after a transaction. *)
LEMMA GoOnFacts ==
    ASSUME NEW c, RunHolds(run, c), run.txs # <<>>, GoOn
    PROVE  \/ Head(run.txs) = Head(run.todo) /\ Passes(run, run')
           \/ run.txs = Txs(Head(run.todo)) /\ Len(run.txs) = 2 /\ Proceeds(run, run')
<1> DEFINE g == Head(run.todo)
<1>1. /\ run \in Run /\ run.todo \in Seq(Groups) /\ run.todo # <<>> /\ g \in Groups
      /\ g[1] \in SendNames /\ (run.txs = Txs(g) \/ run.txs = <<g>>)
      /\ Tail(run.todo) \in Seq(Groups)
  BY ContainsTail DEF RunHolds, Run
<1>2. /\ g \in SetupTx
      /\ Txs(g) = <<g>> \/ (Len(Txs(g)) = 2 /\ Tail(Txs(g)) = <<g>>)
  BY <1>1, TxsFacts
<1> HIDE DEF g
<1>3. CASE run.txs = <<g>>
  <2>1. run' = [run EXCEPT !.txs = <<>>, !.todo = Tail(run.todo)]
    BY <1>3 DEF GoOn
  <2>0. <<>> \in Seq(SetupTx)
    OBVIOUS
  <2>2. PICK q \in Run : q = [run EXCEPT !.txs = <<>>]
    BY <1>1, <2>0 DEF Run
  <2>3. run' = [q EXCEPT !.todo = Tail(run.todo)]
    BY <2>1, <2>2 DEF Run
  <2>4. Passes(run, run')
    BY <1>1, <2>2, <2>3 DEF Passes, Run
  <2> QED BY <1>3, <2>4 DEF g
<1>4. CASE run.txs = Txs(g) /\ Len(Txs(g)) = 2 /\ Tail(Txs(g)) = <<g>>
  <2>1. run' = [run EXCEPT !.txs = <<g>>]
    <3>0. Len(run.txs) # 1 /\ Tail(run.txs) = <<g>>
      BY <1>4
    <3>1. run' = [run EXCEPT !.txs = <<g>>, !.todo = @]
      BY <3>0 DEF GoOn
    <3> QED BY <1>1, <3>1 DEF Run
  <2>2. <<g>> \in Seq(SetupTx)
    BY <1>2
  <2>3. run' \in Run
    BY <1>1, <2>1, <2>2 DEF Run
  <2>4. Proceeds(run, run')
    BY <1>1, <2>1, <2>3 DEF Proceeds, Run, g
  <2> QED BY <1>4, <2>4 DEF g
<1> QED BY <1>1, <1>2, <1>3, <1>4

(* The step after an error. *)
LEMMA GiveUpFacts ==
    ASSUME NEW c, RunHolds(run, c), run.todo # <<>>, GiveUp
    PROVE  \/ Head(run.todo)[1] = "treasury" /\ Passes(run, run') /\ run'.fellBack
           \/ run' = NoRun
<1>1. run \in Run /\ run.todo \in Seq(Groups) /\ Tail(run.todo) \in Seq(Groups)
  BY ContainsTail DEF RunHolds, Run
<1>2. CASE Head(run.todo)[1] = "treasury"
  <2>1. run' = [run EXCEPT !.todo = Tail(run.todo), !.txs = <<>>, !.fellBack = TRUE]
    BY <1>2 DEF GiveUp
  <2>0. <<>> \in Seq(SetupTx)
    OBVIOUS
  <2>2. PICK q \in Run : q = [run EXCEPT !.txs = <<>>]
    BY <1>1, <2>0 DEF Run
  <2>3. PICK p \in Run : p = [q EXCEPT !.todo = Tail(run.todo)]
    BY <1>1 DEF Run
  <2>4. run' = [p EXCEPT !.fellBack = TRUE]
    BY <2>1, <2>2, <2>3 DEF Run
  <2>5. Passes(run, run') /\ run'.fellBack
    BY <1>1, <2>2, <2>3, <2>4 DEF Passes, Run
  <2> QED BY <1>2, <2>5
<1> QED BY <1>2 DEF GiveUp

(* The group that is skipped is done; the group that neither is skipped    *)
(* nor throws sends.                                                       *)
LEMMA SkipFacts ==
    ASSUME NEW g \in Groups, NEW c, ~Throws(g, c), run.idle => c.idleUsdc
    PROVE  /\ Skips(g, c) /\ g[1] # "cap" => \A r : Done(g, r, c)
           /\ ~Skips(g, c) => g[1] \in SendNames
<1>0. g[1] \in LookNames \cup SendNames
  BY DEF Groups
<1>1. CASE g[1] \in Atas
  BY <1>1 DEF Done, Skips, Atas, SendNames
<1>2. CASE g[1] \in {"allocator", "treasury", "vault"}
  BY <1>2 DEF Done, Skips, Atas, SendNames
<1>3. CASE g[1] \in {"fund", "strategy", "idle_usdc"}
  BY <1>3 DEF Done, Skips, Atas, SendNames
<1>4. CASE g[1] \in {"grow_vault", "grow_position"}
  BY <1>4 DEF Done, Skips, Atas, SendNames
<1>5. CASE g[1] \in {"grow_allocator", "grow_treasury", "repoint"}
  BY <1>5 DEF Skips, Atas, SendNames
<1>6. CASE g[1] \in LookNames
  BY <1>6 DEF Done, Skips, Atas, LookNames, Throws
<1>7. CASE g[1] = "cap"
  BY <1>7 DEF SendNames
<1> QED BY <1>0, <1>1, <1>2, <1>3, <1>4, <1>5, <1>6, <1>7 DEF SendNames, Atas

(* A group that looks is given up, is over, or starts to send.             *)
LEMMA LooksFacts ==
    ASSUME chain \in Chain, RunHolds(run, chain), looks
    PROVE  /\ RunHolds(run', chain)
           /\ run.todo # <<>> /\ run.txs = <<>>
           /\ run'.fellBack => run.fellBack \/ chain.treasury # "none"
           /\ \/ run' = NoRun \/ Passes(run, run')
              \/ /\ run'.txs = Txs(Head(run.todo)) /\ run'.todo = run.todo
                 /\ run'.fellBack = run.fellBack
                 /\ ~Skips(Head(run.todo), chain) /\ Head(run.todo)[1] \in SendNames
<1> DEFINE g == Head(run.todo)
<1>1. /\ run \in Run /\ run.todo \in Seq(Groups) /\ run.todo # <<>> /\ run.txs = <<>>
      /\ g \in Groups /\ Tail(run.todo) \in Seq(Groups)
  BY ContainsTail DEF RunHolds, Run, looks
<1>2. Advances(chain, chain)
  BY DEF Advances
<1>3. CASE Throws(g, chain)
  <2>1. GiveUp
    BY <1>3 DEF looks
  <2>2. CASE run' = NoRun
    BY <1>1, <2>2, NoRunHolds DEF NoRun
  <2>3. CASE g[1] = "treasury" /\ Passes(run, run') /\ run'.fellBack
    <3>1. Done(g, run', chain)
      BY <2>3 DEF Done, Atas
    <3>2. chain.treasury # "none"
      BY <1>3, <2>3 DEF Throws
    <3> QED BY <1>1, <1>2, <2>3, <3>1, <3>2, PassHolds
  <2> QED BY <1>1, <2>1, <2>2, <2>3, GiveUpFacts
<1> DEFINE m == IF g[1] = "cap" /\ Skips(g, chain) THEN run.missing \cup {g[2]}
                ELSE run.missing
           i == IF g[1] = "idle_ata" THEN chain.idleUsdc ELSE run.idle
<1>4. /\ m \in SUBSET Levels /\ run.missing \subseteq m
      /\ g[1] = "cap" /\ Skips(g, chain) => g[2] \in m
  BY <1>1 DEF Run, Groups
<1>5. i \in BOOLEAN /\ (i => chain.idleUsdc)
  BY <1>1 DEF Run, RunHolds, Chain
<1>6. Noting(g, run) = [run EXCEPT !.idle = i, !.missing = m]
  BY DEF Noting
<1> HIDE DEF m, i
<1>7. PICK q \in Run :
         /\ q = Noting(g, run) /\ q.script = run.script /\ q.todo = run.todo
         /\ q.txs = run.txs /\ q.fellBack = run.fellBack /\ q.missing = m /\ q.idle = i
  <2> DEFINE p == [run EXCEPT !.idle = i]
  <2>1. /\ p \in Run /\ p.script = run.script /\ p.todo = run.todo
        /\ p.txs = run.txs /\ p.fellBack = run.fellBack /\ p.idle = i
    BY <1>1, <1>5 DEF Run
  <2>2. Noting(g, run) = [p EXCEPT !.missing = m]
    BY <1>1, <1>6, <2>1 DEF Run
  <2> QED BY <1>4, <2>1, <2>2 DEF Run
<1>8. CASE ~Throws(g, chain) /\ Skips(g, chain)
  <2>1. run' = [q EXCEPT !.todo = Tail(run.todo)]
    BY <1>7, <1>8 DEF looks
  <2>2. /\ run' \in Run /\ run'.script = run.script /\ run'.todo = Tail(run.todo)
        /\ run'.txs = <<>> /\ run'.fellBack = run.fellBack /\ run'.missing = m
        /\ run'.idle = i
    BY <1>1, <1>7, <2>1 DEF Run
  <2>3. Passes(run, run')
    BY <1>4, <1>5, <2>2 DEF Passes
  <2>4. Done(g, run', chain)
    <3>1. CASE g[1] = "cap"
      BY <1>4, <1>8, <2>2, <3>1 DEF Done, Atas
    <3> QED BY <1>1, <1>8, <3>1, SkipFacts DEF RunHolds
  <2> QED BY <1>1, <1>2, <2>2, <2>3, <2>4, PassHolds
<1>9. CASE ~Throws(g, chain) /\ ~Skips(g, chain)
  <2>1. run' = [q EXCEPT !.txs = Txs(g)]
    BY <1>7, <1>9 DEF looks
  <2>2. g[1] \in SendNames
    BY <1>1, <1>9, SkipFacts DEF RunHolds
  <2>3. Txs(g) \in Seq(SetupTx)
    BY <1>1, <2>2, TxsFacts
  <2>4. /\ run' \in Run /\ run'.script = run.script /\ run'.todo = run.todo /\ run'.txs = Txs(g)
        /\ run'.fellBack = run.fellBack /\ run'.missing = m /\ run'.idle = i
    BY <1>7, <2>1, <2>3 DEF Run
  <2>5. RunHolds(run', chain)
    <3>1. ASSUME NEW h \in Groups, Contains(Plan[run'.script], h), run'.script # "none"
          PROVE  Done(h, run', chain) \/ Contains(run'.todo, h)
      BY <1>2, <1>4, <2>4, <3>1, DoneStays DEF RunHolds
    <3>2. run.script # "none"
      BY <1>1 DEF RunHolds, NoRun
    <3> QED BY <1>1, <1>5, <2>2, <2>4, <3>1, <3>2 DEF RunHolds
  <2> QED BY <1>1, <1>9, <2>2, <2>4, <2>5
<1> QED BY <1>3, <1>8, <1>9

(* Once a transaction has its effect, whatever the script does next holds. *)
LEMMA AfterEffect ==
    ASSUME NEW d, RunHolds(run, chain), run.txs # <<>>, Advances(chain, d),
           \/ GoOn /\ \A r : Done(Head(run.txs), r, d)
           \/ GiveUp
    PROVE  RunHolds(run', d)
<1>1. run.todo # <<>>
  BY DEF RunHolds
<1>2. CASE GoOn /\ \A r : Done(Head(run.txs), r, d)
  <2>1. CASE Head(run.txs) = Head(run.todo) /\ Passes(run, run')
    BY <1>1, <1>2, <2>1, PassHolds
  <2>2. CASE Proceeds(run, run')
    BY <2>2, ProceedHolds
  <2> QED BY <1>2, <2>1, <2>2, GoOnFacts
<1>3. CASE GiveUp
  <2>1. CASE run' = NoRun
    BY <2>1, NoRunHolds
  <2>2. CASE Head(run.todo)[1] = "treasury" /\ Passes(run, run') /\ run'.fellBack
    <3>1. Done(Head(run.todo), run', d)
      BY <2>2 DEF Done, Atas
    <3> QED BY <1>1, <2>2, <3>1, PassHolds
  <2> QED BY <1>1, <1>3, <2>1, <2>2, GiveUpFacts
<1> QED BY <1>2, <1>3

(* The transaction at hand. *)
LEMMA AtHand ==
    ASSUME NEW c, RunHolds(run, c), run.txs # <<>>
    PROVE  Head(run.txs) \in SetupTx /\ run.todo # <<>>
<1>1. run.txs \in Seq(SetupTx)
  BY DEF RunHolds, Run
<1> QED BY <1>1, ContainsTail DEF RunHolds

SetupInv == SetupType /\ RunHolds(run, chain)

(* At the start there is no run. *)
LEMMA SetupInitInv == Init => SetupInv
<1> SUFFICES ASSUME Init PROVE SetupInv
  OBVIOUS
<1>1. EmptyChain \in Chain
  BY DEF EmptyChain, Chain, NoVault, Vault, Layouts, Atas
<1>2. ASSUME NEW n \in OldWeights PROVE OldChain(n) \in Chain
  <2> DEFINE v == [l \in Levels |-> IF l = 0 THEN NoVault
                      ELSE [layout |-> "v0", cap |-> "setup",
                            limited |-> n \in LimitedByMigration]]
             p == [l \in Levels |-> IF l = 0 THEN "none" ELSE "v0"]
  <2>1. v \in [Levels -> Vault]
    <3>1. (n \in LimitedByMigration) = TRUE \/ (n \in LimitedByMigration) = FALSE
      OBVIOUS
    <3>2. ASSUME NEW h \in BOOLEAN
          PROVE  [l \in Levels |-> IF l = 0 THEN NoVault
                     ELSE [layout |-> "v0", cap |-> "setup", limited |-> h]] \in [Levels -> Vault]
      BY DEF NoVault, Vault, Layouts
    <3> QED BY <3>1, <3>2, Zenon
  <2>2. p \in [Levels -> Layouts]
    BY DEF Layouts
  <2>3. OldChain(n) = [EmptyChain EXCEPT !.allocator = "v0", !.treasury = "v0",
                          !.treasuryMint = "circle", !.vault = v, !.position = p]
    BY DEF OldChain
  <2> HIDE DEF v, p
  <2>4. OldChain(n) = [allocator |-> "v0", treasury |-> "v0", treasuryMint |-> "circle",
           vault |-> v, position |-> p, atas |-> {}, strategy |-> FALSE, funded |-> FALSE,
           idleUsdc |-> FALSE, orphans |-> 0]
    BY <2>3 DEF EmptyChain
  <2> QED BY <2>1, <2>2, <2>4 DEF Chain, Layouts
<1>3. SetupType
  BY <1>1, <1>2, SetupAssumption DEF Init, SetupType
<1> QED BY <1>3, NoRunHolds DEF Init, SetupInv

(* Every step keeps the invariant. *)
LEMMA SetupStepInv == SetupInv /\ [Next]_vars => SetupInv'
<1> SUFFICES ASSUME SetupInv, [Next]_vars PROVE SetupInv'
  OBVIOUS
<1>0. SetupType /\ RunHolds(run, chain)
  BY DEF SetupInv
<1>a. Advances(chain, chain)
  BY DEF Advances
<1>1. ASSUME NEW s \in Scripts, start(s) PROVE SetupInv'
  <2>1. run' = [NoRun EXCEPT !.script = s, !.todo = Plan[s]] /\ UNCHANGED <<chain, inflight, faults>>
    BY <1>1 DEF start
  <2>2. Plan[s] \in Seq(Groups)
    BY PlanGroups
  <2>3. run' = [script |-> s, todo |-> Plan[s], txs |-> <<>>, fellBack |-> FALSE,
                  missing |-> {}, idle |-> FALSE]
    BY <2>1 DEF NoRun
  <2>4. /\ run' \in Run /\ run'.script = s /\ run'.todo = Plan[s] /\ run'.txs = <<>>
        /\ ~run'.idle
    BY <2>2, <2>3 DEF Run
  <2>5. s # "none"
    BY PlanFacts
  <2>6. \A n \in {"treasury", "vault"}, l \in Levels :
           Contains(Plan[s], <<n, l>>) => Head(Plan[s])[1] = "allocator"
    BY PlanGroups
  <2>7. RunHolds(run', chain)
    BY <2>4, <2>5, <2>6 DEF RunHolds
  <2> QED BY <1>0, <2>1, <2>7 DEF SetupInv, SetupType
<1>2. CASE looks
  BY <1>0, <1>2, LooksFacts DEF SetupInv, SetupType, looks
<1>3. CASE sends
  <2> DEFINE t == Head(run.txs)
  <2>1. run.txs # <<>> /\ t \in SetupTx /\ run.todo # <<>> /\ UNCHANGED <<inflight, faults>>
    BY <1>0, <1>3, AtHand DEF sends
  <2>2. CASE Accepts(t, chain)
    <3>1. chain' = Effect(t, chain) /\ GoOn
      BY <1>3, <2>2 DEF sends
    <3>2. chain' \in Chain /\ Advances(chain, chain') /\ \A r : Done(t, r, chain')
      BY <1>0, <2>1, <2>2, <3>1, EffectFacts DEF SetupType
    <3>3. RunHolds(run', chain')
      BY <1>0, <2>1, <3>1, <3>2, AfterEffect
    <3> QED BY <1>0, <2>1, <3>2, <3>3 DEF SetupInv, SetupType
  <2>3. CASE ~Accepts(t, chain)
    <3>1. chain' = chain /\ ((FoundAnyway(t) /\ GoOn) \/ GiveUp)
      BY <1>3, <2>3 DEF sends
    <3>2. FoundAnyway(t) => \A r : Done(t, r, chain)
      BY DEF FoundAnyway, Done, Atas
    <3>3. RunHolds(run', chain)
      BY <1>0, <1>a, <2>1, <3>1, <3>2, AfterEffect
    <3> QED BY <1>0, <2>1, <3>1, <3>3 DEF SetupInv, SetupType
  <2> QED BY <2>2, <2>3
<1>4. ASSUME NEW late \in BOOLEAN, fails(late) PROVE SetupInv'
  <2>1. run.todo # <<>> /\ GiveUp /\ faults' = faults - 1 /\ chain' = chain
    BY <1>4 DEF fails
  <2>2. \/ inflight' = inflight
        \/ run.txs # <<>> /\ inflight' = <<Head(run.txs)>>
    BY <1>4 DEF fails
  <2>3. inflight' = <<>> \/ \E t \in SetupTx : inflight' = <<t>>
    BY <1>0, <2>2, AtHand DEF SetupType
  <2>4. RunHolds(run', chain)
    <3>1. CASE run' = NoRun
      BY <3>1, NoRunHolds
    <3>2. CASE Head(run.todo)[1] = "treasury" /\ Passes(run, run') /\ run'.fellBack
      <4>1. Done(Head(run.todo), run', chain)
        BY <3>2 DEF Done, Atas
      <4> QED BY <1>0, <1>a, <2>1, <3>2, <4>1, PassHolds
    <3> QED BY <1>0, <2>1, <3>1, <3>2, GiveUpFacts
  <2>5. faults' \in Int
    BY <1>0, <2>1 DEF SetupType
  <2> QED BY <1>0, <2>1, <2>3, <2>4, <2>5 DEF SetupInv, SetupType
<1>5. CASE unconfirmed
  <2> DEFINE t == Head(run.txs)
  <2>1. run.txs # <<>> /\ t \in SetupTx /\ UNCHANGED inflight /\ faults' = faults - 1
    BY <1>0, <1>5, AtHand DEF unconfirmed
  <2>2. Accepts(t, chain) /\ chain' = Effect(t, chain) /\ (GoOn \/ GiveUp)
    BY <1>5 DEF unconfirmed
  <2>3. chain' \in Chain /\ Advances(chain, chain') /\ \A r : Done(t, r, chain')
    BY <1>0, <2>1, <2>2, EffectFacts DEF SetupType
  <2>4. RunHolds(run', chain')
    BY <1>0, <2>1, <2>2, <2>3, AfterEffect
  <2>5. faults' \in Int
    BY <1>0, <2>1 DEF SetupType
  <2> QED BY <1>0, <2>1, <2>3, <2>4, <2>5 DEF SetupInv, SetupType
<1>6. CASE landsLate
  <2>1. /\ inflight # <<>> /\ inflight' = <<>> /\ UNCHANGED <<run, faults>>
        /\ chain' = IF Accepts(inflight[1], chain) THEN Effect(inflight[1], chain) ELSE chain
    BY <1>6 DEF landsLate
  <2>2. inflight[1] \in SetupTx
    BY <1>0, <2>1 DEF SetupType
  <2>3. chain' \in Chain /\ Advances(chain, chain')
    BY <1>0, <1>a, <2>1, <2>2, EffectFacts DEF SetupType
  <2>4. RunHolds(run, chain')
    BY <1>0, <2>3, RunOutlives
  <2> QED BY <1>0, <2>1, <2>3, <2>4 DEF SetupInv, SetupType
<1>7. CASE expires
  BY <1>0, <1>7 DEF expires, SetupInv, SetupType
<1>8. CASE completes
  BY <1>0, <1>8, NoRunHolds DEF completes, SetupInv, SetupType
<1>9. CASE UNCHANGED vars
  BY <1>0, <1>9 DEF vars, SetupInv, SetupType
<1> QED BY <1>1, <1>2, <1>3, <1>4, <1>5, <1>6, <1>7, <1>8, <1>9 DEF Next

(* The set-up goes without a treasury only if something failed: on a new   *)
(* deployment the program has no reason to refuse it.                      *)
FallInv ==
    /\ faults <= MaxFaults
    /\ chain.treasury = "none" => chain.allocator \in {"none", "v1"}
    /\ run.txs # <<>> /\ Head(run.txs)[1] = "treasury" => "treasury_ata" \in chain.atas
    /\ run.fellBack /\ chain.treasury = "none" => faults < MaxFaults

(* A new deployment has no allocator, an old one has a treasury. *)
LEMMA FallInitInv == Init => FallInv
<1> SUFFICES ASSUME Init PROVE FallInv
  OBVIOUS
<1>1. run = NoRun /\ faults = MaxFaults /\ MaxFaults \in Nat
  BY SetupAssumption DEF Init
<1>2. NoRun.txs = <<>> /\ ~NoRun.fellBack
  BY DEF NoRun
<1>3. chain.treasury = "none" => chain.allocator = "none"
  <2>1. EmptyChain.allocator = "none"
    BY DEF EmptyChain
  <2>2. \A n \in OldWeights : OldChain(n).treasury = "v0"
    BY DEF OldChain, EmptyChain
  <2> QED BY <2>1, <2>2 DEF Init
<1> QED BY <1>1, <1>2, <1>3 DEF FallInv

(* The treasury's transaction comes up after that of its token account.    *)
LEMMA GoOnTreasury ==
    ASSUME NEW c, RunHolds(run, c), run.txs # <<>>, GoOn
    PROVE  /\ run'.fellBack = run.fellBack
           /\ run'.txs # <<>> /\ Head(run'.txs)[1] = "treasury"
                  => Head(run.txs) = <<"treasury_ata", 0>>
<1>1. run \in Run /\ run.todo \in Seq(Groups) /\ run.todo # <<>> /\ Head(run.todo) \in Groups
      /\ Head(run.todo)[1] \in SendNames
  BY ContainsTail DEF RunHolds, Run
<1>2. run'.fellBack = run.fellBack
  BY <1>1 DEF GoOn, Run
<1>3. CASE Passes(run, run')
  BY <1>2, <1>3 DEF Passes
<1>4. CASE run.txs = Txs(Head(run.todo)) /\ Proceeds(run, run')
  <2>1. run'.txs = <<Head(run.todo)>>
    BY <1>4 DEF Proceeds
  <2>2. Head(run.todo)[1] = "treasury" => Head(run.txs) = <<"treasury_ata", 0>>
    BY <1>1, <1>4, TxsFacts
  <2> QED BY <1>2, <2>1, <2>2
<1> QED BY <1>3, <1>4, GoOnFacts

(* A refusal of the treasury's transactions means that there is one.       *)
LEMMA TreasuryRefused ==
    ASSUME chain \in Chain, RunHolds(run, chain), FallInv, run.txs # <<>>,
           Head(run.todo)[1] = "treasury",
           ~Accepts(Head(run.txs), chain), ~FoundAnyway(Head(run.txs))
    PROVE  chain.treasury # "none"
<1> DEFINE g == Head(run.todo)
           t == Head(run.txs)
<1>1. run \in Run /\ run.todo \in Seq(Groups) /\ run.todo # <<>> /\ g \in Groups
      /\ g[1] \in SendNames /\ (run.txs = Txs(g) \/ run.txs = <<g>>)
  BY ContainsTail DEF RunHolds, Run
<1>2. Txs(g) = << <<"treasury_ata", 0>>, g >>
  BY <1>1, TxsFacts
<1>3. t = <<"treasury_ata", 0>> \/ t = g
  BY <1>1, <1>2
<1>4. t # <<"treasury_ata", 0>>
  BY DEF Accepts, FoundAnyway, Atas
<1>5. t[1] = "treasury" /\ "treasury_ata" \in chain.atas
  BY <1>3, <1>4 DEF FallInv
<1>6. ~Readable(chain) \/ chain.treasury # "none"
  BY <1>5 DEF Accepts, Atas
<1>7. chain.allocator # "none"
  <2>1. g = <<"treasury", g[2]>> /\ g[2] \in Levels
    BY <1>1 DEF Groups
  <2>2. Contains(run.todo, g)
    <3>1. 1 \in 1..Len(run.todo) /\ run.todo[1] = g
      BY <1>1
    <3> QED BY <3>1 DEF Contains
  <2> QED BY <2>1, <2>2 DEF RunHolds
<1> QED BY <1>6, <1>7 DEF FallInv, Readable

(* Every step keeps the invariant. *)
LEMMA FallStepInv == SetupInv /\ FallInv /\ [Next]_vars => FallInv'
<1> SUFFICES ASSUME SetupInv, FallInv, [Next]_vars PROVE FallInv'
  OBVIOUS
<1>0. /\ chain \in Chain /\ RunHolds(run, chain) /\ faults \in Int /\ MaxFaults \in Int
      /\ inflight = <<>> \/ \E t \in SetupTx : inflight = <<t>>
  BY SetupAssumption DEF SetupInv, SetupType
<1>a. NoRun.txs = <<>> /\ ~NoRun.fellBack
  BY DEF NoRun
<1>b. ASSUME NEW t \in SetupTx, Accepts(t, chain), chain' = Effect(t, chain)
      PROVE  /\ chain'.treasury = "none" =>
                    chain.treasury = "none" /\ chain'.allocator \in {"none", "v1"}
             /\ chain.atas \subseteq chain'.atas
             /\ t = <<"treasury_ata", 0>> => "treasury_ata" \in chain'.atas
  <2>1. /\ Advances(chain, chain') /\ \A r : Done(t, r, chain')
        /\ chain.allocator \in {"none", "v1"} => chain'.allocator \in {"none", "v1"}
    BY <1>0, <1>b, EffectFacts
  <2> QED BY <2>1 DEF Advances, FallInv, Done, Atas
<1>c. ASSUME GiveUp, run.todo # <<>>
      PROVE  run'.txs = <<>> /\ (run'.fellBack => Head(run.todo)[1] = "treasury")
  BY <1>0, <1>a, <1>c, GiveUpFacts DEF Passes
<1>1. ASSUME NEW s \in Scripts, start(s) PROVE FallInv'
  <2>1. run'.txs = <<>> /\ ~run'.fellBack /\ UNCHANGED <<chain, faults>>
    BY <1>1 DEF start, NoRun
  <2> QED BY <2>1 DEF FallInv
<1>2. CASE looks
  <2>1. UNCHANGED <<chain, faults>>
    BY <1>2 DEF looks
  <2>2. run'.fellBack => run.fellBack \/ chain.treasury # "none"
    BY <1>0, <1>2, LooksFacts
  <2>3. run'.txs # <<>> => Head(run'.txs)[1] # "treasury"
    <3>1. CASE run' = NoRun \/ Passes(run, run')
      BY <1>a, <3>1 DEF Passes
    <3> DEFINE g == Head(run.todo)
    <3>2. CASE run.todo # <<>> /\ run'.txs = Txs(g) /\ g[1] \in SendNames
      <4>1. g \in Groups
        BY <1>0, <3>2, ContainsTail DEF RunHolds, Run
      <4>2. \/ g[1] \notin {"treasury", "vault"} /\ Txs(g) = <<g>>
            \/ Txs(g) = << <<"treasury_ata", 0>>, g >>
            \/ Txs(g) = << <<"createMint", g[2]>>, g >>
        BY <3>2, <4>1, TxsFacts
      <4> QED BY <3>2, <4>2
    <3> QED BY <1>0, <1>2, <3>1, <3>2, LooksFacts
  <2> QED BY <2>1, <2>2, <2>3 DEF FallInv
<1>3. CASE sends
  <2> DEFINE t == Head(run.txs)
  <2>1. run.txs # <<>> /\ t \in SetupTx /\ run.todo # <<>> /\ UNCHANGED faults
    BY <1>0, <1>3, AtHand DEF sends
  <2>2. CASE Accepts(t, chain)
    <3>1. chain' = Effect(t, chain) /\ GoOn
      BY <1>3, <2>2 DEF sends
    <3> QED BY <1>0, <1>b, <2>1, <2>2, <3>1, GoOnTreasury DEF FallInv
  <2>3. CASE ~Accepts(t, chain) /\ FoundAnyway(t)
    <3>1. chain' = chain /\ GoOn /\ (t = <<"treasury_ata", 0>> => "treasury_ata" \in chain.atas)
      BY <1>3, <2>3 DEF sends, FoundAnyway
    <3> QED BY <1>0, <2>1, <3>1, GoOnTreasury DEF FallInv
  <2>4. CASE ~Accepts(t, chain) /\ ~FoundAnyway(t)
    <3>1. chain' = chain /\ GiveUp
      BY <1>3, <2>4 DEF sends
    <3>2. run'.fellBack => chain.treasury # "none"
      BY <1>0, <1>c, <2>1, <2>4, <3>1, TreasuryRefused
    <3> QED BY <1>c, <2>1, <3>1, <3>2 DEF FallInv
  <2> QED BY <2>2, <2>3, <2>4
<1>4. ASSUME NEW late \in BOOLEAN, fails(late) PROVE FallInv'
  <2>1. run.todo # <<>> /\ GiveUp /\ faults' = faults - 1 /\ chain' = chain
    BY <1>4 DEF fails
  <2> QED BY <1>0, <1>c, <2>1 DEF FallInv
<1>5. CASE unconfirmed
  <2> DEFINE t == Head(run.txs)
  <2>1. /\ run.txs # <<>> /\ t \in SetupTx /\ run.todo # <<>> /\ faults' = faults - 1
        /\ Accepts(t, chain) /\ chain' = Effect(t, chain) /\ (GoOn \/ GiveUp)
    BY <1>0, <1>5, AtHand DEF unconfirmed
  <2>2. run'.txs # <<>> /\ Head(run'.txs)[1] = "treasury" => "treasury_ata" \in chain'.atas
    BY <1>0, <1>b, <1>c, <2>1, GoOnTreasury
  <2>3. faults' < MaxFaults
    BY <1>0, <2>1 DEF FallInv
  <2> QED BY <1>0, <1>b, <2>1, <2>2, <2>3 DEF FallInv
<1>6. CASE landsLate
  <2>1. /\ inflight # <<>> /\ UNCHANGED <<run, faults>>
        /\ chain' = IF Accepts(inflight[1], chain) THEN Effect(inflight[1], chain) ELSE chain
    BY <1>6 DEF landsLate
  <2>2. inflight[1] \in SetupTx
    BY <1>0, <2>1
  <2>3. CASE Accepts(inflight[1], chain)
    BY <1>b, <2>1, <2>2, <2>3 DEF FallInv
  <2>4. CASE ~Accepts(inflight[1], chain)
    BY <2>1, <2>4 DEF FallInv
  <2> QED BY <2>3, <2>4
<1>7. CASE expires
  BY <1>7 DEF expires, FallInv
<1>8. CASE completes
  BY <1>8, <1>a DEF completes, FallInv
<1>9. CASE UNCHANGED vars
  BY <1>9 DEF vars, FallInv
<1> QED BY <1>1, <1>2, <1>3, <1>4, <1>5, <1>6, <1>7, <1>8, <1>9 DEF Next

(* DevnetSetup: a script that prints its closing line has done what it is  *)
(* for; setup-devnet may have done without the treasury, but then it has   *)
(* printed its warning, and some read or transaction, of this run or an    *)
(* earlier one, has failed.                                                *)
THEOREM CompletionIsTrue == Spec => []CompleteMeansDone
<1>1. SetupInv /\ FallInv => CompleteMeansDone
  <2> SUFFICES ASSUME SetupInv, FallInv, Completing PROVE Goal(run, chain)
    BY DEF CompleteMeansDone
  <2>1. RunHolds(run, chain) /\ run # NoRun /\ run.todo = <<>>
    BY DEF SetupInv, Completing
  <2>2. run.script # "none"
    BY <2>1 DEF RunHolds
  <2>3. run.script \in Scripts
    BY <2>1, <2>2 DEF RunHolds, Run
  <2>4. \A g \in Groups : ~Contains(run.todo, g)
    BY <2>1, ContainsOne
  <2>5. \A g \in Groups : Contains(Plan[run.script], g) => Done(g, run, chain)
    BY <2>1, <2>2, <2>4 DEF RunHolds
  <2>6. run.fellBack /\ chain.treasury = "none" => faults < MaxFaults
    BY DEF FallInv
  <2> QED BY <2>3, <2>5, <2>6, PlanReachesGoal
<1> QED BY <1>1, SetupInitInv, SetupStepInv, FallInitInv, FallStepInv, PTL DEF Spec

Made(l, c) == IF c.vault[l].layout # "none" THEN 1 ELSE 0

(* The share mints without a vault that the run accounts for: the mint     *)
(* made for the vault to come, unless somebody else made that vault; a     *)
(* vault that landed late has used up a mint too many.                     *)
Slack(txs, c) ==
    IF txs = <<>> THEN 0
    ELSE IF Head(txs)[1] = "createMint" THEN 0 - Made(Head(txs)[2], c)
    ELSE IF Head(txs)[1] = "vault" THEN 1 - Made(Head(txs)[2], c)
    ELSE 0

(* A mint that may still land. *)
MintLate(p) == IF p # <<>> /\ p[1][1] = "createMint" THEN 1 ELSE 0

(* On a new deployment. *)
OrphanHolds ==
    /\ chain.allocator \in {"none", "v1"}
    /\ chain.orphans + MintLate(inflight) <= (MaxFaults - faults) + Slack(run.txs, chain)

OrphanInv == origin = "none" => OrphanHolds

(* A run without a transaction accounts for none. *)
LEMMA SlackNone ==
    ASSUME NEW r, NEW c, r = NoRun \/ r.txs = <<>>
    PROVE  Slack(r.txs, c) = 0
  BY DEF NoRun, Slack

(* The orphans a run accounts for. *)
LEMMA SlackFacts ==
    ASSUME NEW txs, txs # <<>>, NEW c
    PROVE  /\ Slack(txs, c) \in {-1, 0, 1}
           /\ Head(txs)[1] = "createMint" => Slack(txs, c) = 0 - Made(Head(txs)[2], c)
           /\ Head(txs)[1] = "vault" => Slack(txs, c) = 1 - Made(Head(txs)[2], c)
           /\ Head(txs)[1] \notin {"createMint", "vault"} => Slack(txs, c) = 0
<1>1. \A l : Made(l, c) \in {0, 1}
  BY DEF Made
<1>2. CASE Head(txs)[1] = "createMint"
  BY <1>1, <1>2 DEF Slack
<1>3. CASE Head(txs)[1] = "vault"
  BY <1>1, <1>3 DEF Slack
<1>4. CASE Head(txs)[1] \notin {"createMint", "vault"}
  BY <1>4 DEF Slack
<1> QED BY <1>2, <1>3, <1>4

(* When a transaction other than a vault's has an effect, a run accounts   *)
(* for no fewer; when a vault's has, for one fewer at most.                *)
LEMMA SlackStays ==
    ASSUME NEW t \in SetupTx, NEW c \in Chain, Accepts(t, c), NEW txs, txs = <<>> \/ Head(txs) \in SetupTx
    PROVE  /\ Slack(txs, c) \in Int /\ Slack(txs, Effect(t, c)) \in Int
           /\ t[1] # "vault" => Slack(txs, Effect(t, c)) >= Slack(txs, c)
           /\ Slack(txs, Effect(t, c)) >= Slack(txs, c) - 1
<1>1. CASE txs = <<>>
  BY <1>1 DEF Slack
<1>2. CASE txs # <<>>
  <2>1. \A l \in Levels : t[1] # "vault" => Made(l, Effect(t, c)) <= Made(l, c)
    <3>1. \A l \in Levels : t # <<"vault", l>> \/ t[1] = "vault"
      OBVIOUS
    <3> QED BY <3>1, EffectFacts DEF Made
  <2>2. Head(txs)[2] \in Levels
    BY <1>2 DEF SetupTx
  <2>3. \A l : Made(l, Effect(t, c)) \in {0, 1} /\ Made(l, c) \in {0, 1}
    BY DEF Made
  <2> QED BY <1>2, <2>1, <2>2, <2>3, SlackFacts
<1> QED BY <1>1, <1>2

(* What GoOn leaves to account for. *)
LEMMA SlackGoesOn ==
    ASSUME NEW c, NEW d, RunHolds(run, c), run.txs # <<>>, GoOn
    PROVE  /\ Head(run.txs)[1] = "createMint" =>
                 Slack(run'.txs, d) = 1 - Made(Head(run.txs)[2], d)
           /\ Head(run.txs)[1] # "createMint" => Slack(run'.txs, d) = 0
<1> DEFINE g == Head(run.todo)
<1>0. g \in Groups /\ g[1] \in SendNames /\ run.txs # <<>>
  <2>1. run.todo # <<>> /\ run.todo \in Seq(Groups) /\ g[1] \in SendNames
    BY DEF RunHolds, Run
  <2> QED BY <2>1, ContainsTail
<1>1. CASE Head(run.txs) = g /\ Passes(run, run')
  <2>1. run'.txs = <<>>
    BY <1>1 DEF Passes
  <2>2. Head(run.txs)[1] # "createMint"
    BY <1>0, <1>1 DEF SendNames
  <2> QED BY <2>1, <2>2, SlackNone
<1>2. CASE run.txs = Txs(g) /\ Len(run.txs) = 2 /\ Proceeds(run, run')
  <2>1. run'.txs = <<g>> /\ run'.txs # <<>> /\ Head(run'.txs) = g
    BY <1>2 DEF Proceeds
  <2>2. CASE g[1] = "vault"
    <3>1. Head(run.txs) = <<"createMint", g[2]>>
      BY <1>0, <1>2, <2>2, TxsFacts
    <3> QED BY <2>1, <2>2, <3>1, SlackFacts
  <2>3. CASE g[1] # "vault"
    <3>0. Txs(g) # <<g>>
      BY <1>2
    <3>1. g[1] = "treasury" /\ Txs(g) = << <<"treasury_ata", 0>>, g >>
      BY <1>0, <3>0, <2>3, TxsFacts
    <3>2. Head(run.txs) = <<"treasury_ata", 0>>
      BY <1>2, <3>1
    <3> QED BY <2>1, <3>1, <3>2, SlackFacts
  <2> QED BY <2>2, <2>3
<1> QED BY <1>1, <1>2, GoOnFacts

(* A run that is given up accounts for none. *)
LEMMA SlackGivenUp ==
    ASSUME NEW c, NEW d, RunHolds(run, c), run.todo # <<>>, GiveUp
    PROVE  Slack(run'.txs, d) = 0
  BY GiveUpFacts, SlackNone DEF Passes

(* A vault that is refused exists already. *)
LEMMA VaultRefused ==
    ASSUME RunHolds(run, chain), run.txs # <<>>, chain.allocator \in {"none", "v1"},
           Head(run.txs)[1] = "vault", ~Accepts(Head(run.txs), chain)
    PROVE  Made(Head(run.txs)[2], chain) = 1
<1> DEFINE g == Head(run.todo)
<1>1. /\ run.todo \in Seq(Groups) /\ run.todo # <<>> /\ g[1] \in SendNames
      /\ run.txs = Txs(g) \/ run.txs = <<g>>
  BY DEF RunHolds, Run
<1>2. g \in Groups /\ Contains(run.todo, g)
  <2>1. Len(run.todo) \in Nat /\ Len(run.todo) >= 1 /\ g = run.todo[1]
    BY <1>1
  <2>2. 1 \in 1..Len(run.todo)
    BY <2>1
  <2> QED BY <1>1, <2>1, <2>2, ContainsTail DEF Contains
<1>3. Head(run.txs) = g
  <2>1. Txs(g) = <<g>> \/ Head(Txs(g))[1] \in {"treasury_ata", "createMint"}
    BY <1>1, <1>2, TxsFacts
  <2> QED BY <1>1, <2>1
<1>4. g = <<"vault", g[2]>> /\ g[2] \in Levels
  BY <1>2, <1>3 DEF Groups
<1>5. chain.allocator # "none"
  BY <1>2, <1>3, <1>4 DEF RunHolds
<1>6. Readable(chain)
  BY <1>5 DEF Readable
<1> QED BY <1>3, <1>6 DEF Accepts, Made, Atas

(* What the invariant says of the counters. *)
LEMMA SetupCounts ==
    ASSUME SetupInv
    PROVE  /\ chain \in Chain /\ RunHolds(run, chain) /\ faults \in Int /\ MaxFaults \in Int
           /\ chain.orphans \in Int
           /\ inflight = <<>> \/ \E t \in SetupTx : inflight = <<t>>
<1>1. /\ chain \in Chain /\ RunHolds(run, chain) /\ faults \in Int
      /\ inflight = <<>> \/ \E t \in SetupTx : inflight = <<t>>
  BY DEF SetupInv, SetupType
<1>2. chain.orphans \in Int
  BY <1>1 DEF Chain
<1>3. MaxFaults \in Int
  BY SetupAssumption
<1> QED BY <1>1, <1>2, <1>3

(* At the start there are no orphans. *)
LEMMA OrphanInitInv == Init => OrphanInv
<1> SUFFICES ASSUME Init, origin = "none" PROVE OrphanHolds
  BY DEF OrphanInv
<1>1. chain.allocator = "none" /\ origin = chain.allocator
  BY DEF Init
<1>2. \A n : OldChain(n).allocator = "v0"
  BY DEF OldChain, EmptyChain
<1>3. chain = EmptyChain
  BY <1>1, <1>2 DEF Init
<1>4. Slack(run.txs, chain) = 0 /\ MintLate(inflight) = 0
  BY SlackNone DEF Init, MintLate
<1> QED BY <1>1, <1>3, <1>4, SetupAssumption DEF Init, OrphanHolds, EmptyChain

(* Every step keeps the count. *)
LEMMA OrphanStepInv == SetupInv /\ OrphanInv /\ [Next]_vars => OrphanInv'
<1> SUFFICES ASSUME SetupInv, OrphanInv, [Next]_vars, origin' = "none" PROVE OrphanHolds'
  BY DEF OrphanInv
<1>0. /\ chain \in Chain /\ RunHolds(run, chain) /\ faults \in Int /\ MaxFaults \in Int
      /\ chain.orphans \in Int
      /\ inflight = <<>> \/ \E t \in SetupTx : inflight = <<t>>
  BY SetupCounts
<1>a. origin = "none"
  BY DEF Next, start, looks, sends, fails, unconfirmed, landsLate, expires, completes, vars
<1>b. OrphanHolds
  BY <1>a DEF OrphanInv
<1>c. /\ Slack(run.txs, chain) \in {-1, 0, 1} /\ MintLate(inflight) \in {0, 1}
      /\ MintLate(<<>>) = 0
  BY SlackFacts, SlackNone DEF MintLate
<1>1. ASSUME NEW s \in Scripts, start(s) PROVE OrphanHolds'
  <2>1. run'.txs = <<>> /\ run = NoRun /\ UNCHANGED <<chain, inflight, faults>>
    BY <1>1 DEF start, NoRun
  <2>2. Slack(run.txs, chain) = 0 /\ Slack(run'.txs, chain) = 0
    BY <2>1, SlackNone
  <2> QED BY <1>b, <2>1, <2>2 DEF OrphanHolds
<1>2. CASE looks
  <2>1. UNCHANGED <<chain, inflight, faults>>
    BY <1>2 DEF looks
  <2>2. run.txs = <<>> /\ run.todo # <<>>
    BY <1>2 DEF looks
  <2>3. Slack(run'.txs, chain) = 0
    <3>1. CASE run' = NoRun \/ Passes(run, run')
      BY <3>1, SlackNone DEF Passes
    <3> DEFINE g == Head(run.todo)
    <3>2. CASE /\ run'.txs = Txs(g)
               /\ ~Skips(g, chain) /\ g[1] \in SendNames
      <4>1. g \in Groups
        BY <1>0, <2>2, ContainsTail DEF RunHolds, Run
      <4>2. run'.txs = Txs(g)
        BY <3>2
      <4>3. CASE g[1] = "vault"
        <5>1. Txs(g) # <<>> /\ Head(Txs(g)) = <<"createMint", g[2]>>
          BY <3>2, <4>1, <4>3, TxsFacts
        <5>2. Made(g[2], chain) = 0
          BY <3>2, <4>3 DEF Skips, Made, Atas
        <5> QED BY <4>2, <5>1, <5>2, SlackFacts
      <4>4. CASE g[1] = "treasury"
        <5>1. Txs(g) # <<>> /\ Head(Txs(g)) = <<"treasury_ata", 0>>
          BY <3>2, <4>1, <4>4, TxsFacts
        <5> QED BY <4>2, <5>1, SlackFacts
      <4>5. CASE g[1] \notin {"treasury", "vault"}
        <5>1. Txs(g) # <<>> /\ Head(Txs(g)) = g /\ g[1] # "createMint"
          BY <3>2, <4>1, <4>5, TxsFacts DEF SendNames
        <5> QED BY <4>2, <4>5, <5>1, SlackFacts
      <4> QED BY <4>3, <4>4, <4>5
    <3> QED BY <1>0, <1>2, <3>1, <3>2, LooksFacts
  <2>4. Slack(run.txs, chain) = 0
    BY <2>2, SlackNone
  <2> QED BY <1>b, <2>1, <2>3, <2>4 DEF OrphanHolds
<1> DEFINE t == Head(run.txs)
           e == Effect(t, chain)
<1>3. ASSUME run.txs # <<>>
      PROVE  t \in SetupTx /\ t[2] \in Levels /\ run.todo # <<>>
  BY <1>0, <1>3, AtHand DEF SetupTx
(* What an accepted transaction changes in the count. *)
<1>4. ASSUME run.txs # <<>>, Accepts(t, chain)
      PROVE  /\ e.allocator \in {"none", "v1"} /\ e.orphans \in Int
             /\ t[1] = "createMint" =>
                   /\ e.orphans <= chain.orphans + 1
                   /\ Slack(run.txs, chain) = 0 - Made(t[2], chain)
                   /\ Made(t[2], e) <= Made(t[2], chain)
             /\ t[1] = "vault" =>
                   e.orphans = chain.orphans - 1 /\ Slack(run.txs, chain) = 1
             /\ t[1] \notin {"createMint", "vault"} =>
                   e.orphans = chain.orphans /\ Slack(run.txs, chain) = 0
  <2>1. t \in SetupTx /\ t[2] \in Levels
    BY <1>3, <1>4
  <2>2. e \in Chain /\ e.orphans \in Int /\ e.allocator \in {"none", "v1"}
    BY <1>0, <1>b, <1>4, <2>1, EffectFacts DEF Chain, OrphanHolds
  <2>3. CASE t[1] = "createMint"
    <3>1. e.orphans <= chain.orphans + 1
      BY <1>0, <1>4, <2>1, <2>3, EffectFacts
    <3>2. \A l \in Levels : e.vault[l].layout # "none" => chain.vault[l].layout # "none" \/ t = <<"vault", l>>
      BY <1>0, <1>4, <2>1, EffectFacts
    <3>3. \A l \in Levels : t # <<"vault", l>>
      BY <2>3
    <3>4. Made(t[2], e) <= Made(t[2], chain)
      BY <2>1, <3>2, <3>3 DEF Made
    <3>5. Slack(run.txs, chain) = 0 - Made(t[2], chain)
      BY <1>4, <2>3, SlackFacts
    <3> QED BY <2>2, <2>3, <3>1, <3>4, <3>5
  <2>4. CASE t[1] = "vault"
    <3>1. e.orphans = chain.orphans - 1
      BY <1>0, <1>4, <2>1, <2>4, EffectFacts
    <3>2. Made(t[2], chain) = 0
      BY <1>4, <2>4 DEF Accepts, Made, Atas
    <3>3. Slack(run.txs, chain) = 1
      BY <1>4, <2>4, <3>2, SlackFacts
    <3> QED BY <2>2, <2>4, <3>1, <3>3
  <2>5. CASE t[1] \notin {"createMint", "vault"}
    <3>1. e.orphans = chain.orphans
      BY <1>0, <1>4, <2>1, <2>5, EffectFacts
    <3>2. Slack(run.txs, chain) = 0
      BY <1>4, <2>5, SlackFacts
    <3> QED BY <2>2, <2>5, <3>1, <3>2
  <2> QED BY <2>3, <2>4, <2>5
<1> HIDE DEF t, e
<1>d. \A l, c : Made(l, c) \in {0, 1}
  BY DEF Made
<1>5. CASE sends
  <2>1. run.txs # <<>> /\ UNCHANGED <<inflight, faults>>
    BY <1>5 DEF sends
  <2>2. CASE Accepts(t, chain)
    <3>1. chain' = e /\ GoOn
      BY <1>5, <2>2 DEF sends, t, e
    <3>2. /\ t[1] = "createMint" => Slack(run'.txs, e) = 1 - Made(t[2], e)
          /\ t[1] # "createMint" => Slack(run'.txs, e) = 0
      BY <1>0, <2>1, <3>1, SlackGoesOn DEF t
    <3>3. e.orphans - Slack(run'.txs, e) <= chain.orphans - Slack(run.txs, chain)
      BY <1>0, <1>4, <1>d, <2>1, <2>2, <3>2
    <3>4. Slack(run'.txs, e) \in Int
      BY <1>d, <3>2
    <3> QED BY <1>0, <1>b, <1>c, <1>4, <2>1, <2>2, <3>1, <3>3, <3>4 DEF OrphanHolds
  <2>3. CASE ~Accepts(t, chain)
    <3>1. chain' = chain /\ ((FoundAnyway(t) /\ GoOn) \/ GiveUp)
      BY <1>5, <2>3 DEF sends, t
    <3>2. t[1] # "createMint"
      BY <2>3 DEF Accepts, Atas
    <3>3. Slack(run'.txs, chain) = 0
      BY <1>0, <1>3, <2>1, <3>1, <3>2, SlackGoesOn, SlackGivenUp DEF t
    <3>4. Slack(run.txs, chain) = 0
      <4>1. CASE t[1] = "vault"
        <5>1. Made(t[2], chain) = 1
          BY <1>0, <1>b, <2>1, <2>3, <4>1, VaultRefused DEF t, OrphanHolds
        <5> QED BY <2>1, <4>1, <5>1, SlackFacts DEF t
      <4>2. CASE t[1] # "vault"
        BY <2>1, <3>2, <4>2, SlackFacts DEF t
      <4> QED BY <4>1, <4>2
    <3> QED BY <1>b, <2>1, <3>1, <3>3, <3>4 DEF OrphanHolds
  <2> QED BY <2>2, <2>3
<1>6. ASSUME NEW late \in BOOLEAN, fails(late) PROVE OrphanHolds'
  <2>1. run.todo # <<>> /\ GiveUp /\ faults' = faults - 1 /\ chain' = chain
    BY <1>6 DEF fails
  <2>2. \/ inflight' = inflight
        \/ run.txs # <<>> /\ inflight = <<>> /\ inflight' = <<t>>
    BY <1>6 DEF fails, t
  <2>3. Slack(run'.txs, chain) = 0
    BY <1>0, <2>1, SlackGivenUp
  <2>4. MintLate(inflight') + Slack(run.txs, chain) <= MintLate(inflight) + 1
    <3>1. CASE inflight' = inflight
      BY <1>c, <3>1
    <3>2. CASE run.txs # <<>> /\ inflight = <<>> /\ inflight' = <<t>> /\ t[1] = "createMint"
      <4>1. Slack(run.txs, chain) = 0 - Made(t[2], chain)
        BY <3>2, SlackFacts DEF t
      <4>2. MintLate(inflight') = 1
        BY <3>2 DEF MintLate
      <4> QED BY <1>c, <1>d, <3>2, <4>1, <4>2
    <3>3. CASE run.txs # <<>> /\ inflight = <<>> /\ inflight' = <<t>> /\ t[1] # "createMint"
      <4>1. MintLate(inflight') = 0
        BY <3>3 DEF MintLate
      <4> QED BY <1>c, <4>1
    <3> QED BY <2>2, <3>1, <3>2, <3>3
  <2>5. MintLate(inflight') \in {0, 1}
    BY DEF MintLate
  <2> QED BY <1>0, <1>b, <1>c, <2>1, <2>3, <2>4, <2>5 DEF OrphanHolds
<1>7. CASE unconfirmed
  <2>1. /\ run.txs # <<>> /\ UNCHANGED inflight /\ faults' = faults - 1
        /\ Accepts(t, chain) /\ chain' = e /\ IF t[1] \in Atas THEN GoOn ELSE GiveUp
    BY <1>7 DEF unconfirmed, t, e
  <2>2. Slack(run'.txs, e) = 0
    <3>1. t[1] \in Atas => t[1] # "createMint"
      BY DEF Atas
    <3> QED BY <1>0, <1>3, <2>1, <3>1, SlackGoesOn, SlackGivenUp DEF t
  <2>3. e.orphans <= chain.orphans - Slack(run.txs, chain) + 1
    BY <1>0, <1>4, <1>d, <2>1
  <2> QED BY <1>0, <1>b, <1>c, <1>4, <2>1, <2>2, <2>3 DEF OrphanHolds
<1>8. CASE landsLate
  <2> DEFINE u == inflight[1]
             h == Effect(u, chain)
  <2>1. /\ inflight # <<>> /\ inflight' = <<>> /\ UNCHANGED <<run, faults>>
        /\ chain' = IF Accepts(u, chain) THEN h ELSE chain
    BY <1>8 DEF landsLate
  <2>2. u \in SetupTx
    BY <1>0, <2>1
  <2>3. MintLate(inflight) = (IF u[1] = "createMint" THEN 1 ELSE 0)
    BY <2>1 DEF MintLate
  <2>4. CASE ~Accepts(u, chain)
    BY <1>0, <1>b, <1>c, <2>1, <2>4 DEF OrphanHolds
  <2>5. CASE Accepts(u, chain)
    <3>1. run.txs = <<>> \/ Head(run.txs) \in SetupTx
      BY <1>0, AtHand
    <3>2. /\ Slack(run.txs, chain) \in Int /\ Slack(run.txs, h) \in Int
          /\ u[1] # "vault" => Slack(run.txs, h) >= Slack(run.txs, chain)
          /\ Slack(run.txs, h) >= Slack(run.txs, chain) - 1
      BY <1>0, <2>2, <2>5, <3>1, SlackStays
    <3>3. h \in Chain /\ h.allocator \in {"none", "v1"} /\ h.orphans \in Int
      BY <1>0, <1>b, <2>2, <2>5, EffectFacts DEF Chain, OrphanHolds
    <3>4. /\ u[1] \notin {"createMint", "vault"} => h.orphans = chain.orphans
          /\ u[1] = "createMint" => h.orphans <= chain.orphans + 1
          /\ u[1] = "vault" => h.orphans = chain.orphans - 1
      BY <1>0, <2>2, <2>5, EffectFacts
    <3> HIDE DEF u, h
    <3>5. h.orphans - Slack(run.txs, h)
             <= chain.orphans + MintLate(inflight) - Slack(run.txs, chain)
      BY <1>0, <2>3, <3>2, <3>3, <3>4
    <3> QED BY <1>0, <1>b, <1>c, <2>1, <2>5, <3>2, <3>3, <3>5 DEF OrphanHolds
  <2> QED BY <2>4, <2>5
<1>9. CASE expires
  <2>1. inflight' = <<>> /\ UNCHANGED <<chain, run, faults>>
    BY <1>9 DEF expires
  <2> QED BY <1>0, <1>b, <1>c, <2>1 DEF OrphanHolds
<1>10. CASE completes
  <2>1. run.todo = <<>> /\ run' = NoRun /\ UNCHANGED <<chain, inflight, faults>>
    BY <1>10 DEF completes, Completing
  <2>2. run.txs = <<>>
    BY <1>0, <2>1 DEF RunHolds
  <2>3. Slack(run.txs, chain) = 0 /\ Slack(run'.txs, chain) = 0
    BY <2>1, <2>2, SlackNone
  <2> QED BY <1>b, <2>1, <2>3 DEF OrphanHolds
<1>11. CASE UNCHANGED vars
  BY <1>b, <1>11 DEF vars, OrphanHolds
<1> QED BY <1>1, <1>2, <1>5, <1>6, <1>7, <1>8, <1>9, <1>10, <1>11 DEF Next

(* DevnetSetup: on a new deployment, a share mint without a vault is due   *)
(* to a transaction that failed.                                           *)
THEOREM OrphansAreFaults == Spec => []OrphansComeFromFaults
<1>1. SetupInv /\ OrphanInv => OrphansComeFromFaults
  <2> SUFFICES ASSUME SetupInv, OrphanHolds
               PROVE  chain.orphans <= (MaxFaults - faults) + (IF run.txs # <<>> THEN 1 ELSE 0)
    BY DEF OrphanInv, OrphansComeFromFaults
  <2>1. /\ chain.orphans \in Int /\ faults \in Int /\ MaxFaults \in Int
        /\ chain.orphans + MintLate(inflight) <= (MaxFaults - faults) + Slack(run.txs, chain)
    BY SetupCounts DEF OrphanHolds
  <2>4. MintLate(inflight) \in {0, 1}
    BY DEF MintLate
  <2>2. CASE run.txs = <<>>
    <3>1. Slack(run.txs, chain) = 0
      BY <2>2, SlackNone
    <3> QED BY <2>1, <2>2, <2>4, <3>1
  <2>3. CASE run.txs # <<>>
    <3>1. Slack(run.txs, chain) \in {-1, 0, 1}
      BY <2>3, SlackFacts
    <3> QED BY <2>1, <2>3, <2>4, <3>1
  <2> QED BY <2>2, <2>3
<1> QED BY <1>1, SetupInitInv, SetupStepInv, OrphanInitInv, OrphanStepInv, PTL DEF Spec

-----------------------------------------------------------------------------
(* The drills *)

(* The names of scripts, steps, operators and keepers. *)
Name ==
    {"none", "gate", "phase_b", "seed", "halt", "resume", "raise_caps", "end",
     "1", "2", "3", "4", "4 balance", "4 deposit", "5", "6", "6 request", "7", "7 flag",
     "7 halt", "7 fetch", "7 withdraw", "7 resume", "8", "9", "9 halt", "9 check", "9 vault",
     "9 give up", "9 deposit", "9 resume", "9 verify", "10",
     "17", "17 update", "17 verify", "17 vault", "17 balance", "17 deposit", "17 restore",
     "18", "18 verify", "18 restore", "18 check", "19", "20", "20c",
     "1 deposit", "2 allocate", "operator", "original", "temp"}

(* The transactions of the drills. *)
DrillTx ==
    ({"deposit", "request", "withdraw", "resume", "cap", "whitelist", "allocate"} \X Int)
        \cup ({"halt", "resume", "keeper"} \X Name)

Site ==
    [haltedBy : Name, shares : Int, pending : Int, held : Int, cap : Int,
     keeper : Name, listed : BOOLEAN]

Drill ==
    [script : Name, at : Name, failed : SUBSET Name, wasHalted : BOOLEAN,
     amount : Int, unseen : BOOLEAN, haunted : BOOLEAN, budget : Int]

DrillType ==
    /\ site \in Site
    /\ drill \in Drill
    /\ limbo = <<>> \/ \E t \in DrillTx : limbo = <<t>>
    /\ mishaps \in Int

(* Each name is one. *)
LEMMA NamesAre ==
    /\ "none" \in Name /\ "gate" \in Name /\ "phase_b" \in Name /\ "seed" \in Name
    /\ "halt" \in Name /\ "resume" \in Name /\ "raise_caps" \in Name /\ "end" \in Name
    /\ "1" \in Name /\ "2" \in Name /\ "3" \in Name /\ "4" \in Name
    /\ "4 balance" \in Name /\ "4 deposit" \in Name /\ "5" \in Name /\ "6" \in Name
    /\ "6 request" \in Name /\ "7" \in Name /\ "7 flag" \in Name /\ "7 halt" \in Name
    /\ "7 fetch" \in Name /\ "7 withdraw" \in Name /\ "7 resume" \in Name /\ "8" \in Name
    /\ "9" \in Name /\ "9 halt" \in Name /\ "9 check" \in Name /\ "9 vault" \in Name
    /\ "9 give up" \in Name /\ "9 deposit" \in Name /\ "9 resume" \in Name
    /\ "9 verify" \in Name /\ "10" \in Name
    /\ "17" \in Name /\ "17 update" \in Name /\ "17 verify" \in Name /\ "17 vault" \in Name
    /\ "17 balance" \in Name /\ "17 deposit" \in Name /\ "17 restore" \in Name
    /\ "18" \in Name /\ "18 verify" \in Name /\ "18 restore" \in Name /\ "18 check" \in Name
    /\ "19" \in Name /\ "20" \in Name /\ "20c" \in Name
    /\ "1 deposit" \in Name /\ "2 allocate" \in Name /\ "operator" \in Name
    /\ "original" \in Name /\ "temp" \in Name
  BY DEF Name

(* A transaction leaves the fields that are not its own. *)
LEMMA LandedFacts ==
    ASSUME NEW t \in DrillTx, NEW c \in Site
    PROVE  /\ Landed(t, c) \in Site
           /\ t[1] \notin {"halt", "resume"} => Landed(t, c).haltedBy = c.haltedBy
           /\ t[1] = "resume" => Landed(t, c).haltedBy = "none"
           /\ t[1] \notin {"request", "withdraw"} => Landed(t, c).pending = c.pending
           /\ t[1] = "withdraw" => Landed(t, c).pending = 0
           /\ t[1] # "cap" => Landed(t, c).cap = c.cap
           /\ t[1] = "cap" => Landed(t, c).cap = t[2]
           /\ t[1] # "keeper" => Landed(t, c).keeper = c.keeper
           /\ t[1] = "keeper" => Landed(t, c).keeper = t[2]
<1>0. t[1] \notin {"halt", "resume", "keeper"} => t[2] \in Int
  BY DEF DrillTx
<1>1. CASE t[1] = "deposit"
  <2>1. Landed(t, c) = [c EXCEPT !.shares = c.shares + t[2], !.held = c.held + t[2]]
    BY <1>1 DEF Landed
  <2>2. c.shares + t[2] \in Int /\ c.held + t[2] \in Int
    BY <1>0, <1>1 DEF Site
  <2>3. PICK a \in Int, b \in Int : Landed(t, c) = [c EXCEPT !.shares = a, !.held = b]
    BY <2>1, <2>2
  <2>4. Landed(t, c) \in Site
    BY <2>3 DEF Site
  <2>5. /\ Landed(t, c).haltedBy = c.haltedBy /\ Landed(t, c).pending = c.pending
        /\ Landed(t, c).cap = c.cap /\ Landed(t, c).keeper = c.keeper
    BY <2>3 DEF Site
  <2> QED BY <1>1, <2>4, <2>5
<1>2. CASE t[1] = "request"
  BY <1>2 DEF Landed, Site, DrillTx
<1>3. CASE t[1] = "withdraw"
  <2>1. Landed(t, c) = [c EXCEPT !.shares = c.shares - c.pending,
                                 !.held = c.held - c.pending, !.pending = 0]
    BY <1>3 DEF Landed
  <2>2. c.shares - c.pending \in Int /\ c.held - c.pending \in Int
    BY DEF Site
  <2>3. PICK a \in Int, b \in Int :
           Landed(t, c) = [c EXCEPT !.shares = a, !.held = b, !.pending = 0]
    BY <2>1, <2>2
  <2>4. [c EXCEPT !.shares = a, !.held = b] \in Site
    BY DEF Site
  <2>6. PICK e \in Site : /\ Landed(t, c) = [e EXCEPT !.pending = 0]
                          /\ e.haltedBy = c.haltedBy /\ e.cap = c.cap /\ e.keeper = c.keeper
    <3>1. [c EXCEPT !.shares = a, !.held = b, !.pending = 0]
             = [[c EXCEPT !.shares = a, !.held = b] EXCEPT !.pending = 0]
      BY DEF Site
    <3>2. /\ [c EXCEPT !.shares = a, !.held = b].haltedBy = c.haltedBy
          /\ [c EXCEPT !.shares = a, !.held = b].cap = c.cap
          /\ [c EXCEPT !.shares = a, !.held = b].keeper = c.keeper
      BY DEF Site
    <3> QED BY <2>3, <2>4, <3>1, <3>2
  <2>7. Landed(t, c) \in Site
    BY <2>6 DEF Site
  <2>5. /\ Landed(t, c).haltedBy = c.haltedBy /\ Landed(t, c).pending = 0
        /\ Landed(t, c).cap = c.cap /\ Landed(t, c).keeper = c.keeper
    BY <2>6 DEF Site
  <2> QED BY <1>3, <2>7, <2>5
<1>4. CASE t[1] = "halt"
  BY <1>4 DEF Landed, Site, DrillTx
<1>5. CASE t[1] = "resume"
  <2>1. Landed(t, c) = [c EXCEPT !.haltedBy = "none"]
    BY <1>5 DEF Landed
  <2>2. Landed(t, c) \in Site
    <3>1. PICK s \in Name : Landed(t, c) = [c EXCEPT !.haltedBy = s]
      BY <2>1, NamesAre
    <3> QED BY <3>1 DEF Site
  <2>3. /\ Landed(t, c).haltedBy = "none" /\ Landed(t, c).pending = c.pending
        /\ Landed(t, c).cap = c.cap /\ Landed(t, c).keeper = c.keeper
    BY <2>1 DEF Site
  <2> QED BY <1>5, <2>2, <2>3
<1>6. CASE t[1] = "cap"
  BY <1>6 DEF Landed, Site, DrillTx
<1>7. CASE t[1] = "keeper"
  BY <1>7 DEF Landed, Site, DrillTx
<1>8. CASE t[1] = "whitelist"
  BY <1>8 DEF Landed, Site, DrillTx
<1>9. CASE t[1] = "allocate"
  BY <1>9 DEF Landed, Site, DrillTx
<1> QED BY <1>1, <1>2, <1>3, <1>4, <1>5, <1>6, <1>7, <1>8, <1>9 DEF DrillTx

(* A step of a script changes what it names and nothing else. *)
LEMMA GoFacts ==
    ASSUME drill \in Drill
    PROVE  \A step \in Name :
              /\ Go(step) \in Drill /\ Go(step).at = step
              /\ Go(step).script = drill.script /\ Go(step).failed = drill.failed
              /\ Go(step).unseen = drill.unseen /\ Go(step).haunted = drill.haunted
              /\ Go(step).budget = drill.budget /\ Go(step).wasHalted = drill.wasHalted
  BY DEF Go, Drill

(* A failure is on record from then on. *)
LEMMA FailFacts ==
    ASSUME drill \in Drill
    PROVE  \A name \in Name, step \in Name :
              /\ Fail(name, step) \in Drill /\ Fail(name, step).at = step
              /\ Fail(name, step).script = drill.script
              /\ name \in Fail(name, step).failed /\ Fail(name, step).failed # {}
              /\ drill.failed \subseteq Fail(name, step).failed
              /\ Fail(name, step).haunted = drill.haunted
              /\ Fail(name, step).budget = drill.budget
<1> SUFFICES ASSUME NEW name \in Name, NEW step \in Name
             PROVE  /\ Fail(name, step) \in Drill /\ Fail(name, step).at = step
                    /\ Fail(name, step).script = drill.script
                    /\ name \in Fail(name, step).failed
                    /\ drill.failed \subseteq Fail(name, step).failed
                    /\ Fail(name, step).haunted = drill.haunted
                    /\ Fail(name, step).budget = drill.budget
  OBVIOUS
<1> DEFINE f == drill.failed \cup {name}
<1>1. f \in SUBSET Name /\ name \in f /\ drill.failed \subseteq f
  BY DEF Drill
<1>2. Fail(name, step) = [drill EXCEPT !.at = step, !.failed = f]
  BY DEF Fail
<1> HIDE DEF f
<1>3. [drill EXCEPT !.at = step] \in Drill
  BY DEF Drill
<1>4. PICK d \in Drill : /\ d.at = step /\ d.script = drill.script
                        /\ d.haunted = drill.haunted /\ d.budget = drill.budget
                        /\ Fail(name, step) = [d EXCEPT !.failed = f]
  <2>1. /\ [drill EXCEPT !.at = step].at = step
        /\ [drill EXCEPT !.at = step].script = drill.script
        /\ [drill EXCEPT !.at = step].haunted = drill.haunted
        /\ [drill EXCEPT !.at = step].budget = drill.budget
    BY DEF Drill
  <2>2. [drill EXCEPT !.at = step, !.failed = f]
           = [[drill EXCEPT !.at = step] EXCEPT !.failed = f]
    BY DEF Drill
  <2> QED BY <1>2, <1>3, <2>1, <2>2
<1>5. /\ Fail(name, step) \in Drill /\ Fail(name, step).at = step
      /\ Fail(name, step).script = drill.script /\ Fail(name, step).failed = f
      /\ Fail(name, step).haunted = drill.haunted
      /\ Fail(name, step).budget = drill.budget
  BY <1>1, <1>4 DEF Drill
<1> QED BY <1>1, <1>5

(* No script is under way. *)
LEMMA NoDrillFacts == NoDrill \in Drill /\ NoDrill.script = "none"
<1>1. NoDrill.script = "none"
  BY DEF NoDrill
<1>2. {} \in SUBSET Name /\ "none" \in Name /\ "end" \in Name
  BY NamesAre
<1>3. NoDrill \in Drill
  BY <1>2 DEF NoDrill, Drill
<1> QED BY <1>1, <1>3

(* The run that begins(s) starts. *)
Begun(s, step, h, b) ==
    [NoDrill EXCEPT !.script = s, !.at = step, !.haunted = h, !.budget = b]

(* It is of the type of a run, and is as it was started. *)
LEMMA BeginFacts ==
    ASSUME NEW s \in Name, NEW step \in Name, NEW h \in BOOLEAN, NEW b \in Int
    PROVE  /\ Begun(s, step, h, b) \in Drill
           /\ Begun(s, step, h, b).script = s /\ Begun(s, step, h, b).at = step
           /\ Begun(s, step, h, b).haunted = h /\ Begun(s, step, h, b).budget = b
<1> DEFINE d1 == [NoDrill EXCEPT !.script = s]
<1> DEFINE d2 == [d1 EXCEPT !.at = step]
<1> DEFINE d3 == [d2 EXCEPT !.haunted = h]
<1>1. Begun(s, step, h, b) = [d3 EXCEPT !.budget = b]
  BY Zenon DEF Begun
<1>2. d1 \in Drill /\ d1.script = s
  BY NoDrillFacts DEF Drill
<1> HIDE DEF d1
<1>3. d2 \in Drill /\ d2.script = s /\ d2.at = step
  BY <1>2 DEF Drill
<1> HIDE DEF d2
<1>4. d3 \in Drill /\ d3.script = s /\ d3.at = step /\ d3.haunted = h
  BY <1>3 DEF Drill
<1> HIDE DEF d3
<1> QED BY <1>1, <1>4 DEF Drill

(* What a transaction of a script may come to. *)
LEMMA SendsCases ==
    ASSUME DrillType, NEW t \in DrillTx, NEW ok \in Drill, NEW refused \in Drill,
           NEW err \in Drill, Sends(t, ok, refused, err)
    PROVE  /\ DrillType'
           /\ \/ /\ drill' = ok /\ site' = Landed(t, site)
                 /\ limbo' = limbo /\ mishaps' = mishaps
              \/ /\ drill' = refused /\ MayRefuse(t, site)
                 /\ site' = site /\ limbo' = limbo /\ mishaps' = mishaps
              \/ /\ drill' = err /\ mishaps' = mishaps - 1
                 /\ site' = site \/ site' = Landed(t, site)
                 /\ limbo' = limbo \/ limbo' = <<t>>
<1>1. \/ /\ drill' = ok /\ site' = Landed(t, site)
         /\ limbo' = limbo /\ mishaps' = mishaps
      \/ /\ drill' = refused /\ MayRefuse(t, site)
         /\ site' = site /\ limbo' = limbo /\ mishaps' = mishaps
      \/ /\ drill' = err /\ mishaps' = mishaps - 1
         /\ site' = site \/ site' = Landed(t, site)
         /\ limbo' = limbo \/ limbo' = <<t>>
  BY DEF Sends
<1>2. Landed(t, site) \in Site
  BY LandedFacts DEF DrillType
<1>3. DrillType'
  BY <1>1, <1>2 DEF DrillType
<1> QED BY <1>1, <1>3

(* What a read of a script may come to. *)
LEMMA ReadsCases ==
    ASSUME DrillType, NEW ok \in Drill, NEW err \in Drill, Reads(ok, err)
    PROVE  /\ DrillType'
           /\ site' = site /\ limbo' = limbo
           /\ (drill' = ok /\ mishaps' = mishaps) \/ (drill' = err /\ mishaps' = mishaps - 1)
  BY DEF Reads, DrillType

-----------------------------------------------------------------------------
(* The gate *)

(* The steps after the withdrawal of step 7. *)
PastSeven ==
    {"7 resume", "8", "9", "9 halt", "9 check", "9 vault", "9 give up", "9 deposit",
     "9 resume", "9 verify", "10", "end"}

(* In a run of the gate without a failed step, a transaction that may      *)
(* still land is a deposit or a resume, a pending withdrawal is settled by *)
(* step 7, and the last read finds the allocator running.                  *)
GateInv ==
    drill.script = "gate" /\ drill.failed = {} /\ ~drill.haunted =>
        /\ limbo # <<>> => limbo[1][1] \in {"deposit", "resume"}
        /\ drill.at \in PastSeven /\ ~drill.unseen => site.pending = 0
        /\ drill.at = "end" => site.haltedBy = "none"

(* The gate may go on as d, with the deployment as c. *)
GateFits(d, c) ==
    /\ d \in Drill /\ drill.script = "gate" /\ d.script = "gate"
    /\ d.haunted = drill.haunted
    /\ d.failed = {} /\ ~d.haunted =>
          /\ drill.failed = {}
          /\ d.at \in PastSeven /\ ~d.unseen => c.pending = 0
          /\ d.at = "end" => c.haltedBy = "none"

(* It goes on to a step before step 7 is over, or after it with nothing    *)
(* pending, and to the end with the allocator running.                     *)
LEMMA GoFits ==
    ASSUME DrillType, GateInv, drill.script = "gate", NEW c, NEW step \in Name,
           step = "end" => c.haltedBy = "none",
           step \in PastSeven =>
               c.pending = 0 \/ (drill.at \in PastSeven /\ c.pending = site.pending)
    PROVE  GateFits(Go(step), c)
<1>1. /\ Go(step) \in Drill /\ Go(step).at = step /\ Go(step).script = "gate"
      /\ Go(step).failed = drill.failed /\ Go(step).unseen = drill.unseen
      /\ Go(step).haunted = drill.haunted
  BY GoFacts DEF DrillType
<1> QED BY <1>1 DEF GateFits, GateInv

(* A failed step fits whatever happened. *)
LEMMA FailFits ==
    ASSUME DrillType, drill.script = "gate", NEW c, NEW name \in Name, NEW step \in Name
    PROVE  GateFits(Fail(name, step), c)
<1>1. /\ Fail(name, step) \in Drill /\ Fail(name, step).script = "gate"
      /\ Fail(name, step).failed # {} /\ Fail(name, step).haunted = drill.haunted
  BY FailFacts DEF DrillType
<1> QED BY <1>1 DEF GateFits

(* A read of the gate both of whose outcomes fit. *)
LEMMA GateReads ==
    ASSUME DrillType, GateInv, NEW ok, NEW err, Reads(ok, err),
           GateFits(ok, site), GateFits(err, site)
    PROVE  DrillType' /\ GateInv' /\ drill'.script = "gate"
<1>1. ok \in Drill /\ err \in Drill
  BY DEF GateFits
<1>2. /\ DrillType' /\ site' = site /\ limbo' = limbo
      /\ drill' = ok \/ drill' = err
  BY <1>1, ReadsCases
<1>3. GateFits(drill', site')
  <2>1. CASE drill' = ok
    BY <1>2, <2>1
  <2>2. CASE drill' = err
    BY <1>2, <2>2
  <2> QED BY <1>2, <2>1, <2>2
<1> QED BY <1>2, <1>3 DEF GateInv, GateFits

(* A transaction of the gate whose outcomes fit: an error counts as a      *)
(* failure, or hides a deposit or a resume only.                           *)
LEMMA GateSends ==
    ASSUME DrillType, GateInv, NEW t \in DrillTx, NEW ok, NEW refused, NEW err,
           Sends(t, ok, refused, err),
           GateFits(ok, Landed(t, site)), GateFits(refused, site),
           GateFits(err, site), GateFits(err, Landed(t, site)),
           err.failed # {} \/ t[1] \in {"deposit", "resume"}
    PROVE  DrillType' /\ GateInv' /\ drill'.script = "gate"
<1>1. ok \in Drill /\ refused \in Drill /\ err \in Drill
  BY DEF GateFits
<1>2. /\ DrillType'
      /\ \/ drill' = ok /\ site' = Landed(t, site) /\ limbo' = limbo
         \/ drill' = refused /\ site' = site /\ limbo' = limbo
         \/ /\ drill' = err
            /\ site' = site \/ site' = Landed(t, site)
            /\ limbo' = limbo \/ limbo' = <<t>>
  BY <1>1, SendsCases
<1>3. GateFits(drill', site')
  <2>1. CASE drill' = ok /\ site' = Landed(t, site)
    BY <2>1
  <2>2. CASE drill' = refused /\ site' = site
    BY <2>2
  <2>3. CASE drill' = err /\ (site' = site \/ site' = Landed(t, site))
    BY <2>3
  <2> QED BY <1>2, <2>1, <2>2, <2>3
<1>4. drill'.failed = {} =>
         limbo' = limbo \/ (limbo' = <<t>> /\ t[1] \in {"deposit", "resume"})
  BY <1>2
<1>5. drill'.failed = {} /\ ~drill'.haunted /\ limbo' # <<>> =>
         limbo'[1][1] \in {"deposit", "resume"}
  BY <1>3, <1>4 DEF GateFits, GateInv
<1> QED BY <1>2, <1>3, <1>5 DEF GateInv, GateFits

(* What the gate notes down changes nothing else. *)
LEMMA NoteFits ==
    ASSUME NEW d, NEW c, GateFits(d, c)
    PROVE  /\ \A a \in Int : GateFits([d EXCEPT !.amount = a], c)
           /\ GateFits([d EXCEPT !.wasHalted = site.haltedBy # "none"], c)
  BY DEF GateFits, Drill

(* A position it could not read is noted down. *)
LEMMA UnseenFits ==
    ASSUME DrillType, GateInv, drill.script = "gate", NEW c
    PROVE  GateFits([Go("8") EXCEPT !.unseen = TRUE], c)
<1>1. /\ Go("8") \in Drill /\ Go("8").at = "8" /\ Go("8").script = "gate"
      /\ Go("8").failed = drill.failed /\ Go("8").haunted = drill.haunted
  BY GoFacts, NamesAre DEF DrillType
<1>2. PICK d \in Drill : d = Go("8")
  BY <1>1
<1>3. /\ [d EXCEPT !.unseen = TRUE] \in Drill /\ [d EXCEPT !.unseen = TRUE].unseen
      /\ [d EXCEPT !.unseen = TRUE].script = d.script
      /\ [d EXCEPT !.unseen = TRUE].failed = d.failed
      /\ [d EXCEPT !.unseen = TRUE].haunted = d.haunted
      /\ [d EXCEPT !.unseen = TRUE].at = d.at
  BY DEF Drill
<1>4. GateFits([d EXCEPT !.unseen = TRUE], c)
  BY <1>1, <1>2, <1>3 DEF GateFits
<1> QED BY <1>2, <1>4, Zenon

(* Every step of the gate preserves its invariant. *)
LEMMA GatePreserved ==
    ASSUME DrillType, GateInv, GateStep
    PROVE  DrillType' /\ GateInv' /\ drill'.script = "gate"
<1>1. drill.script = "gate"
  BY DEF GateStep, step1_verifyProgram, step2_verifyVaults, step3_verifyProtocolIntegration,
         step4_reads, step4_balance, step4_deposit, step5_verifyShares, step6_reads,
         step6_requestWithdraw, step7_reads, step7_flag, step7_halt, step7_fetch,
         step7_withdraw, step7_resume, step8_verifyUsdcReturned, step9_flag, step9_halt,
         step9_check, step9_vault, step9_giveUp, step9_deposit, step9_resume, step9_verify,
         step10_verifyState, Gate, At
<1>2. \A c : \A step \in Name :
         step # "end" /\ step \notin PastSeven => GateFits(Go(step), c)
  BY <1>1, GoFits
<1>3. \A c : \A step \in Name :
         step # "end" /\ drill.at \in PastSeven /\ c.pending = site.pending =>
             GateFits(Go(step), c)
  BY <1>1, GoFits
<1>4. \A c : \A name \in Name, step \in Name : GateFits(Fail(name, step), c)
  BY <1>1, FailFits
<1>5. \A t \in DrillTx :
         t[1] \notin {"request", "withdraw"} => Landed(t, site).pending = site.pending
  BY LandedFacts DEF DrillType
<1>6. CASE step1_verifyProgram
  <2>1. GateFits(Go("2"), site) /\ GateFits(Fail("1", "2"), site)
    BY <1>6, <1>2, <1>3, <1>4, NamesAre DEF step1_verifyProgram, Gate, At, PastSeven
  <2> QED BY <1>6, <2>1, GateReads DEF step1_verifyProgram
<1>7. CASE step2_verifyVaults
  <2>1. GateFits(Go("3"), site) /\ GateFits(Fail("2", "3"), site)
    BY <1>7, <1>2, <1>3, <1>4, NamesAre DEF step2_verifyVaults, Gate, At, PastSeven
  <2> QED BY <1>7, <2>1, GateReads DEF step2_verifyVaults
<1>8. CASE step3_verifyProtocolIntegration
  <2>1. GateFits(Go("4"), site)
    BY <1>2, NamesAre DEF PastSeven
  <2>2. Reads(Go("4"), Go("4"))
    BY <1>8 DEF step3_verifyProtocolIntegration, Reads
  <2> QED BY <2>1, <2>2, GateReads
<1>9. CASE step4_reads
  <2>1. GateFits(Go("4 balance"), site) /\ GateFits(Fail("4", "5"), site)
    BY <1>9, <1>2, <1>3, <1>4, NamesAre DEF step4_reads, Gate, At, PastSeven
  <2> QED BY <1>9, <2>1, GateReads DEF step4_reads
<1>10. CASE step4_balance
  <2>1. GateFits(Go("4 deposit"), site) /\ GateFits(Go("5"), site)
    BY <1>2, NamesAre DEF PastSeven
  <2> QED BY <1>10, <2>1, GateReads DEF step4_balance
<1>11. CASE step5_verifyShares
  <2>1. GateFits(Go("6"), site)
    BY <1>11, <1>2, <1>3, <1>4, NamesAre DEF step5_verifyShares, Gate, At, PastSeven
  <2> QED BY <1>11, <2>1, GateReads DEF step5_verifyShares
<1>12. CASE step7_fetch
  <2>1. GateFits(Go("7 withdraw"), site) /\ GateFits(Fail("7", "8"), site)
    BY <1>12, <1>2, <1>3, <1>4, NamesAre DEF step7_fetch, Gate, At, PastSeven
  <2> QED BY <1>12, <2>1, GateReads DEF step7_fetch
<1>13. CASE step8_verifyUsdcReturned
  <2>1. GateFits(Go("9"), site)
    BY <1>13, <1>2, <1>3, <1>4, NamesAre DEF step8_verifyUsdcReturned, Gate, At, PastSeven
  <2> QED BY <1>13, <2>1, GateReads DEF step8_verifyUsdcReturned
<1>14. CASE step9_check
  <2>1. GateFits(Go("9 vault"), site) /\ GateFits(Fail("9", "10"), site)
    BY <1>14, <1>2, <1>3, <1>4, NamesAre DEF step9_check, Gate, At, PastSeven
  <2> QED BY <1>14, <2>1, GateReads DEF step9_check
<1>15. CASE step9_vault
  <2>1. GateFits(Go("9 deposit"), site) /\ GateFits(Go("9 give up"), site)
    BY <1>15, <1>2, <1>3, <1>4, NamesAre DEF step9_vault, Gate, At, PastSeven
  <2> QED BY <1>15, <2>1, GateReads DEF step9_vault
<1>16. CASE step9_verify
  <2>1. GateFits(Go("10"), site) /\ GateFits(Fail("9", "10"), site)
    BY <1>16, <1>2, <1>3, <1>4, NamesAre DEF step9_verify, Gate, At, PastSeven
  <2> QED BY <1>16, <2>1, GateReads DEF step9_verify
<1>17. CASE step10_verifyState
  <2>1. site.haltedBy = "none" => GateFits(Go("end"), site)
    BY <1>17, <1>1, GoFits, NamesAre DEF step10_verifyState, Gate, At, PastSeven
  <2>2. GateFits(Fail("10", "end"), site)
    BY <1>4, NamesAre
  <2>3. GateFits(IF site.haltedBy = "none" THEN Go("end") ELSE Fail("10", "end"), site)
    BY <2>1, <2>2
  <2> QED BY <1>17, <2>2, <2>3, GateReads DEF step10_verifyState
<1>18. CASE step6_reads
  <2>1. GateFits(Go("6 request"), site) /\ GateFits(Go("7"), site)
    BY <1>2, NamesAre DEF PastSeven
  <2>2. GateFits([Go("6 request") EXCEPT !.amount = site.shares], site)
    <3>1. site.shares \in Int
      BY DEF DrillType, Site
    <3> QED BY <2>1, <3>1, NoteFits, Zenon
  <2>3. GateFits(IF site.shares > 0 /\ site.pending = 0
                 THEN [Go("6 request") EXCEPT !.amount = site.shares] ELSE Go("7"), site)
    BY <2>1, <2>2, Zenon
  <2> QED BY <1>18, <2>1, <2>3, GateReads, Zenon DEF step6_reads
<1>19. CASE step7_reads
  <2>1. site.pending = 0 => GateFits(Go("8"), site)
    BY <1>1, GoFits, NamesAre
  <2>2. GateFits(Go("7 flag"), site)
    BY <1>2, NamesAre DEF PastSeven
  <2>3. GateFits(Go(IF site.pending = 0 THEN "8" ELSE "7 flag"), site)
    BY <2>1, <2>2
  <2>4. GateFits([Go("8") EXCEPT !.unseen = TRUE], site)
    BY <1>1, UnseenFits, Zenon
  <2> QED BY <1>19, <2>3, <2>4, GateReads, Zenon DEF step7_reads
<1>20. CASE step7_flag
  <2>1. GateFits(Go(IF site.haltedBy # "none" THEN "7 fetch" ELSE "7 halt"), site)
    BY <1>20, <1>2, <1>3, NamesAre DEF step7_flag, Gate, At, PastSeven
  <2>2. GateFits(Fail("7", "8"), site)
    BY <1>4, NamesAre
  <2>3. GateFits([Go(IF site.haltedBy # "none" THEN "7 fetch" ELSE "7 halt")
                     EXCEPT !.wasHalted = site.haltedBy # "none"], site)
    BY <2>1, NoteFits, Zenon
  <2> QED BY <1>20, <2>2, <2>3, GateReads, Zenon DEF step7_flag
<1>21. CASE step9_flag
  <2>1. GateFits(Go(IF site.haltedBy # "none" THEN "9 check" ELSE "9 halt"), site)
    BY <1>21, <1>2, <1>3, NamesAre DEF step9_flag, Gate, At, PastSeven
  <2>2. GateFits(Fail("9", "10"), site)
    BY <1>4, NamesAre
  <2>3. GateFits([Go(IF site.haltedBy # "none" THEN "9 check" ELSE "9 halt")
                     EXCEPT !.wasHalted = site.haltedBy # "none"], site)
    BY <2>1, NoteFits, Zenon
  <2> QED BY <1>21, <2>2, <2>3, GateReads, Zenon DEF step9_flag
<1>22. CASE step4_deposit
  <2>1. <<"deposit", 1>> \in DrillTx
    BY DEF DrillTx
  <2>2. /\ GateFits(Go("5"), Landed(<<"deposit", 1>>, site)) /\ GateFits(Go("5"), site)
        /\ GateFits(Fail("4", "5"), site)
        /\ GateFits(Fail("4", "5"), Landed(<<"deposit", 1>>, site))
    BY <1>2, <1>4, NamesAre DEF PastSeven
  <2>3. GateFits(IF site.haltedBy = "none" THEN Go("5") ELSE Fail("4", "5"), site)
    BY <2>2
  <2> QED BY <1>22, <2>1, <2>2, <2>3, GateSends DEF step4_deposit
<1>23. CASE step6_requestWithdraw
  <2>1. <<"request", drill.amount>> \in DrillTx
    BY DEF DrillTx, DrillType, Drill
  <2>3. /\ GateFits(Go("7"), Landed(<<"request", drill.amount>>, site))
        /\ GateFits(Fail("6", "7"), site)
        /\ GateFits(Fail("6", "7"), Landed(<<"request", drill.amount>>, site))
        /\ Fail("6", "7").failed # {}
    BY <1>23, <1>2, <1>3, <1>4, FailFacts, NamesAre DEF step6_requestWithdraw, Gate, At, PastSeven, DrillType
  <2> QED BY <1>23, <2>1, <2>3, GateSends DEF step6_requestWithdraw, SendsOrFails
<1>24. CASE step7_halt
  <2>1. <<"halt", "gate">> \in DrillTx
    BY NamesAre DEF DrillTx
  <2>2. Landed(<<"halt", "gate">>, site).pending = site.pending
    BY <1>5, <2>1
  <2>3. /\ GateFits(Go("7 fetch"), Landed(<<"halt", "gate">>, site))
        /\ GateFits(Fail("7", "8"), site)
        /\ GateFits(Fail("7", "8"), Landed(<<"halt", "gate">>, site))
        /\ Fail("7", "8").failed # {}
    BY <1>24, <1>2, <1>3, <1>4, <2>2, FailFacts, NamesAre DEF step7_halt, Gate, At, PastSeven, DrillType
  <2> QED BY <1>24, <2>1, <2>3, GateSends DEF step7_halt, SendsOrFails
<1>25. CASE step7_withdraw
  <2>1. <<"withdraw", 0>> \in DrillTx
    BY DEF DrillTx
  <2>2. Landed(<<"withdraw", 0>>, site).pending = 0
    BY <2>1, LandedFacts DEF DrillType
  <2>3. AfterWithdraw \in Name /\ AfterWithdraw # "end"
    BY NamesAre DEF AfterWithdraw
  <2>4. GateFits(Go(AfterWithdraw), Landed(<<"withdraw", 0>>, site))
    BY <1>1, <2>2, <2>3, GoFits
  <2>5. /\ GateFits(Fail("7", AfterWithdraw), site)
        /\ GateFits(Fail("7", AfterWithdraw), Landed(<<"withdraw", 0>>, site))
        /\ Fail("7", AfterWithdraw).failed # {}
    BY <1>4, <2>3, FailFacts, NamesAre DEF DrillType
  <2> QED BY <1>25, <2>1, <2>4, <2>5, GateSends DEF step7_withdraw, SendsOrFails
<1>26. CASE step7_resume
  <2>1. <<"resume", 0>> \in DrillTx
    BY DEF DrillTx
  <2>2. Landed(<<"resume", 0>>, site).pending = site.pending
    BY <1>5, <2>1
  <2>3. /\ GateFits(Go("8"), Landed(<<"resume", 0>>, site))
        /\ GateFits(Go("8"), site)
    BY <1>26, <1>2, <1>3, <1>4, <2>2, NamesAre DEF step7_resume, Gate, At, PastSeven, DrillType
  <2> QED BY <1>26, <2>1, <2>3, GateSends DEF step7_resume, SendsOrFails
<1>27. CASE step9_halt
  <2>1. <<"halt", "gate">> \in DrillTx
    BY NamesAre DEF DrillTx
  <2>2. Landed(<<"halt", "gate">>, site).pending = site.pending
    BY <1>5, <2>1
  <2>3. /\ GateFits(Go("9 check"), Landed(<<"halt", "gate">>, site))
        /\ GateFits(Fail("9", "10"), site)
        /\ GateFits(Fail("9", "10"), Landed(<<"halt", "gate">>, site))
        /\ Fail("9", "10").failed # {}
    BY <1>27, <1>2, <1>3, <1>4, <2>2, FailFacts, NamesAre DEF step9_halt, Gate, At, PastSeven, DrillType
  <2> QED BY <1>27, <2>1, <2>3, GateSends DEF step9_halt, SendsOrFails
<1>28. CASE step9_giveUp
  <2>1. <<"resume", 0>> \in DrillTx
    BY DEF DrillTx
  <2>2. Landed(<<"resume", 0>>, site).pending = site.pending
    BY <1>5, <2>1
  <2>3. /\ GateFits(Go("10"), Landed(<<"resume", 0>>, site))
        /\ GateFits(Go("10"), site)
    BY <1>28, <1>2, <1>3, <1>4, <2>2, NamesAre DEF step9_giveUp, Gate, At, PastSeven, DrillType
  <2> QED BY <1>28, <2>1, <2>3, GateSends DEF step9_giveUp, SendsOrFails
<1>29. CASE step9_deposit
  <2>1. <<"deposit", 1>> \in DrillTx
    BY DEF DrillTx
  <2>2. Landed(<<"deposit", 1>>, site).pending = site.pending
    BY <1>5, <2>1
  <2>3. /\ GateFits(Fail("9", "9 resume"), Landed(<<"deposit", 1>>, site))
        /\ GateFits(Go("9 resume"), site)
        /\ GateFits(Go("9 resume"), Landed(<<"deposit", 1>>, site))
    BY <1>29, <1>2, <1>3, <1>4, <2>2, NamesAre DEF step9_deposit, Gate, At, PastSeven, DrillType
  <2> QED BY <1>29, <2>1, <2>3, GateSends DEF step9_deposit, SendsOrFails
<1>30. CASE step9_resume
  <2>1. <<"resume", 0>> \in DrillTx
    BY DEF DrillTx
  <2>2. Landed(<<"resume", 0>>, site).pending = site.pending
    BY <1>5, <2>1
  <2>3. /\ GateFits(Go("9 verify"), Landed(<<"resume", 0>>, site))
        /\ GateFits(Fail("9", "10"), site)
        /\ GateFits(Fail("9", "10"), Landed(<<"resume", 0>>, site))
        /\ Fail("9", "10").failed # {}
    BY <1>30, <1>2, <1>3, <1>4, <2>2, FailFacts, NamesAre DEF step9_resume, Gate, At, PastSeven, DrillType
  <2> QED BY <1>30, <2>1, <2>3, GateSends DEF step9_resume, SendsOrFails
<1> QED BY <1>6, <1>7, <1>8, <1>9, <1>10, <1>11, <1>12, <1>13, <1>14, <1>15, <1>16, <1>17, <1>18, <1>19, <1>20, <1>21, <1>22, <1>23, <1>24, <1>25, <1>26, <1>27, <1>28, <1>29, <1>30 DEF GateStep

-----------------------------------------------------------------------------
(* Phase B *)

PastCap ==
    {"18", "18 verify", "18 restore", "18 check", "19", "20", "20c", "end"}

PastKeeper == {"19", "20", "20c", "end"}

(* In a run d of phase B that no earlier transaction disturbs: the keeper  *)
(* is not left in place, and no transaction that would put it there is     *)
(* under way, unless step 18 is on record as failed; and if no call of the *)
(* run went wrong, nothing is under way and cap and keeper are as the run  *)
(* last set them.                                                          *)
PhaseHolds(d, c, l, m) ==
    d.script = "phase_b" /\ ~d.haunted =>
        /\ m <= d.budget
        /\ "18" \notin d.failed =>
              /\ l # << <<"keeper", "temp">> >>
              /\ d.at \in PastKeeper => c.keeper # "temp"
        /\ m = d.budget =>
              /\ l = <<>>
              /\ d.at \in PastCap => c.cap = ORIGINAL_DEPOSIT_CAP
              /\ d.at = "18 verify" => c.keeper = "temp"
              /\ d.at \in PastKeeper \cup {"18 check"} => c.keeper = "original"

PhaseBInv == PhaseHolds(drill, site, limbo, mishaps)

(* d goes on from the step under way. *)
PhaseOn(d) ==
    /\ d \in Drill /\ d.script = "phase_b"
    /\ d.haunted = drill.haunted /\ d.budget = drill.budget
    /\ drill.failed \subseteq d.failed

(* The step before gives these. *)
LEMMA PhaseOnFacts ==
    ASSUME DrillType, drill.script = "phase_b"
    PROVE  /\ \A step \in Name : PhaseOn(Go(step)) /\ Go(step).at = step
           /\ \A name \in Name, step \in Name :
                 /\ PhaseOn(Fail(name, step)) /\ Fail(name, step).at = step
                 /\ name \in Fail(name, step).failed
<1>1. drill.failed \subseteq drill.failed
  OBVIOUS
<1> QED BY <1>1, GoFacts, FailFacts DEF PhaseOn, DrillType

(* An error has cost a call, so that no run with an error is undisturbed. *)
LEMMA PhaseErr ==
    ASSUME DrillType, PhaseBInv, drill.script = "phase_b", NEW d, PhaseOn(d), NEW c, NEW l,
           ~drill.haunted /\ d.at \in PastKeeper => "18" \in d.failed \/ c.keeper # "temp",
           l = limbo \/ l # << <<"keeper", "temp">> >> \/ "18" \in d.failed
    PROVE  PhaseHolds(d, c, l, mishaps - 1)
<1> SUFFICES ASSUME ~d.haunted
             PROVE  PhaseHolds(d, c, l, mishaps - 1)
  BY DEF PhaseHolds
<1>1. mishaps <= drill.budget /\ drill.budget = d.budget /\ ~drill.haunted
  BY DEF PhaseOn, PhaseBInv, PhaseHolds
<1>2. mishaps \in Int /\ d.budget \in Int
  BY DEF DrillType, PhaseOn, Drill
<1>3. mishaps - 1 <= d.budget /\ mishaps - 1 # d.budget
  BY <1>1, <1>2
<1>4. "18" \notin d.failed => l # << <<"keeper", "temp">> >>
  BY DEF PhaseOn, PhaseBInv, PhaseHolds
<1> QED BY <1>1, <1>3, <1>4 DEF PhaseHolds

(* A call that went well. *)
LEMMA PhaseOk ==
    ASSUME DrillType, PhaseBInv, drill.script = "phase_b", NEW d, PhaseOn(d), NEW c,
           ~drill.haunted /\ d.at \in PastKeeper => "18" \in d.failed \/ c.keeper # "temp",
           ~drill.haunted /\ mishaps = drill.budget =>
              /\ d.at \in PastCap => c.cap = ORIGINAL_DEPOSIT_CAP
              /\ d.at = "18 verify" => c.keeper = "temp"
              /\ d.at \in PastKeeper \cup {"18 check"} => c.keeper = "original"
    PROVE  PhaseHolds(d, c, limbo, mishaps)
  BY DEF PhaseOn, PhaseBInv, PhaseHolds

(* A read of phase B both of whose outcomes fit. *)
LEMMA PhaseReads ==
    ASSUME DrillType, NEW ok \in Drill, NEW err \in Drill, Reads(ok, err),
           PhaseHolds(ok, site, limbo, mishaps), PhaseHolds(err, site, limbo, mishaps - 1),
           ok.script \in {"phase_b", "none"}, err.script \in {"phase_b", "none"}
    PROVE  DrillType' /\ PhaseBInv' /\ drill'.script \in {"phase_b", "none"}
<1>1. /\ DrillType' /\ site' = site /\ limbo' = limbo
      /\ (drill' = ok /\ mishaps' = mishaps) \/ (drill' = err /\ mishaps' = mishaps - 1)
  BY ReadsCases
<1>2. CASE drill' = ok /\ mishaps' = mishaps
  BY <1>1, <1>2 DEF PhaseBInv
<1>3. CASE drill' = err /\ mishaps' = mishaps - 1
  BY <1>1, <1>3 DEF PhaseBInv
<1> QED BY <1>1, <1>2, <1>3

(* A transaction of phase B whose outcomes fit: none is refused. *)
LEMMA PhaseSends ==
    ASSUME DrillType, NEW t \in DrillTx, NEW ok \in Drill, NEW err \in Drill,
           NEW refused \in Drill, Sends(t, ok, refused, err),
           t[1] \in {"cap", "keeper"},
           PhaseHolds(ok, Landed(t, site), limbo, mishaps),
           \A c \in {site, Landed(t, site)}, l \in {limbo, <<t>>} :
              PhaseHolds(err, c, l, mishaps - 1),
           ok.script = "phase_b", err.script = "phase_b"
    PROVE  DrillType' /\ PhaseBInv' /\ drill'.script = "phase_b"
<1>1. ~MayRefuse(t, site)
  BY DEF MayRefuse, Refused
<1>2. /\ DrillType'
      /\ \/ /\ drill' = ok /\ site' = Landed(t, site)
            /\ limbo' = limbo /\ mishaps' = mishaps
         \/ /\ drill' = err /\ mishaps' = mishaps - 1
            /\ site' = site \/ site' = Landed(t, site)
            /\ limbo' = limbo \/ limbo' = <<t>>
  BY <1>1, SendsCases
<1>3. CASE drill' = ok /\ site' = Landed(t, site) /\ limbo' = limbo /\ mishaps' = mishaps
  BY <1>2, <1>3 DEF PhaseBInv
<1>4. CASE /\ drill' = err /\ mishaps' = mishaps - 1
           /\ site' \in {site, Landed(t, site)}
           /\ limbo' \in {limbo, <<t>>}
  BY <1>2, <1>4 DEF PhaseBInv
<1> QED BY <1>2, <1>3, <1>4

(* Every step of phase B preserves its invariant. *)
LEMMA PhasePreserved ==
    ASSUME DrillType, PhaseBInv, PhaseBStep
    PROVE  DrillType' /\ PhaseBInv' /\ drill'.script \in {"phase_b", "none"}
<1>1. drill.script = "phase_b"
  BY DEF PhaseBStep, b17_reads, b17_update, b17_verify, b17_vault, b17_balance, b17_deposit,
         restoreDepositCap, b18_change, b18_verify, b18_restore, b18_check,
         b20ab_weightValidation, b19_rebalanceValid, b20c_rebalanceTooSoon, PhaseB, At
<1>2. /\ \A step \in Name : PhaseOn(Go(step)) /\ Go(step).at = step
      /\ \A name \in Name, step \in Name :
            PhaseOn(Fail(name, step)) /\ Fail(name, step).at = step
               /\ name \in Fail(name, step).failed
  BY <1>1, PhaseOnFacts
<1>3. \A d : PhaseOn(d) => d \in Drill /\ d.script = "phase_b"
  BY DEF PhaseOn
<1>4. NoDrill \in Drill /\ \A c, l, m : PhaseHolds(NoDrill, c, l, m) /\ NoDrill.script = "none"
  BY NoDrillFacts DEF PhaseHolds
<1>5. ~drill.haunted =>
         /\ "18" \notin drill.failed /\ drill.at \in PastKeeper => site.keeper # "temp"
         /\ mishaps = drill.budget =>
               /\ drill.at \in PastCap => site.cap = ORIGINAL_DEPOSIT_CAP
               /\ drill.at = "18 verify" => site.keeper = "temp"
               /\ drill.at \in PastKeeper \cup {"18 check"} => site.keeper = "original"
  BY <1>1 DEF PhaseBInv, PhaseHolds
<1>6. \A name \in Name, step \in Name : drill.failed \subseteq Fail(name, step).failed
  BY <1>2 DEF PhaseOn
<1>7. \A step \in Name : Go(step).failed = drill.failed
  BY GoFacts DEF DrillType
<1>8. \A c : \A d : PhaseOn(d) /\ d.at \notin PastCap => PhaseHolds(d, c, limbo, mishaps)
  BY <1>1, PhaseOk DEF PastCap, PastKeeper
<1>9. \A d : PhaseOn(d) /\ drill.at \in PastKeeper /\ d.at \in PastKeeper =>
                 PhaseHolds(d, site, limbo, mishaps)
  <2>1. \A d : PhaseOn(d) => ("18" \in drill.failed => "18" \in d.failed)
    BY DEF PhaseOn
  <2> QED BY <1>1, <1>5, <2>1, PhaseOk DEF PastCap, PastKeeper
<1>10. CASE b17_reads
  <2>1. PhaseHolds(Go("17 update"), site, limbo, mishaps)
    BY <1>2, <1>8, NamesAre DEF PastCap
  <2>2. PhaseHolds(Fail("17", "18"), site, limbo, mishaps - 1)
    BY <1>10, <1>1, <1>2, <1>5, <1>6, <1>7, PhaseErr, NamesAre
    DEF b17_reads, PhaseB, At, PastKeeper
  <2>3. /\ Go("17 update") \in Drill /\ Go("17 update").script = "phase_b"
        /\ Fail("17", "18") \in Drill /\ Fail("17", "18").script = "phase_b"
    BY <1>2, <1>3, NamesAre
  <2> QED BY <1>10, <2>3, <2>1, <2>2, PhaseReads DEF b17_reads
<1>11. CASE b17_update
  <2>1. <<"cap", PhaseBCap>> \in DrillTx
    BY DrillAssumption DEF DrillTx, PhaseBCap, ORIGINAL_DEPOSIT_CAP
  <2>2. PhaseHolds(Go("17 verify"), Landed(<<"cap", PhaseBCap>>, site), limbo, mishaps)
    BY <1>2, <1>8, NamesAre DEF PastCap
  <2>3. \A c, l : l \in {limbo, <<<<"cap", PhaseBCap>>>>} => PhaseHolds(Fail("17", "18"), c, l, mishaps - 1)
    <3>1. <<<<"cap", PhaseBCap>>>> # << <<"keeper", "temp">> >>
      OBVIOUS
    <3> QED BY <3>1, <1>1, <1>2, PhaseErr, NamesAre DEF PastKeeper
  <2>4. /\ Go("17 verify") \in Drill /\ Go("17 verify").script = "phase_b"
        /\ Fail("17", "18") \in Drill /\ Fail("17", "18").script = "phase_b"
    BY <1>2, <1>3, NamesAre
  <2> QED BY <1>11, <2>1, <2>2, <2>3, <2>4, PhaseSends DEF b17_update, SendsOrFails
<1>12. CASE b17_verify
  <2>1. PhaseHolds(Go("17 vault"), site, limbo, mishaps)
    BY <1>2, <1>8, NamesAre DEF PastCap
  <2>2. PhaseHolds(Fail("17", "17 vault"), site, limbo, mishaps)
    BY <1>2, <1>8, NamesAre DEF PastCap
  <2>3. PhaseHolds(Fail("17", "18"), site, limbo, mishaps - 1)
    BY <1>12, <1>1, <1>2, <1>5, <1>6, <1>7, PhaseErr, NamesAre
    DEF b17_verify, PhaseB, At, PastKeeper
  <2>4. /\ Go("17 vault") \in Drill /\ Go("17 vault").script = "phase_b"
        /\ Fail("17", "17 vault") \in Drill /\ Fail("17", "17 vault").script = "phase_b"
        /\ Fail("17", "18") \in Drill /\ Fail("17", "18").script = "phase_b"
    BY <1>2, <1>3, NamesAre
  <2> QED BY <1>12, <2>4, <2>1, <2>2, <2>3, PhaseReads DEF b17_verify
<1>13. CASE b17_vault
  <2>1. PhaseHolds(Go("17 balance"), site, limbo, mishaps)
    BY <1>2, <1>8, NamesAre DEF PastCap
  <2>2. PhaseHolds(Go("18"), site, limbo, mishaps - 1)
    BY <1>13, <1>1, <1>2, <1>5, <1>6, <1>7, PhaseErr, NamesAre
    DEF b17_vault, PhaseB, At, PastKeeper
  <2>3. /\ Go("17 balance") \in Drill /\ Go("17 balance").script = "phase_b"
        /\ Go("18") \in Drill /\ Go("18").script = "phase_b"
    BY <1>2, <1>3, NamesAre
  <2> QED BY <1>13, <2>3, <2>1, <2>2, PhaseReads DEF b17_vault
<1>14. CASE b17_balance
  <2>1. PhaseHolds(Go("17 deposit"), site, limbo, mishaps)
    BY <1>2, <1>8, NamesAre DEF PastCap
  <2>2. PhaseHolds(Go("17 restore"), site, limbo, mishaps)
    BY <1>2, <1>8, NamesAre DEF PastCap
  <2>3. PhaseHolds(Go("17 restore"), site, limbo, mishaps - 1)
    BY <1>14, <1>1, <1>2, <1>5, <1>6, <1>7, PhaseErr, NamesAre
    DEF b17_balance, PhaseB, At, PastKeeper
  <2>4. /\ Go("17 deposit") \in Drill /\ Go("17 deposit").script = "phase_b"
        /\ Go("17 restore") \in Drill /\ Go("17 restore").script = "phase_b"
    BY <1>2, <1>3, NamesAre
  <2> QED BY <1>14, <2>4, <2>1, <2>2, <2>3, PhaseReads DEF b17_balance
<1>15. CASE b17_deposit
  <2>1. PhaseHolds(Fail("17", "17 restore"), site, limbo, mishaps)
    BY <1>2, <1>8, NamesAre DEF PastCap
  <2>2. PhaseHolds(NoDrill, site, limbo, mishaps - 1)
    BY <1>4
  <2>3. /\ Fail("17", "17 restore") \in Drill /\ Fail("17", "17 restore").script = "phase_b"
    BY <1>2, <1>3, NamesAre
  <2> QED BY <1>15, <1>4, <2>3, <2>1, <2>2, PhaseReads DEF b17_deposit
<1>16. CASE restoreDepositCap
  <2>1. <<"cap", ORIGINAL_DEPOSIT_CAP>> \in DrillTx
    BY DrillAssumption DEF DrillTx, PhaseBCap, ORIGINAL_DEPOSIT_CAP
  <2>2. PhaseHolds(Go("18"), Landed(<<"cap", ORIGINAL_DEPOSIT_CAP>>, site), limbo, mishaps)
    <3>1. Landed(<<"cap", ORIGINAL_DEPOSIT_CAP>>, site).cap = ORIGINAL_DEPOSIT_CAP
      BY <2>1, LandedFacts DEF DrillType
    <3> QED BY <1>16, <3>1, <1>1, <1>2, <1>5, <1>6, <1>7, PhaseOk, NamesAre
            DEF restoreDepositCap, PhaseB, At, PastCap, PastKeeper
  <2>3. \A c, l : l \in {limbo, <<<<"cap", ORIGINAL_DEPOSIT_CAP>>>>} => PhaseHolds(Go("18"), c, l, mishaps - 1)
    <3>1. <<<<"cap", ORIGINAL_DEPOSIT_CAP>>>> # << <<"keeper", "temp">> >>
      OBVIOUS
    <3> QED BY <3>1, <1>1, <1>2, PhaseErr, NamesAre DEF PastKeeper
  <2>4. /\ Go("18") \in Drill /\ Go("18").script = "phase_b"
    BY <1>2, <1>3, NamesAre
  <2> QED BY <1>16, <2>1, <2>2, <2>3, <2>4, PhaseSends DEF restoreDepositCap, SendsOrFails
<1>17. CASE b18_change
  <2>1. <<"keeper", "temp">> \in DrillTx
    BY NamesAre DEF DrillTx
  <2>2. PhaseHolds(Go("18 verify"), Landed(<<"keeper", "temp">>, site), limbo, mishaps)
    <3>1. Landed(<<"keeper", "temp">>, site).keeper = "temp" /\ Landed(<<"keeper", "temp">>, site).cap = site.cap
      BY <2>1, LandedFacts DEF DrillType
    <3> QED BY <1>17, <3>1, <1>1, <1>2, <1>5, <1>6, <1>7, PhaseOk, NamesAre
            DEF b18_change, PhaseB, At, PastCap, PastKeeper
  <2>3. \A c, l : l \in {limbo, <<<<"keeper", "temp">>>>} => PhaseHolds(Fail("18", "20"), c, l, mishaps - 1)
    <3>1. "18" \in Fail("18", "20").failed
      BY <1>2, NamesAre
    <3> QED BY <3>1, <1>1, <1>2, PhaseErr, NamesAre DEF PastKeeper
  <2>4. /\ Go("18 verify") \in Drill /\ Go("18 verify").script = "phase_b"
        /\ Fail("18", "20") \in Drill /\ Fail("18", "20").script = "phase_b"
    BY <1>2, <1>3, NamesAre
  <2> QED BY <1>17, <2>1, <2>2, <2>3, <2>4, PhaseSends DEF b18_change, SendsOrFails
<1>18. CASE b18_verify
  <2>1. site.keeper = "temp" => PhaseHolds(Go("18 restore"), site, limbo, mishaps)
    BY <1>18, <1>1, <1>2, <1>5, <1>6, <1>7, PhaseOk, NamesAre
    DEF b18_verify, PhaseB, At, PastCap, PastKeeper
  <2>2. site.keeper # "temp" => PhaseHolds(Fail("18", "20"), site, limbo, mishaps)
    BY <1>18, <1>1, <1>2, <1>5, <1>6, <1>7, PhaseOk, NamesAre
    DEF b18_verify, PhaseB, At, PastCap, PastKeeper
  <2>3. PhaseHolds(Fail("18", "20"), site, limbo, mishaps - 1)
    BY <1>18, <1>1, <1>2, <1>5, <1>6, <1>7, PhaseErr, NamesAre
    DEF b18_verify, PhaseB, At, PastKeeper
  <2>4. /\ Go("18 restore") \in Drill /\ Go("18 restore").script = "phase_b"
        /\ Fail("18", "20") \in Drill /\ Fail("18", "20").script = "phase_b"
    BY <1>2, <1>3, NamesAre
  <2> QED BY <1>18, <2>4, <2>1, <2>2, <2>3, PhaseReads DEF b18_verify
<1>19. CASE b18_restore
  <2>1. <<"keeper", "original">> \in DrillTx
    BY NamesAre DEF DrillTx
  <2>2. PhaseHolds(Go("18 check"), Landed(<<"keeper", "original">>, site), limbo, mishaps)
    <3>1. Landed(<<"keeper", "original">>, site).keeper = "original" /\ Landed(<<"keeper", "original">>, site).cap = site.cap
      BY <2>1, LandedFacts DEF DrillType
    <3> QED BY <1>19, <3>1, <1>1, <1>2, <1>5, <1>6, <1>7, PhaseOk, NamesAre
            DEF b18_restore, PhaseB, At, PastCap, PastKeeper
  <2>3. \A c, l : l \in {limbo, <<<<"keeper", "original">>>>} => PhaseHolds(Fail("18", "20"), c, l, mishaps - 1)
    <3>1. "18" \in Fail("18", "20").failed
      BY <1>2, NamesAre
    <3> QED BY <3>1, <1>1, <1>2, PhaseErr, NamesAre DEF PastKeeper
  <2>4. /\ Go("18 check") \in Drill /\ Go("18 check").script = "phase_b"
        /\ Fail("18", "20") \in Drill /\ Fail("18", "20").script = "phase_b"
    BY <1>2, <1>3, NamesAre
  <2> QED BY <1>19, <2>1, <2>2, <2>3, <2>4, PhaseSends DEF b18_restore, SendsOrFails
<1>20. CASE b18_check
  <2>1. site.keeper = "original" => PhaseHolds(Go("20"), site, limbo, mishaps)
    BY <1>20, <1>1, <1>2, <1>5, <1>6, <1>7, PhaseOk, NamesAre
    DEF b18_check, PhaseB, At, PastCap, PastKeeper
  <2>2. site.keeper # "original" => PhaseHolds(Fail("18", "20"), site, limbo, mishaps)
    BY <1>20, <1>1, <1>2, <1>5, <1>6, <1>7, PhaseOk, NamesAre
    DEF b18_check, PhaseB, At, PastCap, PastKeeper
  <2>3. PhaseHolds(Fail("18", "20"), site, limbo, mishaps - 1)
    BY <1>20, <1>1, <1>2, <1>5, <1>6, <1>7, PhaseErr, NamesAre
    DEF b18_check, PhaseB, At, PastKeeper
  <2>4. /\ Go("20") \in Drill /\ Go("20").script = "phase_b"
        /\ Fail("18", "20") \in Drill /\ Fail("18", "20").script = "phase_b"
    BY <1>2, <1>3, NamesAre
  <2> QED BY <1>20, <2>4, <2>1, <2>2, <2>3, PhaseReads DEF b18_check
<1>21. CASE b20ab_weightValidation
  <2>1. PhaseHolds(Go("19"), site, limbo, mishaps)
    <3>1. drill.at \in PastKeeper
      BY <1>21 DEF b20ab_weightValidation, PhaseB, At, PastKeeper
    <3>2. PhaseOn(Go("19")) /\ Go("19").at = "19"
      BY <1>2, NamesAre
    <3> QED BY <1>9, <3>1, <3>2 DEF PastKeeper
  <2>2. PhaseHolds(Fail("20", "19"), site, limbo, mishaps - 1)
    BY <1>21, <1>1, <1>2, <1>5, <1>6, <1>7, PhaseErr, NamesAre
    DEF b20ab_weightValidation, PhaseB, At, PastKeeper
  <2>3. /\ Go("19") \in Drill /\ Go("19").script = "phase_b"
        /\ Fail("20", "19") \in Drill /\ Fail("20", "19").script = "phase_b"
    BY <1>2, <1>3, NamesAre
  <2> QED BY <1>21, <2>3, <2>1, <2>2, PhaseReads DEF b20ab_weightValidation
<1>22. CASE b19_rebalanceValid
  <2>1. PhaseHolds(Fail("19", "20c"), site, limbo, mishaps)
    <3>1. drill.at \in PastKeeper
      BY <1>22 DEF b19_rebalanceValid, PhaseB, At, PastKeeper
    <3>2. PhaseOn(Fail("19", "20c")) /\ Fail("19", "20c").at = "20c"
      BY <1>2, NamesAre
    <3> QED BY <1>9, <3>1, <3>2 DEF PastKeeper
  <2>2. PhaseHolds(Fail("19", "20c"), site, limbo, mishaps - 1)
    BY <1>22, <1>1, <1>2, <1>5, <1>6, <1>7, PhaseErr, NamesAre
    DEF b19_rebalanceValid, PhaseB, At, PastKeeper
  <2>3. /\ Fail("19", "20c") \in Drill /\ Fail("19", "20c").script = "phase_b"
    BY <1>2, <1>3, NamesAre
  <2> QED BY <1>22, <2>3, <2>1, <2>2, PhaseReads DEF b19_rebalanceValid
<1>23. CASE b20c_rebalanceTooSoon
  <2>1. PhaseHolds(Go("end"), site, limbo, mishaps)
    <3>1. drill.at \in PastKeeper
      BY <1>23 DEF b20c_rebalanceTooSoon, PhaseB, At, PastKeeper
    <3>2. PhaseOn(Go("end")) /\ Go("end").at = "end"
      BY <1>2, NamesAre
    <3> QED BY <1>9, <3>1, <3>2 DEF PastKeeper
  <2>2. PhaseHolds(Fail("20", "end"), site, limbo, mishaps - 1)
    BY <1>23, <1>1, <1>2, <1>5, <1>6, <1>7, PhaseErr, NamesAre
    DEF b20c_rebalanceTooSoon, PhaseB, At, PastKeeper
  <2>3. /\ Go("end") \in Drill /\ Go("end").script = "phase_b"
        /\ Fail("20", "end") \in Drill /\ Fail("20", "end").script = "phase_b"
    BY <1>2, <1>3, NamesAre
  <2> QED BY <1>23, <2>3, <2>1, <2>2, PhaseReads DEF b20c_rebalanceTooSoon
<1> QED BY <1>10, <1>11, <1>12, <1>13, <1>14, <1>15, <1>16, <1>17, <1>18, <1>19, <1>20, <1>21, <1>22, <1>23 DEF PhaseBStep

-----------------------------------------------------------------------------
(* The other scripts, and the operator *)

(* The steps of the other scripts keep the types, and never turn into runs *)
(* of the gate or of phase B.                                              *)
LEMMA OtherPreserved ==
    ASSUME DrillType, OtherStep
    PROVE  DrillType' /\ drill'.script \notin {"gate", "phase_b"}
<1>1. /\ \A step \in Name : Go(step) \in Drill /\ Go(step).script = drill.script
      /\ NoDrill \in Drill /\ NoDrill.script = "none"
  BY GoFacts, NoDrillFacts DEF DrillType
<1>2. drill.script \notin {"gate", "phase_b"}
  BY DEF OtherStep, seed_reads, seed_deposit, seed_whitelist, seed_allocate, flag_reads,
         flag_sends, raise_cap, At
<1>3. DrillType' /\ (drill' = NoDrill \/ \E step \in Name : drill' = Go(step))
  <2>1. CASE seed_reads
    BY <1>1, <2>1, ReadsCases, NamesAre DEF seed_reads
  <2>2. CASE seed_deposit
    <3>1. <<"deposit", Cap>> \in DrillTx
      BY DrillAssumption DEF DrillTx
    <3>2. (IF site.haltedBy = "none" THEN Go("2") ELSE NoDrill) \in Drill
      BY <1>1, NamesAre
    <3>3. Go("2") \in Drill
      BY <1>1, NamesAre
    <3>4. /\ DrillType'
          /\ drill' \in {Go("2"), IF site.haltedBy = "none" THEN Go("2") ELSE NoDrill, NoDrill}
      BY <1>1, <2>2, <3>1, <3>2, <3>3, SendsCases DEF seed_deposit
    <3> QED BY <3>4, NamesAre
  <2>3. CASE seed_whitelist
    <3>1. <<"whitelist", 0>> \in DrillTx
      BY DEF DrillTx
    <3>2. Go("2 allocate") \in Drill
      BY <1>1, NamesAre
    <3>3. DrillType' /\ drill' \in {Go("2 allocate"), NoDrill}
      BY <1>1, <2>3, <3>1, <3>2, SendsCases DEF seed_whitelist
    <3> QED BY <3>3, NamesAre
  <2>4. CASE seed_allocate
    <3>1. <<"allocate", 0>> \in DrillTx
      BY DEF DrillTx
    <3> QED BY <1>1, <2>4, <3>1, SendsCases, NamesAre DEF seed_allocate
  <2>5. CASE flag_reads
    <3>1. PICK s \in {"halt", "resume"} :
             Reads(Go(IF (site.haltedBy # "none") = (s = "halt") THEN "end" ELSE "2"), NoDrill)
      BY <2>5 DEF flag_reads
    <3>2. PICK step \in {"end", "2"} : Reads(Go(step), NoDrill)
      BY <3>1
    <3> QED BY <1>1, <3>2, ReadsCases, NamesAre
  <2>6. CASE flag_sends
    <3>1. PICK s \in {"halt", "resume"} :
             Sends(<<s, "operator">>, Go("end"), NoDrill, NoDrill)
      BY <2>6 DEF flag_sends
    <3>2. <<s, "operator">> \in DrillTx
      BY NamesAre DEF DrillTx
    <3> QED BY <1>1, <3>1, <3>2, SendsCases, NamesAre
  <2>7. CASE raise_cap
    <3>1. <<"cap", RaisedCap>> \in DrillTx
      BY DrillAssumption DEF DrillTx, RaisedCap
    <3> QED BY <1>1, <2>7, <3>1, SendsCases, NamesAre DEF raise_cap
  <2> QED BY <2>1, <2>2, <2>3, <2>4, <2>5, <2>6, <2>7 DEF OtherStep
<1> QED BY <1>1, <1>2, <1>3

(* The invariants of both scripts together. *)
DrillInv == DrillType /\ GateInv /\ PhaseBInv /\ crew \subseteq DrillScripts

(* Nothing has run. *)
LEMMA DrillInitInv == DrillInit => DrillInv
<1> SUFFICES ASSUME DrillInit PROVE DrillInv
  OBVIOUS
<1>1. \A held \in OtherHoldings : SetUpSite(held) \in Site
  <2>1. "none" \in Name /\ "original" \in Name
    BY NamesAre
  <2>2. Cap \in Int /\ OtherHoldings \subseteq Int
    BY DrillAssumption
  <2> QED BY <2>1, <2>2 DEF SetUpSite, Site
<1>2. DrillType
  BY <1>1, NoDrillFacts, DrillAssumption DEF DrillInit, DrillType
<1>3. GateInv /\ PhaseBInv
  BY NoDrillFacts DEF DrillInit, GateInv, PhaseBInv, PhaseHolds
<1> QED BY <1>2, <1>3, DrillAssumption DEF DrillInit, DrillInv

(* A late transaction disturbs no run that it is not a step of. *)
LEMMA LimboPreserved ==
    ASSUME DrillInv, limboLands
    PROVE  DrillInv'
<1>1. PICK t \in DrillTx : limbo = <<t>> /\ limbo[1] = t
  BY DEF DrillInv, DrillType, limboLands
<1>2. /\ site' = site \/ site' = Landed(t, site)
      /\ limbo' = <<>> /\ drill' = drill /\ mishaps' = mishaps /\ crew' = crew
  BY <1>1 DEF limboLands
<1>3. DrillType'
  BY <1>1, <1>2, LandedFacts DEF DrillInv, DrillType
<1>4. GateInv'
  <2> SUFFICES ASSUME drill.script = "gate", drill.failed = {}, ~drill.haunted
               PROVE  /\ drill.at \in PastSeven /\ ~drill.unseen => site'.pending = 0
                      /\ drill.at = "end" => site'.haltedBy = "none"
    BY <1>2 DEF GateInv
  <2>1. t[1] \in {"deposit", "resume"}
    BY <1>1 DEF DrillInv, GateInv
  <2>2. /\ Landed(t, site).pending = site.pending
        /\ Landed(t, site).haltedBy \in {"none", site.haltedBy}
    BY <1>1, <2>1, LandedFacts DEF DrillInv, DrillType
  <2> QED BY <1>2, <2>2 DEF DrillInv, GateInv
<1>5. PhaseBInv'
  <2> SUFFICES ASSUME drill.script = "phase_b", ~drill.haunted
               PROVE  PhaseHolds(drill, site', <<>>, mishaps)
    BY <1>2 DEF PhaseBInv, PhaseHolds
  <2>1. mishaps # drill.budget /\ mishaps <= drill.budget
    BY <1>1 DEF DrillInv, PhaseBInv, PhaseHolds
  <2>2. "18" \notin drill.failed /\ drill.at \in PastKeeper => site'.keeper # "temp"
    <3> SUFFICES ASSUME "18" \notin drill.failed, drill.at \in PastKeeper
                 PROVE  site'.keeper # "temp"
      OBVIOUS
    <3>1. site.keeper # "temp" /\ <<t>> # << <<"keeper", "temp">> >>
      BY <1>1 DEF DrillInv, PhaseBInv, PhaseHolds
    <3>2. t # <<"keeper", "temp">>
      BY <3>1
    <3>3. t[1] = "keeper" => t[2] # "temp"
      BY <1>1, <3>2 DEF DrillTx
    <3>4. Landed(t, site).keeper # "temp"
      BY <1>1, <3>1, <3>3, LandedFacts DEF DrillInv, DrillType
    <3> QED BY <1>2, <3>1, <3>4
  <2> QED BY <2>1, <2>2 DEF PhaseHolds
<1> QED BY <1>2, <1>3, <1>4, <1>5 DEF DrillInv

(* Every step of the drills preserves them. *)
LEMMA DrillStepInv == DrillInv /\ [DrillNext]_drillVars => DrillInv'
<1> SUFFICES ASSUME DrillInv, [DrillNext]_drillVars
             PROVE  DrillInv'
  OBVIOUS
<1>1. /\ NoDrill \in Drill /\ NoDrill.script = "none"
  BY NoDrillFacts
<1>2. CASE GateStep
  <2>1. DrillType' /\ GateInv' /\ drill'.script = "gate"
    BY <1>2, GatePreserved DEF DrillInv
  <2>2. crew' = crew
    BY <1>2 DEF GateStep, step1_verifyProgram, step2_verifyVaults,
         step3_verifyProtocolIntegration, step4_reads, step4_balance, step4_deposit,
         step5_verifyShares, step6_reads, step6_requestWithdraw, step7_reads, step7_flag,
         step7_halt, step7_fetch, step7_withdraw, step7_resume, step8_verifyUsdcReturned,
         step9_flag, step9_halt, step9_check, step9_vault, step9_giveUp, step9_deposit,
         step9_resume, step9_verify, step10_verifyState, SendsOrFails, Reads, Sends
  <2> QED BY <2>1, <2>2 DEF DrillInv, PhaseBInv, PhaseHolds
<1>3. CASE PhaseBStep
  <2>1. DrillType' /\ PhaseBInv' /\ drill'.script # "gate"
    BY <1>3, PhasePreserved DEF DrillInv
  <2>2. crew' = crew
    BY <1>3 DEF PhaseBStep, b17_reads, b17_update, b17_verify, b17_vault, b17_balance,
         b17_deposit, restoreDepositCap, b18_change, b18_verify, b18_restore, b18_check,
         b20ab_weightValidation, b19_rebalanceValid, b20c_rebalanceTooSoon, SendsOrFails,
         Reads, Sends
  <2> QED BY <2>1, <2>2 DEF DrillInv, GateInv
<1>4. CASE OtherStep
  <2>1. DrillType' /\ drill'.script \notin {"gate", "phase_b"}
    BY <1>4, OtherPreserved DEF DrillInv
  <2>2. crew' = crew
    BY <1>4 DEF OtherStep, seed_reads, seed_deposit, seed_whitelist, seed_allocate,
         flag_reads, flag_sends, raise_cap, Reads, Sends
  <2> QED BY <2>1, <2>2 DEF DrillInv, GateInv, PhaseBInv, PhaseHolds
<1>5. ASSUME NEW s \in crew, begins(s)
      PROVE  DrillInv'
  <2>1. s \in Name /\ FirstStep[s] \in {"1", "17"}
    BY NamesAre DEF DrillInv, DrillScripts, FirstStep
  <2>2. FirstStep[s] \in Name /\ mishaps \in Int
    BY <2>1, NamesAre DEF DrillInv, DrillType
  <2>3. PICK h \in BOOLEAN : h = (limbo # <<>>)
    OBVIOUS
  <2>4. PICK step \in Name : step = FirstStep[s]
    BY <2>2
  <2>5. /\ drill' \in Drill /\ drill'.script = s /\ drill'.at = FirstStep[s]
        /\ drill'.haunted = h /\ drill'.budget = mishaps
    <3>1. drill' = Begun(s, step, h, mishaps)
      BY <1>5, <2>3, <2>4 DEF begins, Begun
    <3>2. /\ Begun(s, step, h, mishaps) \in Drill
          /\ Begun(s, step, h, mishaps).script = s /\ Begun(s, step, h, mishaps).at = step
          /\ Begun(s, step, h, mishaps).haunted = h
          /\ Begun(s, step, h, mishaps).budget = mishaps
      BY <2>1, <2>2, BeginFacts
    <3> QED BY <2>4, <3>1, <3>2
  <2>6. drill'.at \in {"1", "17"}
    BY <2>1, <2>5
  <2>7. site' = site /\ limbo' = limbo /\ crew' = crew /\ mishaps' = mishaps
    BY <1>5 DEF begins
  <2>8. DrillType'
    BY <2>5, <2>7 DEF DrillInv, DrillType
  <2>9. GateInv'
    BY <2>5, <2>7, <2>3, <2>6 DEF GateInv, PastSeven
  <2>10. PhaseBInv'
    <3>1. /\ drill'.at \notin PastCap \cup PastKeeper
          /\ drill'.at \notin {"18 verify", "18 check"}
      BY <2>6 DEF PastCap, PastKeeper
    <3>2. ~h => limbo = <<>>
      BY <2>3
    <3>3. mishaps <= mishaps
      BY <2>2
    <3>4. ~drill'.haunted => limbo = <<>>
      BY <2>5, <3>2
    <3>5. << >> # << <<"keeper", "temp">> >>
      OBVIOUS
    <3>6. PhaseHolds(drill', site, limbo, mishaps)
      BY <2>5, <3>1, <3>3, <3>4, <3>5 DEF PhaseHolds
    <3> QED BY <2>7, <3>6 DEF PhaseBInv
  <2> QED BY <2>7, <2>8, <2>9, <2>10 DEF DrillInv
<1>6. CASE ends \/ cutOff
  <2>1. /\ drill' = NoDrill /\ site' = site /\ limbo' = limbo /\ crew' = crew
        /\ mishaps' = mishaps \/ mishaps' = mishaps - 1
    BY <1>6 DEF ends, cutOff
  <2>2. DrillType'
    BY <1>1, <2>1 DEF DrillInv, DrillType
  <2>3. GateInv' /\ PhaseBInv'
    BY <1>1, <2>1 DEF GateInv, PhaseBInv, PhaseHolds
  <2> QED BY <2>1, <2>2, <2>3 DEF DrillInv
<1>7. CASE limboLands
  BY <1>7, LimboPreserved
<1>8. CASE limboExpires
  <2>1. site' = site /\ drill' = drill /\ crew' = crew /\ mishaps' = mishaps /\ limbo' = <<>>
    BY <1>8 DEF limboExpires
  <2> QED BY <2>1 DEF DrillInv, DrillType, GateInv, PhaseBInv, PhaseHolds
<1>9. CASE UNCHANGED drillVars
  BY <1>9 DEF drillVars, DrillInv, DrillType, GateInv, PhaseBInv
<1> QED BY <1>2, <1>3, <1>4, <1>5, <1>6, <1>7, <1>8, <1>9 DEF DrillNext, DrillStep

(* The invariant holds in every state. *)
LEMMA DrillInvHolds == DrillSpec => []DrillInv
  BY DrillInitInv, DrillStepInv, PTL DEF DrillSpec

(* e2e-gate.ts:748-766: a gate run without a failed step leaves the        *)
(* allocator running.                                                      *)
THEOREM GateVerdict == DrillSpec => []GateVerdictHonest
<1>1. DrillInv => GateVerdictHonest
  BY DEF DrillInv, GateInv, GateVerdictHonest, Ending
<1> QED BY <1>1, DrillInvHolds, PTL

(* e2e-gate.ts:355-450: a gate run without a failed step that could read   *)
(* the position leaves no withdrawal pending.                              *)
THEOREM GateSettles == DrillSpec => []WithdrawalsSettle
<1>1. DrillInv => WithdrawalsSettle
  BY DEF DrillInv, GateInv, WithdrawalsSettle, Ending, PastSeven
<1> QED BY <1>1, DrillInvHolds, PTL

(* test-phase-b.ts:214,277: an undisturbed run of phase B puts cap and     *)
(* keeper back, and none leaves the temporary keeper unsaid.               *)
THEOREM PhaseBUndone == DrillSpec => []PhaseBRestores
<1>1. DrillInv => PhaseBRestores
  BY DEF DrillInv, PhaseBInv, PhaseHolds, PhaseBRestores, Ending, PastCap, PastKeeper
<1> QED BY <1>1, DrillInvHolds, PTL
=============================================================================
