----------------------------- MODULE MCServices -----------------------------
(***************************************************************************)
(* The components that share no table a property relates, in one run: a    *)
(* behaviour is one of a single component, chosen at the start.            *)
(***************************************************************************)
EXTENDS Replies, Revenue, Imports, Accounts, Monitoring, Health, Drafting

CONSTANTS ann, bob, bad

VARIABLE running

\* Addresses repeat within a chunk and across chunks; a row does not parse; the
\* last chunk is full or not.
MCFiles == {<<ann, bob, ann>>, <<ann, bad, bob, ann>>, <<bad>>}

repliesFixed == UNCHANGED repliesVars
revenueFixed == UNCHANGED revenueVars
importsFixed == UNCHANGED importsVars
accountsFixed == UNCHANGED accountsVars
monitoringFixed == UNCHANGED monitoringVars
healthFixed == UNCHANGED healthVars
draftingFixed == UNCHANGED draftingVars

ServicesInit ==
    /\ running \in {"replies", "revenue", "imports", "accounts", "monitoring",
                  "health", "drafting"}
    /\ RepliesInit /\ RevenueInit /\ ImportsInit /\ AccountsInit
    /\ MonitoringInit /\ HealthInit /\ DraftingInit

ServicesNext ==
    /\ UNCHANGED running
    /\ \/ /\ running = "replies" /\ RepliesNext
          /\ revenueFixed /\ importsFixed /\ accountsFixed
          /\ monitoringFixed /\ healthFixed /\ draftingFixed
       \/ /\ running = "revenue" /\ RevenueNext
          /\ repliesFixed /\ importsFixed /\ accountsFixed
          /\ monitoringFixed /\ healthFixed /\ draftingFixed
       \/ /\ running = "imports" /\ ImportsNext
          /\ repliesFixed /\ revenueFixed /\ accountsFixed
          /\ monitoringFixed /\ healthFixed /\ draftingFixed
       \/ /\ running = "accounts" /\ AccountsNext
          /\ repliesFixed /\ revenueFixed /\ importsFixed
          /\ monitoringFixed /\ healthFixed /\ draftingFixed
       \/ /\ running = "monitoring" /\ MonitoringNext
          /\ repliesFixed /\ revenueFixed /\ importsFixed
          /\ accountsFixed /\ healthFixed /\ draftingFixed
       \/ /\ running = "health" /\ HealthNext
          /\ repliesFixed /\ revenueFixed /\ importsFixed
          /\ accountsFixed /\ monitoringFixed /\ draftingFixed
       \/ /\ running = "drafting" /\ DraftingNext
          /\ repliesFixed /\ revenueFixed /\ importsFixed
          /\ accountsFixed /\ monitoringFixed /\ healthFixed

ServicesSpec ==
    ServicesInit
      /\ [][ServicesNext]_<<running, repliesVars, revenueVars, importsVars, accountsVars,
                            monitoringVars, healthVars, draftingVars>>

\* Every component's rows and requests stay within the values the code names.
ServicesTypeOK ==
    /\ RepliesTypeOK /\ RevenueTypeOK /\ ImportsTypeOK /\ AccountsTypeOK
    /\ MonitoringTypeOK /\ HealthTypeOK /\ DraftingTypeOK

=============================================================================
