------------------------------ MODULE Providers ------------------------------
(***************************************************************************)
(* The list of LLM providers, which administrators edit as a whole         *)
(* (LlmTab of the console's Settings.tsx, PUT and GET of api/llm.ts, the   *)
(* settings llm.providers and the secrets llm.<name>).                     *)
(*                                                                         *)
(* A provider is its name, the secret its key is in, named after the       *)
(* provider that brought it, and who: the number it was added under, which *)
(* only the specification knows.  Keys are numbers, 0 for none.            *)
(***************************************************************************)
EXTENDS Naturals, Sequences, SequencesExt

CONSTANTS
    ProviderIds,
    Desks,    \* administrators, each with the tab open
    MaxEdits  \* bound on the lists sent; nobody looks at the tab after the last

ProvidersAssumption == MaxEdits \in Nat

VARIABLES
    saved,      \* the setting
    secret,     \* the secrets
    shown,      \* providers, of a tab
    load,       \* the answer that a refresh of a tab waits for
    dialog,     \* the provider that is edited, added or deleted, and its index
    put,        \* the request of a tab, and its reload afterwards
    meant,      \* history: who is to be there, under which name and with which key
    astray,     \* history: stale, a list was written over one its sender had not seen;
                \* shifted, a dialog was confirmed after the entry at its index had become
                \* another; shared, a key was stored in a secret that another provider
                \* uses or is about to, or while another key came; partial, a key
                \* was stored and its list was not
    edits

providersVars == <<saved, secret, shown, load, dialog, put, meant, astray, edits>>

Nothing == [pc |-> "none"]

First == CHOOSE n \in ProviderIds : TRUE
Entry(n, ref, w) == [name |-> n, ref |-> ref, who |-> w]

\* One provider has been added, and every tab shows it.
ProvidersInit ==
    /\ saved = <<Entry(First, First, 1)>>
    /\ secret = [n \in ProviderIds |-> IF n = First THEN 1 ELSE 0]
    /\ shown = [d \in Desks |-> saved] /\ load = [d \in Desks |-> Nothing]
    /\ dialog = [d \in Desks |-> Nothing] /\ put = [d \in Desks |-> Nothing]
    /\ meant = {[who |-> 1, name |-> First, key |-> 1]} /\ astray = {} /\ edits = 1

Note(what, so)  == astray' = IF so THEN astray \union {what} ELSE astray
Put(d, rec)     == put' = [put EXCEPT ![d] = rec]
PutAt(d, pc)    == put[d].pc = pc
Server          == <<saved, secret>>
Histories       == <<meant, astray>>

-----------------------------------------------------------------------------
(* the tab *)

Refreshes(d) ==
    /\ dialog[d] = Nothing /\ load[d] = Nothing /\ edits < MaxEdits
    /\ load' = [load EXCEPT ![d] = [pc |-> "answer", list |-> saved]]
    /\ UNCHANGED <<Server, shown, dialog, put, Histories, edits>>

\* The list is replaced whenever an answer comes, under a dialog too.
Refreshed(d) ==
    /\ load[d] # Nothing /\ edits < MaxEdits
    /\ shown' = [shown EXCEPT ![d] = load[d].list]
    /\ load' = [load EXCEPT ![d] = Nothing]
    /\ UNCHANGED <<Server, dialog, put, Histories, edits>>

NewForm == Entry("", "", 0)

\* The form is filled from the entry, the dialog remembers the index.  (A bound: nobody
\* opens a dialog while a request of his is on its way.)
Opens(d, kind, i) ==
    /\ dialog[d] = Nothing /\ PutAt(d, "none") /\ edits < MaxEdits
    /\ dialog' = [dialog EXCEPT ![d] =
           [pc |-> kind, i |-> i,
            of |-> IF i = 0 THEN NewForm ELSE shown[d][i]]]
    /\ UNCHANGED <<Server, shown, load, put, Histories, edits>>

\* The buttons wait for a request under way, a key or a click beside the dialog does not.
Cancels(d) ==
    /\ dialog[d] # Nothing /\ edits < MaxEdits
    /\ dialog' = [dialog EXCEPT ![d] = Nothing]
    /\ UNCHANGED <<Server, shown, load, put, Histories, edits>>

Sends(d, list, entry, key) ==
    /\ PutAt(d, "none") /\ edits < MaxEdits /\ edits' = edits + 1
    /\ Put(d, [pc |-> "sent", list |-> list, seen |-> shown[d], kind |-> dialog[d].pc,
               entry |-> entry, was |-> dialog[d].of.ref, key |-> key])
    /\ Note("shifted", LET i == dialog[d].i IN i # 0 /\ (i > Len(shown[d]) \/ shown[d][i] # dialog[d].of))
    /\ UNCHANGED <<Server, shown, load, dialog, meant>>

\* submitEdit: a key of its own, or the secret of the form.  Of a list that has become
\* too short a list with a hole is made, which the kernel refuses.
SubmitsEdit(d, n, key) ==
    /\ dialog[d].pc = "edit"
    /\ LET g     == dialog[d]
           entry == Entry(n, IF key # 0 THEN n ELSE g.of.ref, IF g.i = 0 THEN edits + 1 ELSE g.of.who)
       IN  /\ g.i = 0 => key # 0
           /\ g.i <= Len(shown[d]) + 1
           /\ Sends(d, IF g.i \in {0, Len(shown[d]) + 1} THEN Append(shown[d], entry)
                                                        ELSE [shown[d] EXCEPT ![g.i] = entry],
                    entry, key)

SubmitsDelete(d) ==
    /\ dialog[d].pc = "delete"
    /\ Sends(d, IF dialog[d].i \in DOMAIN shown[d] THEN RemoveAt(shown[d], dialog[d].i) ELSE shown[d],
             dialog[d].of, 0)

-----------------------------------------------------------------------------
(* PUT /api/v1/llm/providers, and the reload *)

\* Another provider, saved or about to be, has its key there, or another request brings
\* a key of this one.
Shared(d, ref, who) ==
    LET others == {e \in Desks \ {d} : put[e].pc \in {"sent", "keyed"}}
    IN  \/ \E list \in {saved, put[d].list} \union {put[e].list : e \in others} :
               \E i \in DOMAIN list : list[i].ref = ref /\ list[i].who # who
        \/ \E e \in others : put[e].key # 0 /\ put[e].entry.who = who

\* Slip: the key is stored where the provider had its key so far.
StoresKeyThere(d) ==
    /\ PutAt(d, "sent") /\ put[d].key # 0
    /\ LET r == put[d]
           at == IF r.was = "" THEN r.entry.name ELSE r.was
       IN  /\ secret' = [secret EXCEPT ![at] = r.key]
           /\ Note("shared", Shared(d, at, r.entry.who))
           /\ Put(d, [r EXCEPT !.pc = "keyed"])
    /\ UNCHANGED <<saved, shown, load, dialog, meant, edits>>

\* A key in the clear goes to the secret of the provider's name first.
StoresKey(d) ==
    /\ PutAt(d, "sent") /\ put[d].key # 0
    /\ LET r == put[d]
           n == r.entry.name
       IN  /\ secret' = [secret EXCEPT ![n] = r.key]
           /\ Note("shared", Shared(d, n, r.entry.who))
           /\ Put(d, [r EXCEPT !.pc = "keyed"])
    /\ UNCHANGED <<saved, shown, load, dialog, meant, edits>>

KeyOf(r) == IF r.key # 0 THEN {r.key} ELSE {m.key : m \in {m \in meant : m.who = r.entry.who}}

\* The whole list is written over what is there.
WritesList(d) ==
    /\ PutAt(d, "keyed") \/ (PutAt(d, "sent") /\ put[d].key = 0)
    /\ LET r == put[d]
           others == {m \in meant : m.who # r.entry.who}
       IN  /\ saved' = r.list
           /\ meant' = others \union
                  (IF r.kind = "delete" THEN {}
                   ELSE {[who |-> r.entry.who, name |-> r.entry.name, key |-> k] : k \in KeyOf(r)})
           /\ Note("stale", r.seen # saved)
           /\ Put(d, [pc |-> "written", kind |-> r.kind])
    /\ UNCHANGED <<secret, shown, load, dialog, edits>>

\* Storing fails, or the process dies: the dialog stays open.
PutFails(d) ==
    /\ put[d].pc \in {"sent", "keyed"}
    /\ Note("partial", PutAt(d, "keyed"))
    /\ Put(d, Nothing)
    /\ UNCHANGED <<Server, shown, load, dialog, meant, edits>>

ReadsBack(d) ==
    /\ PutAt(d, "written")
    /\ Put(d, [pc |-> "back", kind |-> put[d].kind, list |-> saved])
    /\ UNCHANGED <<Server, shown, load, dialog, Histories, edits>>

\* A dialog of the kind closes when the list has been read again, or that has failed.
Reloaded(d, got) ==
    /\ PutAt(d, "back")
    /\ shown' = IF got THEN [shown EXCEPT ![d] = put[d].list] ELSE shown
    /\ Put(d, Nothing)
    /\ dialog' = IF dialog[d].pc = put[d].kind THEN [dialog EXCEPT ![d] = Nothing] ELSE dialog
    /\ UNCHANGED <<Server, load, Histories, edits>>

ProvidersNext ==
    \E d \in Desks :
        \/ Refreshes(d) \/ Refreshed(d) \/ Cancels(d)
        \/ \E i \in 0 .. Len(shown[d]) : Opens(d, "edit", i)
        \/ \E i \in DOMAIN shown[d] : Opens(d, "delete", i)
        \/ \E n \in ProviderIds, own \in BOOLEAN : SubmitsEdit(d, n, IF own THEN edits + 1 ELSE 0)
        \/ SubmitsDelete(d)
        \/ StoresKey(d) \/ WritesList(d) \/ PutFails(d) \/ ReadsBack(d)
        \/ \E got \in BOOLEAN : Reloaded(d, got)

ProvidersSpec == ProvidersInit /\ [][ProvidersNext]_providersVars

-----------------------------------------------------------------------------
\* Every variable stays within its type.
ProvidersTypeOK ==
    /\ \A list \in {saved} \union {shown[d] : d \in Desks} :
           /\ Len(list) <= MaxEdits
           /\ ToSet(list) \subseteq [name : ProviderIds, ref : ProviderIds, who : 1 .. MaxEdits]
    /\ secret \in [ProviderIds -> 0 .. MaxEdits]
    /\ \A d \in Desks : dialog[d].pc \in {"none", "edit", "delete"}
    /\ astray \subseteq {"stale", "shifted", "shared", "partial"} /\ edits \in 0 .. MaxEdits

\* Whatever fails, the secret of every provider has a key.  What is saved is what the
\* administrators have saved one after the other, unless one wrote over a list he had
\* not seen or his list changed under the dialog; and every provider has the key that
\* was last given to it, unless a key went to a secret that two providers use, or its
\* list was not saved.
ProvidersKept ==
    /\ \A i \in DOMAIN saved : secret[saved[i].ref] # 0
    /\ astray \cap {"stale", "shifted"} = {} =>
           {<<p.who, p.name>> : p \in ToSet(saved)} = {<<m.who, m.name>> : m \in meant}
    /\ astray = {} /\ (\A d \in Desks : ~PutAt(d, "keyed")) =>
           \A m \in meant, i \in DOMAIN saved : saved[i].who = m.who => secret[saved[i].ref] = m.key
=============================================================================
