---------------------------- MODULE Driver_proofs ---------------------------
(***************************************************************************)
(* Proofs about Driver, for every set of workspaces: any number of         *)
(* packages, any graph of dependencies, any files.                         *)
(***************************************************************************)
EXTENDS DriverChecks, NatInduction, SequenceTheorems, FiniteSetTheorems

-----------------------------------------------------------------------------
(***************************************************************************)
(* Sequences and workspaces.                                               *)
(***************************************************************************)
\* The first n elements of a sequence.
LEMMA Prefix ==
    ASSUME NEW S, NEW s \in Seq(S), NEW n \in Nat, n <= Len(s)
    PROVE  /\ SubSeq(s, 1, n) \in Seq(S)
           /\ Len(SubSeq(s, 1, n)) = n
           /\ \A k \in 1 .. n : SubSeq(s, 1, n)[k] = s[k]
<1>1. \A i \in 1 .. n : s[i] \in S
  OBVIOUS
<1>2. /\ SubSeq(s, 1, n) \in Seq(S)
      /\ Len(SubSeq(s, 1, n)) = IF 1 <= n THEN n - 1 + 1 ELSE 0
      /\ \A i \in 1 .. n - 1 + 1 : SubSeq(s, 1, n)[i] = s[1 + i - 1]
  BY <1>1, SubSeqProperties
<1> QED BY <1>2

LEMMA Singleton ==
    ASSUME NEW S, NEW x \in S
    PROVE  <<x>> \in Seq(S) /\ Len(<<x>>) = 1 /\ <<x>>[1] = x
OBVIOUS

\* The last element is popped and the one below it replaced.
LEMMA ReplaceCaller ==
    ASSUME NEW S, NEW s \in Seq(S), NEW e \in S, Len(s) > 1,
           NEW t, t = Append(SubSeq(s, 1, Len(s) - 2), e)
    PROVE  /\ t \in Seq(S)
           /\ Len(t) = Len(s) - 1
           /\ \A k \in 1 .. Len(s) - 2 : t[k] = s[k]
           /\ t[Len(s) - 1] = e
<1> DEFINE n == Len(s) - 2
           p == SubSeq(s, 1, n)
<1>1. n \in Nat /\ n <= Len(s)
  OBVIOUS
<1>2. p \in Seq(S) /\ Len(p) = n /\ \A k \in 1 .. n : p[k] = s[k]
  BY <1>1, Prefix
<1>3. t = Append(p, e)
  OBVIOUS
<1> HIDE DEF p
<1>4. t \in Seq(S) /\ Len(t) = n + 1 /\ t[n + 1] = e /\ \A k \in 1 .. n : t[k] = p[k]
  BY <1>1, <1>2, <1>3
<1>5. n + 1 = Len(s) - 1
  OBVIOUS
<1> QED BY <1>2, <1>4, <1>5

\* What a workspace has at a directory.
LEMMA AtDirectory ==
    ASSUME IsWorkspace(workspace), NEW d \in workspace.dirs
    PROVE  /\ ManifestAt(d).kind \in {"missing", "bad", "good"}
           /\ Deps(d) \in Seq(workspace.dirs)
           /\ ManifestAt(d).bins \in Seq(workspace.files)
           /\ workspace.sources[d] \subseteq workspace.files
<1>1. ManifestAt(d) \in Manifest(workspace.dirs, workspace.files)
  BY DEF IsWorkspace, ManifestAt
<1>2. workspace.sources[d] \in SUBSET workspace.files
  BY DEF IsWorkspace
<1> QED BY <1>1, <1>2 DEF Manifest, Deps

-----------------------------------------------------------------------------
(***************************************************************************)
(* Type correctness and the path of visited packages, one inductive        *)
(* invariant: that a dependency index stays in range after a return needs  *)
(* that the caller was at a dependency, which VisitedIsPath says.          *)
(***************************************************************************)
TypeResolving ==
    /\ IsWorkspace(workspace)
    /\ stack \in Seq(Frame)
    /\ \A i \in 1 .. Len(stack) : stack[i].next <= Len(Deps(stack[i].dir)) + 1
    /\ visited \in Seq(workspace.dirs)
    /\ resolved \in Seq(workspace.dirs)

TypeOthers ==
    /\ command \in Commands
    /\ stage \in {"start", "resolve", "discover", "load", "bin", "modules", "resolved",
                  "types", "typed", "exited"}
    /\ queue \in Seq(workspace.dirs)
    /\ pending \subseteq workspace.files
    /\ files \subseteq workspace.files
    /\ root \subseteq workspace.files
    /\ loaded \in [manifests : SUBSET workspace.dirs, files : SUBSET workspace.files]
    /\ diags \subseteq Errors \cup Warnings
    /\ exit \in ResultCode \cup {Running}

Fresh ==
    /\ stage = "start" => stack = <<>> /\ visited = <<>> /\ resolved = <<>> /\ pending = {}
    /\ stage = "load" => queue # <<>>

TypeInv == TypeResolving /\ TypeOthers /\ VisitedIsPath /\ Fresh

LEMMA TypeInvImplies == TypeInv => TypeOK
BY DEF TypeInv, TypeResolving, TypeOthers, TypeOK

LEMMA TypeInit == Init => TypeInv
<1> SUFFICES ASSUME Init PROVE TypeInv
  OBVIOUS
<1>1. IsWorkspace(workspace)
  BY WorkspacesAssumption DEF Init
<1>2. TypeResolving
  BY <1>1 DEF Init, TypeResolving
<1>3. TypeOthers
  BY DEF Init, TypeOthers, Running
<1>4. VisitedIsPath /\ Fresh
  BY DEF Init, VisitedIsPath, Fresh
<1> QED BY <1>2, <1>3, <1>4 DEF TypeInv

\* The directory resolve_into is called with.
LEMMA CalleeType ==
    ASSUME TypeResolving, Calls
    PROVE  /\ Callee \in workspace.dirs
           /\ stack # <<>> => /\ Len(stack) \in Nat \ {0}
                              /\ Top \in Frame
                              /\ Top.next \in 1 .. Len(Deps(Top.dir))
<1>1. CASE stack = <<>>
  BY <1>1 DEF TypeResolving, Callee, Target, IsWorkspace
<1>2. CASE stack # <<>>
  <2>1. Len(stack) \in Nat \ {0} /\ Top \in Frame
    BY <1>2 DEF TypeResolving, Top
  <2>2. Top.dir \in workspace.dirs /\ Top.next \in Nat \ {0}
    BY <2>1 DEF Frame
  <2>3. Deps(Top.dir) \in Seq(workspace.dirs)
    BY <2>2, AtDirectory DEF TypeResolving
  <2>4. Top.next \in 1 .. Len(Deps(Top.dir))
    BY <1>2, <2>2, <2>3 DEF Calls
  <2>5. Callee \in workspace.dirs
    BY <1>2, <2>3, <2>4 DEF Callee
  <2> QED BY <2>1, <2>4, <2>5
<1> QED BY <1>1, <1>2

LEMMA ResolvingKept ==
    ASSUME TypeResolving, UNCHANGED <<workspace, resolving>>
    PROVE  TypeResolving'
BY DEF TypeResolving, resolving, Frame, Deps, ManifestAt

LEMMA FailType ==
    ASSUME TypeOthers, NEW error \in Errors, FailWith(error),
           loaded' \in [manifests : SUBSET workspace.dirs, files : SUBSET workspace.files]
    PROVE  TypeOthers'
BY DEF TypeOthers, FailWith, Failed, ResultCode, discovering

LEMMA ConcludeType ==
    ASSUME TypeOthers, Conclude
    PROVE  TypeOthers'
BY DEF TypeOthers, Conclude, Failed, ResultCode, discovering

LEMMA LoadManifestType ==
    ASSUME TypeOthers, NEW d \in workspace.dirs, LoadManifest(d)
    PROVE  loaded' \in [manifests : SUBSET workspace.dirs, files : SUBSET workspace.files]
BY DEF TypeOthers, LoadManifest

LEMMA LoadFileType ==
    ASSUME TypeOthers, NEW f \in workspace.files, LoadFile(f)
    PROVE  loaded' \in [manifests : SUBSET workspace.dirs, files : SUBSET workspace.files]
BY DEF TypeOthers, LoadFile

\* A package is entered: it is new on the path and its manifest is good.
LEMMA ResolveIntoType ==
    ASSUME TypeInv, ResolveInto
    PROVE  TypeResolving' /\ VisitedIsPath'
<1> DEFINE f == [dir |-> Callee, next |-> 1, packages |-> <<Callee>>]
<1>1. /\ TypeResolving /\ VisitedIsPath /\ stage = "resolve"
      /\ stack' = Append(stack, f) /\ visited' = Append(visited, Callee)
      /\ workspace' = workspace /\ resolved' = resolved
  BY DEF TypeInv, ResolveInto, Calls, GoTo
<1>2. /\ Callee \in workspace.dirs
      /\ stack # <<>> => /\ Len(stack) \in Nat \ {0}
                         /\ Top.next \in 1 .. Len(Deps(Top.dir))
  BY <1>1, CalleeType DEF ResolveInto
<1>3. f \in Frame /\ f.dir = Callee /\ f.next = 1
  <2>1. Callee \in workspace.dirs => <<Callee>> \in Seq(workspace.dirs)
    BY Singleton
  <2>2. f.dir = Callee /\ f.next = 1
    OBVIOUS
  <2>3. f \in [dir : workspace.dirs, next : Nat \ {0}, packages : Seq(workspace.dirs)]
    BY <2>1, <1>2
  <2> QED BY <2>2, <2>3 DEF Frame
<1>4. Deps(Callee) \in Seq(workspace.dirs)
  BY <1>1, <1>2, AtDirectory DEF TypeResolving
<1>5. stack \in Seq(Frame) /\ visited \in Seq(workspace.dirs) /\ Len(visited) = Len(stack)
  BY <1>1 DEF TypeResolving, VisitedIsPath
<1> HIDE DEF f
<1>6. /\ stack' \in Seq(Frame) /\ Len(stack') = Len(stack) + 1
      /\ stack'[Len(stack) + 1] = f
      /\ \A i \in 1 .. Len(stack) : stack'[i] = stack[i]
  BY <1>1, <1>3, <1>5
<1>7. /\ visited' \in Seq(workspace.dirs) /\ Len(visited') = Len(visited) + 1
      /\ visited'[Len(visited) + 1] = Callee
      /\ \A i \in 1 .. Len(visited) : visited'[i] = visited[i]
  BY <1>1, <1>2, <1>5
<1>8. Len(stack) \in Nat
  BY <1>5
<1>9. \A i \in 1 .. Len(stack') : stack'[i].next <= Len(Deps(stack'[i].dir)) + 1
  <2> SUFFICES ASSUME NEW i \in 1 .. Len(stack) + 1
               PROVE  stack'[i].next <= Len(Deps(stack'[i].dir)) + 1
    BY <1>6
  <2>1. CASE i = Len(stack) + 1
    <3>1. Len(Deps(Callee)) \in Nat
      BY <1>4
    <3> QED BY <2>1, <3>1, <1>3, <1>6
  <2>2. CASE i \in 1 .. Len(stack)
    BY <2>2, <1>1, <1>6 DEF TypeResolving
  <2> QED BY <2>1, <2>2, <1>8
<1>10. TypeResolving'
  BY <1>1, <1>6, <1>7, <1>9 DEF TypeResolving, Frame, Deps, ManifestAt
<1>11. ASSUME NEW i \in 1 .. Len(stack)
       PROVE  stack[i].dir # Callee
  <2>1. visited[i] = stack[i].dir /\ i \in 1 .. Len(visited)
    BY <1>1, <1>5 DEF VisitedIsPath
  <2> QED BY <2>1 DEF ResolveInto, Seen
<1>12. VisitedIsPath'
  <2>1. Len(visited') = Len(stack')
    BY <1>5, <1>6, <1>7
  <2>2. \A i \in 1 .. Len(stack') : visited'[i] = stack'[i].dir
    <3> SUFFICES ASSUME NEW i \in 1 .. Len(stack) + 1
                 PROVE  visited'[i] = stack'[i].dir
      BY <1>6
    <3>1. CASE i = Len(stack) + 1
      BY <3>1, <1>3, <1>5, <1>6, <1>7
    <3>2. CASE i \in 1 .. Len(stack)
      BY <3>2, <1>1, <1>5, <1>6, <1>7 DEF VisitedIsPath
    <3> QED BY <3>1, <3>2, <1>8
  <2>3. \A i, j \in 1 .. Len(stack') : stack'[i].dir = stack'[j].dir => i = j
    <3> SUFFICES ASSUME NEW i \in 1 .. Len(stack) + 1, NEW j \in 1 .. Len(stack) + 1,
                        stack'[i].dir = stack'[j].dir
                 PROVE  i = j
      BY <1>6
    <3>1. \A k \in 1 .. Len(stack) : stack'[k].dir = stack[k].dir /\ stack[k].dir # Callee
      BY <1>6, <1>11
    <3>2. stack'[Len(stack) + 1].dir = Callee
      BY <1>3, <1>6
    <3>3. \A k, l \in 1 .. Len(stack) : stack[k].dir = stack[l].dir => k = l
      BY <1>1 DEF VisitedIsPath
    <3> QED BY <3>1, <3>2, <3>3, <1>8
  <2>4. \A i \in 1 .. Len(stack') - 1 :
           /\ stack'[i].next <= Len(Deps(stack'[i].dir))
           /\ stack'[i + 1].dir = Deps(stack'[i].dir)[stack'[i].next]
    <3> SUFFICES ASSUME NEW i \in 1 .. Len(stack)
                 PROVE  /\ stack[i].next <= Len(Deps(stack[i].dir))
                        /\ stack'[i + 1].dir = Deps(stack[i].dir)[stack[i].next]
      BY <1>6, <1>8
    <3>1. CASE i = Len(stack)
      <4>1. stack # <<>> /\ Top = stack[i]
        BY <3>1, <1>8 DEF Top
      <4>2. Callee = Deps(Top.dir)[Top.next]
        BY <4>1 DEF Callee
      <4>3. stack'[i + 1].dir = Callee
        BY <3>1, <1>3, <1>6
      <4>4. Top.dir \in workspace.dirs
        <5>1. Top \in Frame
          BY <4>1, <1>5
        <5> QED BY <5>1 DEF Frame
      <4>5. Len(Deps(Top.dir)) \in Nat
        BY <4>4, <1>1, AtDirectory DEF TypeResolving
      <4> QED BY <4>1, <4>2, <4>3, <4>5, <1>2
    <3>2. CASE i \in 1 .. Len(stack) - 1
      <4>1. i + 1 \in 1 .. Len(stack)
        BY <3>2, <1>8
      <4>2. stack'[i + 1] = stack[i + 1]
        BY <4>1, <1>6
      <4> QED BY <3>2, <4>2, <1>1 DEF VisitedIsPath
    <3> QED BY <3>1, <3>2, <1>8
  <2>5. \A d : Deps(d)' = Deps(d)
    BY <1>1 DEF Deps, ManifestAt
  <2> QED BY <2>1, <2>2, <2>3, <2>4, <2>5 DEF VisitedIsPath
<1> QED BY <1>10, <1>12

LEMMA Concat ==
    ASSUME NEW S, NEW s \in Seq(S), NEW t \in Seq(S)
    PROVE  s \o t \in Seq(S) /\ Len(s \o t) = Len(s) + Len(t)
OBVIOUS

\* The caller's activation after a dependency is resolved.
LEMMA AdvancedType ==
    ASSUME NEW f \in Frame, NEW packages \in Seq(workspace.dirs)
    PROVE  /\ Advanced(f, packages) \in Frame
           /\ Advanced(f, packages).dir = f.dir
           /\ Advanced(f, packages).next = f.next + 1
           /\ Advanced(f, packages).packages = f.packages \o packages
<1>1. /\ f.dir \in workspace.dirs /\ f.next \in Nat \ {0}
      /\ f.packages \in Seq(workspace.dirs)
  BY DEF Frame
<1>2. f.packages \o packages \in Seq(workspace.dirs)
  BY <1>1, Concat
<1>3. f.next + 1 \in Nat \ {0}
  BY <1>1
<1> DEFINE n == f.next + 1
           ps == f.packages \o packages
           g == [f EXCEPT !.next = n, !.packages = ps]
<1>4. Advanced(f, packages) = g
  BY DEF Advanced, Merged
<1>5. n \in Nat \ {0} /\ ps \in Seq(workspace.dirs)
  BY <1>2, <1>3
<1>6. n = f.next + 1 /\ ps = f.packages \o packages
  OBVIOUS
<1> HIDE DEF n, ps
<1>7. g \in Frame /\ g.dir = f.dir /\ g.next = n /\ g.packages = ps
  BY <1>5 DEF Frame
<1> HIDE DEF g
<1> QED BY <1>4, <1>6, <1>7

\* A call returns to the package that made it, with the path one shorter.
LEMMA ReturnType ==
    ASSUME TypeInv, Return, Len(stack) > 1
    PROVE  /\ TypeResolving' /\ VisitedIsPath'
           /\ Len(stack') = Len(stack) - 1
           /\ \A k \in 1 .. Len(stack) - 2 : stack'[k] = stack[k]
           /\ stack'[Len(stack) - 1] = Advanced(stack[Len(stack) - 1], Top.packages)
<1> DEFINE n == Len(stack)
           caller == stack[n - 1]
           a == Advanced(caller, Top.packages)
<1>1. /\ TypeResolving /\ VisitedIsPath /\ stage = "resolve"
      /\ stack' = Append(SubSeq(stack, 1, n - 2), a) /\ visited' = Popped
      /\ workspace' = workspace /\ resolved' = resolved
  <2>1. TypeResolving /\ VisitedIsPath /\ stage = "resolve" /\ visited' = Popped
    BY DEF TypeInv, Return, Returns
  <2>2. Len(stack) # 1
    BY <2>1 DEF TypeResolving
  <2>3. /\ stack' = Append(SubSeq(stack, 1, n - 2), a)
        /\ GoTo("resolve") /\ resolved' = resolved
    BY <2>2 DEF Return
  <2> QED BY <2>1, <2>3 DEF GoTo
<1>2. stack \in Seq(Frame) /\ visited \in Seq(workspace.dirs) /\ Len(visited) = n
  BY <1>1 DEF TypeResolving, VisitedIsPath
<1>3. n \in Nat /\ n > 1
  BY <1>2
<1>4. Top \in Frame /\ caller \in Frame
  BY <1>2, <1>3 DEF Top
<1>5. /\ caller.dir \in workspace.dirs /\ caller.next \in Nat \ {0}
      /\ caller.packages \in Seq(workspace.dirs) /\ Top.packages \in Seq(workspace.dirs)
  BY <1>4 DEF Frame
<1>7. a \in Frame /\ a.dir = caller.dir /\ a.next = caller.next + 1
  BY <1>4, <1>5, AdvancedType
<1>8. caller.next <= Len(Deps(caller.dir)) /\ Len(Deps(caller.dir)) \in Nat
  <2>1. n - 1 \in 1 .. n - 1
    BY <1>3
  <2>2. Deps(caller.dir) \in Seq(workspace.dirs)
    BY <1>1, <1>5, AtDirectory DEF TypeResolving
  <2> QED BY <1>1, <2>1, <2>2 DEF VisitedIsPath
<1> HIDE DEF a
<1>9. /\ stack' \in Seq(Frame) /\ Len(stack') = n - 1
      /\ \A k \in 1 .. n - 2 : stack'[k] = stack[k]
      /\ stack'[n - 1] = a
  BY <1>1, <1>2, <1>3, <1>7, ReplaceCaller
<1>10. /\ visited' \in Seq(workspace.dirs) /\ Len(visited') = n - 1
       /\ \A k \in 1 .. n - 1 : visited'[k] = visited[k]
  <2>1. n - 1 \in Nat /\ n - 1 <= Len(visited)
    BY <1>2, <1>3
  <2>2. visited' = SubSeq(visited, 1, n - 1)
    BY <1>1, <1>2 DEF Popped
  <2> QED BY <1>2, <2>1, <2>2, Prefix
<1>11. \A i \in 1 .. Len(stack') : stack'[i].next <= Len(Deps(stack'[i].dir)) + 1
  <2> SUFFICES ASSUME NEW i \in 1 .. n - 1
               PROVE  stack'[i].next <= Len(Deps(stack'[i].dir)) + 1
    BY <1>9
  <2>1. CASE i = n - 1
    BY <2>1, <1>5, <1>7, <1>8, <1>9
  <2>2. CASE i \in 1 .. n - 2
    <3>1. i \in 1 .. n
      BY <2>2, <1>3
    <3> QED BY <2>2, <3>1, <1>1, <1>9 DEF TypeResolving
  <2> QED BY <2>1, <2>2, <1>3
<1>12. TypeResolving'
  BY <1>1, <1>9, <1>10, <1>11 DEF TypeResolving, Frame, Deps, ManifestAt
<1>13. \A k \in 1 .. n - 1 : stack'[k].dir = stack[k].dir
  BY <1>3, <1>7, <1>9
<1>14. VisitedIsPath'
  <2>1. Len(visited') = Len(stack')
    BY <1>9, <1>10
  <2>2. \A i \in 1 .. Len(stack') : visited'[i] = stack'[i].dir
    <3> SUFFICES ASSUME NEW i \in 1 .. n - 1
                 PROVE  visited'[i] = stack'[i].dir
      BY <1>9
    <3>1. visited[i] = stack[i].dir
      BY <1>1, <1>3 DEF VisitedIsPath
    <3> QED BY <3>1, <1>10, <1>13
  <2>3. \A i, j \in 1 .. Len(stack') : stack'[i].dir = stack'[j].dir => i = j
    <3> SUFFICES ASSUME NEW i \in 1 .. n - 1, NEW j \in 1 .. n - 1,
                        stack'[i].dir = stack'[j].dir
                 PROVE  i = j
      BY <1>9
    <3>1. stack[i].dir = stack[j].dir
      BY <1>13
    <3> QED BY <3>1, <1>1, <1>3 DEF VisitedIsPath
  <2>4. \A i \in 1 .. Len(stack') - 1 :
           /\ stack'[i].next <= Len(Deps(stack'[i].dir))
           /\ stack'[i + 1].dir = Deps(stack'[i].dir)[stack'[i].next]
    <3> SUFFICES ASSUME NEW i \in 1 .. n - 2
                 PROVE  /\ stack'[i].next <= Len(Deps(stack'[i].dir))
                        /\ stack'[i + 1].dir = Deps(stack'[i].dir)[stack'[i].next]
      <4>1. 1 .. Len(stack') - 1 = 1 .. n - 2
        BY <1>3, <1>9
      <4> QED BY <4>1, Zenon
    <3>1. i + 1 \in 1 .. n - 1 /\ i \in 1 .. n - 1
      BY <1>3
    <3>2. stack'[i] = stack[i] /\ stack'[i + 1].dir = stack[i + 1].dir
      BY <3>1, <1>9, <1>13
    <3> QED BY <3>1, <3>2, <1>1 DEF VisitedIsPath
  <2>5. \A d : Deps(d)' = Deps(d)
    BY <1>1 DEF Deps, ManifestAt
  <2> QED BY <2>1, <2>2, <2>3, <2>4, <2>5 DEF VisitedIsPath
<1> QED BY <1>9, <1>12, <1>14 DEF a

\* The first call returns and resolve_package is done.
LEMMA LastReturnType ==
    ASSUME TypeInv, Return, Len(stack) = 1
    PROVE  TypeResolving'
<1>1. /\ TypeResolving
      /\ stack' = <<>> /\ visited' = Popped /\ resolved' = Top.packages
      /\ workspace' = workspace
  BY DEF TypeInv, Return, Returns, GoTo
<1>2. Top \in Frame
  <2>1. stack \in Seq(Frame) /\ Len(stack) \in 1 .. Len(stack)
    BY <1>1 DEF TypeResolving
  <2> QED BY <2>1 DEF Top
<1>3. resolved' \in Seq(workspace.dirs)
  BY <1>1, <1>2 DEF Frame
<1>4. visited' \in Seq(workspace.dirs)
  <2>1. visited \in Seq(workspace.dirs) /\ Len(visited) = 1
    BY DEF TypeInv, TypeResolving, VisitedIsPath, Return, Returns
  <2>2. 0 \in Nat /\ 0 <= Len(visited) /\ Len(visited) - 1 = 0
    BY <2>1
  <2> QED BY <1>1, <2>1, <2>2, Prefix DEF Popped
<1> QED BY <1>1, <1>3, <1>4 DEF TypeResolving

\* One step of the program, by action.
LEMMA TypeNext == TypeInv /\ [Next]_vars => TypeInv'
<1> SUFFICES ASSUME TypeInv, [Next]_vars PROVE TypeInv'
  OBVIOUS
<1> USE DEF TypeInv
<1>t. /\ Target \in workspace.dirs /\ IsWorkspace(workspace)
  BY DEF TypeResolving, IsWorkspace, Target
\* The actions that leave packages as resolved: the rest is enough for them.
<1>k. ASSUME UNCHANGED <<workspace, resolving>>, TypeOthers',
             stage' # "start", stage' # "resolve", stage' = "load" => queue' # <<>>
      PROVE  TypeInv'
  <2>1. TypeResolving'
    BY <1>k, ResolvingKept
  <2> QED BY <1>k, <2>1 DEF VisitedIsPath, Fresh
<1>1. CASE NotImplemented
  <2>1. TypeOthers'
    BY <1>1 DEF NotImplemented, TypeOthers, Errors, ResultCode, discovering
  <2> QED BY <1>1, <1>k, <2>1 DEF NotImplemented
<1>2. CASE BuildPackage
  <2>1. loaded' \in [manifests : SUBSET workspace.dirs, files : SUBSET workspace.files]
    BY <1>2, <1>t, LoadManifestType DEF BuildPackage
  <2>2. TypeOthers'
    BY <1>2, <2>1 DEF BuildPackage, TypeOthers, GoTo, discovering
  <2>3. TypeResolving'
    BY <1>2, ResolvingKept DEF BuildPackage, GoTo
  <2>4. stack' = <<>> /\ visited' = <<>> /\ stage' = "resolve"
    BY <1>2 DEF BuildPackage, At, Fresh, GoTo, resolving
  <2> QED BY <2>2, <2>3, <2>4 DEF VisitedIsPath, Fresh
<1>3. CASE BuildDirectory
  <2>1. queue' \in Seq(workspace.dirs)
    BY <1>3, <1>t, Singleton DEF BuildDirectory
  <2>2. TypeOthers'
    BY <1>3, <2>1 DEF BuildDirectory, TypeOthers, GoTo, Warnings
  <2> QED BY <1>3, <1>k, <2>2 DEF BuildDirectory, GoTo
<1>4. CASE CheckManifest
  <2>1. loaded' \in [manifests : SUBSET workspace.dirs, files : SUBSET workspace.files]
    BY <1>4, <1>t, LoadManifestType DEF CheckManifest
  <2>2. CASE \E e \in {"ManifestInvalid", "NoTargets"} : FailWith(e)
    <3>1. PICK e \in {"ManifestInvalid", "NoTargets"} : FailWith(e)
      BY <2>2
    <3>2. TypeOthers'
      BY <2>1, <3>1, FailType DEF Errors
    <3> QED BY <1>4, <1>k, <3>1, <3>2 DEF CheckManifest, FailWith
  <2>3. CASE queue' = <<Target>> /\ GoTo("discover") /\ UNCHANGED <<pending, files, root, diags>>
    <3>1. queue' \in Seq(workspace.dirs)
      BY <2>3, <1>t, Singleton
    <3>2. TypeOthers'
      BY <2>1, <2>3, <3>1 DEF TypeOthers, GoTo
    <3> QED BY <1>4, <1>k, <2>3, <3>2 DEF CheckManifest, GoTo
  <2> QED BY <1>4, <2>2, <2>3 DEF CheckManifest
<1>5. CASE CheckFile
  <2>1. CASE loaded' = loaded /\ \E e \in {"NoManifest", "TargetIo"} : FailWith(e)
    <3>1. PICK e \in {"NoManifest", "TargetIo"} : FailWith(e)
      BY <2>1
    <3>2. TypeOthers'
      BY <2>1, <3>1, FailType DEF Errors, TypeOthers
    <3> QED BY <1>5, <1>k, <3>1, <3>2 DEF CheckFile, FailWith
  <2>2. CASE /\ workspace.is_source_name /\ LoadFile(Target)
             /\ files' = {Target} /\ root' = {Target}
             /\ GoTo("modules") /\ UNCHANGED <<queue, pending, diags>>
    <3>1. Target \in workspace.files
      BY <2>2, <1>t DEF IsWorkspace, Target
    <3>2. loaded' \in [manifests : SUBSET workspace.dirs, files : SUBSET workspace.files]
      BY <2>2, <3>1, LoadFileType
    <3>3. TypeOthers'
      BY <2>2, <3>1, <3>2 DEF TypeOthers, GoTo
    <3> QED BY <1>5, <1>k, <2>2, <3>3 DEF CheckFile, GoTo
  <2> QED BY <1>5, <2>1, <2>2 DEF CheckFile
<1>6. CASE ReportCycle
  <2>1. TypeOthers'
    BY <1>6, FailType DEF ReportCycle, Errors, TypeOthers
  <2> QED BY <1>6, <1>k, <2>1 DEF ReportCycle, FailWith
<1>7. CASE ReportManifest
  <2>1. Callee \in workspace.dirs
    BY <1>7, CalleeType DEF ReportManifest
  <2>2. /\ \E e \in {"ManifestIo", "ManifestInvalid"} : FailWith(e)
        /\ loaded' = loaded \/ LoadManifest(Callee)
    BY <1>7 DEF ReportManifest
  <2>3. loaded' \in [manifests : SUBSET workspace.dirs, files : SUBSET workspace.files]
    BY <2>1, <2>2, LoadManifestType DEF TypeOthers
  <2>4. PICK e \in {"ManifestIo", "ManifestInvalid"} : FailWith(e)
    BY <2>2
  <2>5. TypeOthers'
    BY <2>3, <2>4, FailType DEF Errors
  <2>6. visited' \in Seq(workspace.dirs)
    BY <1>7, <2>1 DEF ReportManifest, TypeResolving
  <2>7. TypeResolving'
    BY <1>7, <2>4, <2>6 DEF ReportManifest, FailWith, TypeResolving, Frame, Deps, ManifestAt
  <2> QED BY <2>4, <2>5, <2>7 DEF FailWith, VisitedIsPath, Fresh
<1>8. CASE ResolveInto
  <2>1. TypeResolving' /\ VisitedIsPath'
    BY <1>8, ResolveIntoType
  <2>2. Callee \in workspace.dirs
    BY <1>8, CalleeType DEF ResolveInto
  <2>3. loaded' \in [manifests : SUBSET workspace.dirs, files : SUBSET workspace.files]
    BY <1>8, <2>2, LoadManifestType DEF ResolveInto
  <2>4. TypeOthers'
    BY <1>8, <2>3 DEF ResolveInto, TypeOthers, GoTo, discovering
  <2> QED BY <1>8, <2>1, <2>4 DEF ResolveInto, GoTo, Fresh
<1>9. CASE Return
  <2>1. Len(stack) \in Nat /\ stack # <<>>
    BY <1>9 DEF TypeResolving, Return, Returns
  <2>2. CASE Len(stack) > 1
    <3>1. TypeResolving' /\ VisitedIsPath'
      BY <1>9, <2>2, ReturnType
    <3>2. Len(stack) # 1
      <4>1. \A k \in Nat : k > 1 => k # 1
        OBVIOUS
      <4> QED BY <2>1, <2>2, <4>1
    <3>3. GoTo("resolve") /\ UNCHANGED <<resolved, discovering, root, loaded, diags>>
      BY <1>9, <3>2 DEF Return
    <3>4. TypeOthers'
      BY <3>3 DEF TypeOthers, GoTo, discovering
    <3> QED BY <3>1, <3>3, <3>4 DEF GoTo, Fresh
  <2>3. CASE Len(stack) = 1
    <3>1. TypeResolving'
      BY <1>9, <2>3, LastReturnType
    <3>2. ~(Len(stack) > 1)
      BY <2>3
    <3>3. /\ GoTo("discover") /\ UNCHANGED <<pending, files, root, loaded, diags>>
          /\ queue' = resolved' /\ stack' = <<>>
      BY <1>9, <3>2 DEF Return
    <3>4. queue' \in Seq(workspace.dirs)
      BY <3>1, <3>3 DEF TypeResolving, GoTo
    <3>5. TypeOthers'
      BY <3>3, <3>4 DEF TypeOthers, GoTo
    <3> QED BY <3>1, <3>3, <3>5 DEF GoTo, VisitedIsPath, Fresh
  <2> QED BY <1>9, <2>2, <2>3 DEF Return
<1>10. CASE Discover
  <2>1. CASE \E e \in {"NotAccessible", "NoSources"} : FailWith(e)
    <3>1. PICK e \in {"NotAccessible", "NoSources"} : FailWith(e)
      BY <2>1
    <3>2. TypeOthers'
      BY <1>10, <3>1, FailType DEF Discover, Errors, TypeOthers
    <3> QED BY <1>10, <1>k, <3>1, <3>2 DEF Discover, FailWith
  <2>2. CASE /\ pending' = workspace.sources[Head(queue)] /\ files' = {}
             /\ GoTo("load") /\ UNCHANGED <<queue, root, diags>>
    <3>1. Head(queue) \in workspace.dirs
      BY <1>10 DEF Discover, TypeOthers
    <3>2. pending' \subseteq workspace.files
      BY <1>t, <2>2, <3>1, AtDirectory
    <3>3. TypeOthers'
      BY <1>10, <2>2, <3>2 DEF Discover, TypeOthers, GoTo
    <3> QED BY <1>10, <1>k, <2>2, <3>3 DEF Discover, GoTo
  <2> QED BY <1>10, <2>1, <2>2 DEF Discover
<1>11. CASE LoadSource
  <2>1. PICK f \in pending :
           \/ FailWith("SourceIo") /\ UNCHANGED loaded
           \/ /\ LoadFile(f) /\ pending' = pending \ {f} /\ files' = files \cup {f}
              /\ GoTo("load") /\ UNCHANGED <<queue, root, diags>>
    BY <1>11 DEF LoadSource
  <2>2. CASE FailWith("SourceIo") /\ UNCHANGED loaded
    <3>1. TypeOthers'
      BY <2>2, FailType DEF Errors, TypeOthers
    <3> QED BY <1>11, <1>k, <2>2, <3>1 DEF LoadSource, FailWith
  <2>3. CASE /\ LoadFile(f) /\ pending' = pending \ {f} /\ files' = files \cup {f}
             /\ GoTo("load") /\ UNCHANGED <<queue, root, diags>>
    <3>1. f \in workspace.files
      BY DEF TypeOthers
    <3>2. loaded' \in [manifests : SUBSET workspace.dirs, files : SUBSET workspace.files]
      BY <2>3, <3>1, LoadFileType
    <3>3. TypeOthers'
      BY <2>3, <3>1, <3>2 DEF TypeOthers, GoTo
    <3> QED BY <1>11, <1>k, <2>3, <3>3 DEF LoadSource, GoTo, Fresh
  <2> QED BY <2>1, <2>2, <2>3
<1>12. CASE Discovered
  <2>1. stage' \in {"discover", "bin"} /\ UNCHANGED <<workspace, command, exit>>
    BY <1>12 DEF Discovered, GoTo
  <2>2. queue' \in Seq(workspace.dirs)
    BY <1>12 DEF Discovered, TypeOthers, Fresh
  <2>3. TypeOthers'
    BY <1>12, <2>1, <2>2 DEF Discovered, TypeOthers
  <2> QED BY <1>12, <1>k, <2>1, <2>3 DEF Discovered
<1>13. CASE BuildExit
  <2>1. TypeOthers'
    BY <1>13, ConcludeType DEF BuildExit
  <2> QED BY <1>13, <1>k, <2>1 DEF BuildExit, Conclude
<1>14. CASE CheckBin
  <2>1. CASE FailWith("TargetNotDiscovered")
    <3>1. TypeOthers'
      BY <1>14, <2>1, FailType DEF CheckBin, Errors, TypeOthers
    <3> QED BY <1>14, <1>k, <2>1, <3>1 DEF CheckBin, FailWith
  <2>2. CASE /\ root' = FindBin(ManifestAt(Target).bins[1])
             /\ GoTo("modules") /\ UNCHANGED <<discovering, diags>>
    <3>1. TypeOthers'
      BY <1>14, <2>2 DEF CheckBin, TypeOthers, GoTo, discovering, FindBin
    <3> QED BY <1>14, <1>k, <2>2, <3>1 DEF CheckBin, GoTo
  <2> QED BY <1>14, <2>1, <2>2 DEF CheckBin
<1>15. ASSUME Analyze, NEW s \in {"resolved", "typed"}, GoTo(s)
       PROVE  TypeInv'
  <2>1. TypeOthers'
    BY <1>15 DEF Analyze, GoTo, TypeOthers, discovering, Errors
  <2> QED BY <1>15, <1>k, <2>1 DEF Analyze, GoTo
<1>16. CASE ResolveModules
  BY <1>15, <1>16 DEF ResolveModules
<1>17. CASE CheckPackage
  BY <1>15, <1>17 DEF CheckPackage
<1>18. CASE FinishCheck
  <2>1. CASE Conclude
    <3>1. TypeOthers'
      BY <2>1, ConcludeType
    <3> QED BY <1>k, <2>1, <3>1 DEF Conclude
  <2>2. CASE GoTo("types") /\ UNCHANGED <<resolving, discovering, root, loaded, diags>>
    <3>1. TypeOthers'
      BY <2>2 DEF GoTo, TypeOthers, discovering
    <3> QED BY <1>k, <2>2, <3>1 DEF GoTo
  <2> QED BY <1>18, <2>1, <2>2 DEF FinishCheck
<1>19. CASE Terminated \/ UNCHANGED vars
  <2>1. UNCHANGED vars
    BY <1>19 DEF Terminated
  <2>2. TypeResolving' /\ TypeOthers' /\ Fresh'
    BY <2>1, ResolvingKept DEF vars, resolving, discovering, TypeOthers, Fresh
  <2>3. VisitedIsPath'
    BY <2>1 DEF vars, resolving, VisitedIsPath, Deps, ManifestAt
  <2> QED BY <2>2, <2>3
<1> QED BY <1>1, <1>2, <1>3, <1>4, <1>5, <1>6, <1>7, <1>8, <1>9, <1>10, <1>11, <1>12,
           <1>13, <1>14, <1>16, <1>17, <1>18, <1>19 DEF Next

\* driver_main.cc, pkg/resolve.cc and pipeline.cc never leave the workspace: no
\* index out of range, no directory or file that is not one of it.
THEOREM TypeCorrect == Spec => []TypeOK
<1>1. Spec => []TypeInv
  BY TypeInit, TypeNext, PTL DEF Spec
<1> QED BY <1>1, TypeInvImplies, PTL

\* pkg/resolve.cc:33-43, 86: the visited list is the simple path of dependencies
\* from the target to the package being resolved, for every graph.
THEOREM VisitedIsPathCorrect == Spec => []VisitedIsPath
<1>1. TypeInv => VisitedIsPath
  BY DEF TypeInv
<1>2. Spec => []TypeInv
  BY TypeInit, TypeNext, PTL DEF Spec
<1> QED BY <1>1, <1>2, PTL

-----------------------------------------------------------------------------
(***************************************************************************)
(* The exit code.                                                          *)
(***************************************************************************)
ExitInv == ExitTellsErrors /\ (exit = Running <=> stage # "exited")

LEMMA ExitNext == ExitInv /\ [Next]_vars => ExitInv'
<1> SUFFICES ASSUME ExitInv, [Next]_vars PROVE ExitInv'
  OBVIOUS
<1> USE DEF ExitInv, ExitTellsErrors, Running
<1>f. ASSUME NEW error \in Errors, FailWith(error) PROVE ExitInv'
  BY <1>f DEF FailWith, Failed
<1>c. ASSUME Conclude PROVE ExitInv'
  BY <1>c DEF Conclude, has_errors, Failed
<1>g. ASSUME NEW s, s # "exited", stage # "exited", GoTo(s) PROVE ExitInv'
  BY <1>g DEF GoTo
<1>1. CASE NotImplemented
  BY <1>1 DEF NotImplemented, Errors
<1>2. CASE BuildPackage \/ BuildDirectory
  BY <1>2, <1>g DEF BuildPackage, BuildDirectory, At
<1>3. CASE CheckManifest
  BY <1>3, <1>f, <1>g DEF CheckManifest, At, Errors
<1>4. CASE CheckFile
  BY <1>4, <1>f, <1>g DEF CheckFile, At, Errors
<1>5. CASE ReportCycle \/ ReportManifest
  BY <1>5, <1>f DEF ReportCycle, ReportManifest, Errors
<1>6. CASE ResolveInto \/ Return
  BY <1>6, <1>g DEF ResolveInto, Return, Calls, Returns
<1>7. CASE Discover
  BY <1>7, <1>f, <1>g DEF Discover, Errors
<1>8. CASE LoadSource
  BY <1>8, <1>f, <1>g DEF LoadSource, Errors
<1>9. CASE Discovered
  BY <1>9, <1>g DEF Discovered
<1>10. CASE BuildExit
  BY <1>10, <1>c DEF BuildExit
<1>11. CASE CheckBin
  BY <1>11, <1>f, <1>g DEF CheckBin, Errors
<1>12. CASE ResolveModules \/ CheckPackage
  BY <1>12, <1>g DEF ResolveModules, CheckPackage
<1>13. CASE FinishCheck
  BY <1>13, <1>c, <1>g DEF FinishCheck
<1>14. CASE Terminated \/ UNCHANGED vars
  BY <1>14 DEF Terminated, vars
<1> QED BY <1>1, <1>2, <1>3, <1>4, <1>5, <1>6, <1>7, <1>8, <1>9, <1>10, <1>11, <1>12,
           <1>13, <1>14 DEF Next

\* driver_main.cc: `alcy` exits with Success exactly when no error was emitted,
\* on every path through run_build and run_check.
THEOREM ExitTellsErrorsCorrect == Spec => []ExitTellsErrors
<1>1. Init => ExitInv
  BY DEF Init, ExitInv, ExitTellsErrors, Running
<1>2. ExitInv => ExitTellsErrors
  BY DEF ExitInv
<1> QED BY <1>1, <1>2, ExitNext, PTL DEF Spec

-----------------------------------------------------------------------------
(***************************************************************************)
(* The input of the analyzer.  `files` is what has been loaded of the      *)
(* current directory, `pending` the rest.                                  *)
(***************************************************************************)
InputInv ==
    /\ AnalysisInput
    /\ stage \in {"start", "resolve", "discover", "bin"} => pending = {}
    /\ stage \in {"load", "bin"} => files \subseteq loaded.files

LEMMA LoadFacts ==
    ASSUME TypeOthers
    PROVE  /\ \A d : LoadManifest(d) => loaded'.files = loaded.files
           /\ \A f : LoadFile(f) => loaded'.files = loaded.files \cup {f}
BY DEF TypeOthers, LoadManifest, LoadFile

LEMMA InputNext == TypeInv /\ InputInv /\ [Next]_vars => InputInv'
<1> SUFFICES ASSUME TypeInv, InputInv, [Next]_vars PROVE InputInv'
  OBVIOUS
<1> USE DEF InputInv, AnalysisInput
<1>t. TypeOthers
  BY DEF TypeInv
<1>e. ASSUME stage' = "exited" PROVE InputInv'
  BY <1>e
<1>f. ASSUME NEW error, FailWith(error) PROVE InputInv'
  BY <1>e, <1>f DEF FailWith
<1>c. ASSUME Conclude PROVE InputInv'
  BY <1>e, <1>c DEF Conclude
<1>1. CASE NotImplemented
  BY <1>1, <1>e DEF NotImplemented
<1>2. CASE BuildPackage \/ BuildDirectory
  BY <1>2 DEF BuildPackage, BuildDirectory, At, GoTo, discovering
<1>3. CASE CheckManifest
  BY <1>3, <1>f DEF CheckManifest, At, GoTo
<1>4. CASE CheckFile
  <2>1. CASE LoadFile(Target) /\ files' = {Target} /\ root' = {Target}
             /\ GoTo("modules") /\ UNCHANGED <<queue, pending, diags>>
    <3>1. loaded'.files = loaded.files \cup {Target}
      BY <1>t, <2>1, LoadFacts
    <3> QED BY <1>4, <2>1, <3>1 DEF CheckFile, At, GoTo
  <2> QED BY <1>4, <1>f, <2>1 DEF CheckFile
<1>5. CASE ReportCycle \/ ReportManifest
  BY <1>5, <1>f DEF ReportCycle, ReportManifest
<1>6. CASE ResolveInto
  BY <1>6 DEF ResolveInto, Calls, GoTo, discovering
<1>7. CASE Return
  BY <1>7 DEF Return, Returns, GoTo, discovering
<1>8. CASE Discover
  BY <1>8, <1>f DEF Discover, GoTo
<1>9. CASE LoadSource
  <2>1. PICK f \in pending :
           \/ FailWith("SourceIo")
           \/ LoadFile(f) /\ files' = files \cup {f} /\ GoTo("load")
    BY <1>9 DEF LoadSource
  <2>2. CASE LoadFile(f) /\ files' = files \cup {f} /\ GoTo("load")
    <3>1. loaded'.files = loaded.files \cup {f}
      BY <1>t, <2>2, LoadFacts
    <3> QED BY <1>9, <2>2, <3>1 DEF LoadSource, GoTo
  <2> QED BY <1>f, <2>1, <2>2
<1>10. CASE Discovered
  BY <1>10 DEF Discovered, GoTo
<1>11. CASE BuildExit
  BY <1>11, <1>c DEF BuildExit
<1>12. CASE CheckBin
  <2>1. CASE FailWith("TargetNotDiscovered")
    BY <1>f, <2>1
  <2>2. CASE /\ FindBin(ManifestAt(Target).bins[1]) # {}
             /\ root' = FindBin(ManifestAt(Target).bins[1])
             /\ GoTo("modules") /\ UNCHANGED <<discovering, diags>>
    <3>1. \E f \in files : root' = {f}
      BY <2>2 DEF FindBin
    <3> QED BY <1>12, <2>2, <3>1 DEF CheckBin, GoTo, discovering
  <2> QED BY <1>12, <2>1, <2>2 DEF CheckBin
<1>13. CASE ResolveModules \/ CheckPackage
  BY <1>13 DEF ResolveModules, CheckPackage, Analyze, GoTo, discovering
<1>14. CASE FinishCheck
  BY <1>14, <1>c DEF FinishCheck, has_errors, GoTo, discovering
<1>15. CASE Terminated \/ UNCHANGED vars
  BY <1>15 DEF Terminated, vars, discovering
<1> QED BY <1>1, <1>2, <1>3, <1>4, <1>5, <1>6, <1>7, <1>8, <1>9, <1>10, <1>11, <1>12,
           <1>13, <1>14, <1>15 DEF Next

\* analyzer/resolve.cc:161, driver_main.cc:111-127: resolve_modules always gets one root
\* among loaded files, and check_package never runs after an error.
THEOREM AnalysisInputCorrect == Spec => []AnalysisInput
<1>1. Init => InputInv
  BY DEF Init, InputInv, AnalysisInput
<1>2. InputInv => AnalysisInput
  BY DEF InputInv
<1> QED BY <1>1, <1>2, InputNext, TypeInit, TypeNext, PTL DEF Spec

-----------------------------------------------------------------------------
(***************************************************************************)
(* What resolve_package returns.  Each activation holds its own package,   *)
(* what the dependencies before the current one need, and nothing else; a  *)
(* dependency that returns holds all that it needs.                        *)
(***************************************************************************)
FrameClosed(frame, known) ==
    /\ Len(frame.packages) >= 1
    /\ frame.packages[1] = frame.dir
    /\ \A j \in 1 .. Len(frame.packages) :
          ManifestAt(frame.packages[j]).kind = "good" /\ frame.packages[j] \in known
    /\ \A j \in 2 .. Len(frame.packages) :
          \A k \in 1 .. Len(Deps(frame.packages[j])) :
              InSeq(Deps(frame.packages[j])[k], frame.packages)
    /\ \A k \in 1 .. frame.next - 1 : InSeq(Deps(frame.dir)[k], frame.packages)

LEMMA Concatenation ==
    ASSUME NEW S, NEW s \in Seq(S), NEW t \in Seq(S)
    PROVE  /\ s \o t \in Seq(S)
           /\ Len(s \o t) = Len(s) + Len(t)
           /\ \A i \in 1 .. Len(s) : (s \o t)[i] = s[i]
           /\ \A i \in 1 .. Len(t) : (s \o t)[Len(s) + i] = t[i]
           /\ \A i \in 1 .. Len(s \o t) :
                 \/ i \in 1 .. Len(s)
                 \/ \E k \in 1 .. Len(t) : i = Len(s) + k
           /\ \A x : InSeq(x, s) \/ InSeq(x, t) => InSeq(x, s \o t)
<1> DEFINE u == s \o t
<1>1. /\ u \in Seq(S) /\ Len(u) = Len(s) + Len(t)
      /\ \A i \in 1 .. Len(s) : u[i] = s[i]
      /\ \A i \in 1 .. Len(t) : u[Len(s) + i] = t[i]
  OBVIOUS
<1>2. Len(s) \in Nat /\ Len(t) \in Nat
  OBVIOUS
<1> HIDE DEF u
<1>3. \A i \in 1 .. Len(u) : i \in 1 .. Len(s) \/ \E k \in 1 .. Len(t) : i = Len(s) + k
  <2> SUFFICES ASSUME NEW i \in 1 .. Len(u), i \notin 1 .. Len(s)
               PROVE  \E k \in 1 .. Len(t) : i = Len(s) + k
    OBVIOUS
  <2>1. i - Len(s) \in 1 .. Len(t) /\ i = Len(s) + (i - Len(s))
    BY <1>1, <1>2
  <2> QED BY <2>1
<1>4. ASSUME NEW x, InSeq(x, s) PROVE InSeq(x, u)
  <2>1. PICK i \in 1 .. Len(s) : s[i] = x
    BY <1>4 DEF InSeq
  <2>2. i \in 1 .. Len(u) /\ u[i] = x
    BY <1>1, <1>2, <2>1
  <2> QED BY <2>2 DEF InSeq
<1>5. ASSUME NEW x, InSeq(x, t) PROVE InSeq(x, u)
  <2>1. PICK i \in 1 .. Len(t) : t[i] = x
    BY <1>5 DEF InSeq
  <2>2. Len(s) + i \in 1 .. Len(u) /\ u[Len(s) + i] = x
    BY <1>1, <1>2, <2>1
  <2> QED BY <2>2 DEF InSeq
<1> QED BY <1>1, <1>3, <1>4, <1>5 DEF u

\* A callee that returns makes its caller closed up to the next dependency.
LEMMA MergedClosed ==
    ASSUME IsWorkspace(workspace), NEW known,
           NEW caller \in Frame, FrameClosed(caller, known),
           caller.next \in 1 .. Len(Deps(caller.dir)),
           NEW callee \in Frame, FrameClosed(callee, known),
           callee.dir = Deps(caller.dir)[caller.next],
           callee.next > Len(Deps(callee.dir)),
           NEW merged, merged = Advanced(caller, callee.packages)
    PROVE  FrameClosed(merged, known) /\ merged.dir = caller.dir
<1> DEFINE s == caller.packages
           t == callee.packages
           u == s \o t
<1>1. /\ s \in Seq(workspace.dirs) /\ t \in Seq(workspace.dirs)
      /\ caller.next \in Nat \ {0} /\ callee.next \in Nat \ {0}
      /\ callee.dir \in workspace.dirs
  BY DEF Frame
<1>2. merged.packages = u /\ merged.dir = caller.dir /\ merged.next = caller.next + 1
  BY DEF Advanced, Merged, Frame
<1>3. Len(Deps(callee.dir)) \in Nat
  BY <1>1, AtDirectory
<1>4. /\ Len(s) \in Nat /\ Len(t) \in Nat /\ Len(s) >= 1 /\ Len(t) >= 1
      /\ s[1] = caller.dir /\ t[1] = callee.dir
  BY <1>1 DEF FrameClosed
<1>6. \A j \in 1 .. Len(t) : \A k \in 1 .. Len(Deps(t[j])) : InSeq(Deps(t[j])[k], t)
  <2> SUFFICES ASSUME NEW j \in 1 .. Len(t), NEW k \in 1 .. Len(Deps(t[j]))
               PROVE  InSeq(Deps(t[j])[k], t)
    OBVIOUS
  <2>1. CASE j = 1
    <3>1. k \in 1 .. callee.next - 1
      BY <1>1, <1>3, <1>4, <2>1
    <3> QED BY <1>4, <2>1, <3>1 DEF FrameClosed
  <2>2. CASE j \in 2 .. Len(t)
    BY <2>2 DEF FrameClosed
  <2> QED BY <1>4, <2>1, <2>2
<1>7. \A j \in 2 .. Len(s) : \A k \in 1 .. Len(Deps(s[j])) : InSeq(Deps(s[j])[k], s)
  BY DEF FrameClosed
<1>8. \A j \in 1 .. Len(s) : ManifestAt(s[j]).kind = "good" /\ s[j] \in known
  BY DEF FrameClosed
<1>9. \A j \in 1 .. Len(t) : ManifestAt(t[j]).kind = "good" /\ t[j] \in known
  BY DEF FrameClosed
<1>10. \A k \in 1 .. caller.next - 1 : InSeq(Deps(caller.dir)[k], s)
  BY DEF FrameClosed
<1> HIDE DEF s, t, u
<1>5. /\ Len(u) = Len(s) + Len(t)
      /\ \A i \in 1 .. Len(s) : u[i] = s[i]
      /\ \A i \in 1 .. Len(t) : u[Len(s) + i] = t[i]
      /\ \A i \in 1 .. Len(u) : i \in 1 .. Len(s) \/ \E k \in 1 .. Len(t) : i = Len(s) + k
      /\ \A x : InSeq(x, s) \/ InSeq(x, t) => InSeq(x, u)
  BY <1>1, Concatenation DEF u
<1>11. Len(u) >= 1 /\ u[1] = caller.dir
  BY <1>4, <1>5
<1>12. \A j \in 1 .. Len(u) : ManifestAt(u[j]).kind = "good" /\ u[j] \in known
  <2> SUFFICES ASSUME NEW j \in 1 .. Len(u)
               PROVE  ManifestAt(u[j]).kind = "good" /\ u[j] \in known
    OBVIOUS
  <2>1. CASE j \in 1 .. Len(s)
    BY <1>5, <1>8, <2>1
  <2>2. CASE \E i \in 1 .. Len(t) : j = Len(s) + i
    <3>1. PICK i \in 1 .. Len(t) : j = Len(s) + i
      BY <2>2
    <3>2. u[j] = t[i]
      BY <1>5, <3>1
    <3> QED BY <1>9, <3>2
  <2> QED BY <1>5, <2>1, <2>2
<1>13. \A j \in 2 .. Len(u) : \A k \in 1 .. Len(Deps(u[j])) : InSeq(Deps(u[j])[k], u)
  <2> SUFFICES ASSUME NEW j \in 2 .. Len(u), NEW k \in 1 .. Len(Deps(u[j]))
               PROVE  InSeq(Deps(u[j])[k], u)
    OBVIOUS
  <2>1. j \in 2 .. Len(s) \/ \E i \in 1 .. Len(t) : j = Len(s) + i
    BY <1>4, <1>5
  <2>2. CASE j \in 2 .. Len(s)
    <3>1. u[j] = s[j]
      BY <1>4, <1>5, <2>2
    <3> QED BY <1>5, <1>7, <2>2, <3>1
  <2>3. CASE \E i \in 1 .. Len(t) : j = Len(s) + i
    <3>1. PICK i \in 1 .. Len(t) : j = Len(s) + i
      BY <2>3
    <3>2. u[j] = t[i]
      BY <1>5, <3>1
    <3> QED BY <1>5, <1>6, <3>2
  <2> QED BY <2>1, <2>2, <2>3
<1>14. \A k \in 1 .. caller.next + 1 - 1 : InSeq(Deps(caller.dir)[k], u)
  <2> SUFFICES ASSUME NEW k \in 1 .. caller.next
               PROVE  InSeq(Deps(caller.dir)[k], u)
    BY <1>1
  <2>1. CASE k \in 1 .. caller.next - 1
    BY <1>5, <1>10, <2>1
  <2>2. CASE k = caller.next
    <3>1. 1 \in 1 .. Len(t) /\ t[1] = Deps(caller.dir)[k]
      BY <1>4, <2>2
    <3>2. InSeq(Deps(caller.dir)[k], t)
      BY <3>1 DEF InSeq
    <3> QED BY <1>5, <3>2
  <2> QED BY <1>1, <2>1, <2>2
<1> QED BY <1>2, <1>11, <1>12, <1>13, <1>14 DEF FrameClosed

ClosedInv ==
    /\ ResolvedIsClosed
    /\ stage = "resolve" =>
          /\ \A i \in 1 .. Len(stack) : FrameClosed(stack[i], loaded.manifests)
          /\ stack # <<>> => stack[1].dir = Target

LEMMA ClosedInit == Init => ClosedInv
BY DEF Init, ClosedInv, ResolvedIsClosed

\* Steps that leave the packages resolved so far, and the rest of the stack.
LEMMA ClosedKept ==
    ASSUME ClosedInv, workspace' = workspace, resolved' = resolved,
           loaded.manifests \subseteq loaded'.manifests,
           stage' = "resolve" => stage = "resolve" /\ stack' = stack
    PROVE  ClosedInv'
<1>1. /\ \A d : Deps(d)' = Deps(d)
      /\ \A d : ManifestAt(d)' = ManifestAt(d)
      /\ Target' = Target
  BY DEF Deps, ManifestAt, Target
<1>2. ResolvedIsClosed'
  BY <1>1 DEF ClosedInv, ResolvedIsClosed
<1>3. \A f : FrameClosed(f, loaded.manifests) => FrameClosed(f, loaded'.manifests)
  BY DEF FrameClosed
<1>4. \A f, known : FrameClosed(f, known)' <=> FrameClosed(f, known)
  BY <1>1 DEF FrameClosed
<1> QED BY <1>1, <1>2, <1>3, <1>4 DEF ClosedInv

LEMMA LoadGrows ==
    ASSUME TypeOthers
    PROVE  /\ \A d : LoadManifest(d) => loaded'.manifests = loaded.manifests \cup {d}
           /\ \A f : LoadFile(f) => loaded'.manifests = loaded.manifests
BY DEF TypeOthers, LoadManifest, LoadFile

LEMMA ClosedEnter ==
    ASSUME TypeInv, ClosedInv, ResolveInto
    PROVE  ClosedInv'
<1> DEFINE f == [dir |-> Callee, next |-> 1, packages |-> <<Callee>>]
<1>1. /\ stage = "resolve" /\ stack \in Seq(Frame)
      /\ stack' = Append(stack, f) /\ ManifestAt(Callee).kind = "good"
      /\ workspace' = workspace /\ resolved' = resolved
  BY DEF TypeInv, TypeResolving, ResolveInto, Calls, GoTo
<1>2. loaded'.manifests = loaded.manifests \cup {Callee}
  BY LoadGrows DEF TypeInv, ResolveInto
<1>3. Callee \in workspace.dirs
  BY CalleeType DEF TypeInv, ResolveInto
<1>4. f \in Frame /\ f.dir = Callee /\ f.next = 1 /\ f.packages = <<Callee>>
  <2>1. <<Callee>> \in Seq(workspace.dirs)
    BY <1>3, Singleton
  <2>2. f.dir = Callee /\ f.next = 1 /\ f.packages = <<Callee>>
    OBVIOUS
  <2>3. f \in [dir : workspace.dirs, next : Nat \ {0}, packages : Seq(workspace.dirs)]
    BY <2>1, <1>3
  <2> QED BY <2>2, <2>3 DEF Frame
<1>5. Len(f.packages) = 1 /\ f.packages[1] = Callee
  OBVIOUS
<1> HIDE DEF f
<1>6. FrameClosed(f, loaded'.manifests)
  BY <1>1, <1>2, <1>4, <1>5 DEF FrameClosed
<1>7. /\ Len(stack) \in Nat /\ Len(stack') = Len(stack) + 1
      /\ stack'[Len(stack) + 1] = f
      /\ \A i \in 1 .. Len(stack) : stack'[i] = stack[i]
  BY <1>1, <1>4
<1>8. /\ \A d : Deps(d)' = Deps(d)
      /\ \A d : ManifestAt(d)' = ManifestAt(d)
      /\ Target' = Target
  BY <1>1 DEF Deps, ManifestAt, Target
<1>9. ResolvedIsClosed'
  BY <1>1, <1>2, <1>8 DEF ClosedInv, ResolvedIsClosed
<1>10. \A i \in 1 .. Len(stack') : FrameClosed(stack'[i], loaded'.manifests)
  <2> SUFFICES ASSUME NEW i \in 1 .. Len(stack) + 1
               PROVE  FrameClosed(stack'[i], loaded'.manifests)
    BY <1>7
  <2>1. CASE i = Len(stack) + 1
    BY <2>1, <1>6, <1>7
  <2>2. CASE i \in 1 .. Len(stack)
    <3>1. FrameClosed(stack[i], loaded.manifests)
      BY <1>1, <2>2 DEF ClosedInv
    <3> QED BY <1>2, <1>7, <2>2, <3>1 DEF FrameClosed
  <2> QED BY <1>7, <2>1, <2>2
<1>11. stack'[1].dir = Target
  <2>1. CASE stack = <<>>
    BY <2>1, <1>4, <1>7 DEF Callee
  <2>2. CASE stack # <<>>
    <3>1. 1 \in 1 .. Len(stack)
      BY <1>1, <2>2
    <3> QED BY <1>1, <1>7, <2>2, <3>1 DEF ClosedInv
  <2> QED BY <2>1, <2>2
<1>12. \A g, known : FrameClosed(g, known)' <=> FrameClosed(g, known)
  BY <1>8 DEF FrameClosed
<1> QED BY <1>8, <1>9, <1>10, <1>11, <1>12 DEF ClosedInv

LEMMA ClosedReturn ==
    ASSUME TypeInv, ClosedInv, Return
    PROVE  ClosedInv'
<1>1. /\ stage = "resolve" /\ stack \in Seq(Frame) /\ stack # <<>>
      /\ Top.next > Len(Deps(Top.dir)) /\ IsWorkspace(workspace)
      /\ workspace' = workspace /\ loaded' = loaded
  BY DEF TypeInv, TypeResolving, Return, Returns, GoTo
<1>2. /\ \A d : Deps(d)' = Deps(d)
      /\ \A d : ManifestAt(d)' = ManifestAt(d)
      /\ Target' = Target
  BY <1>1 DEF Deps, ManifestAt, Target
<1>3. \A g, known : FrameClosed(g, known)' <=> FrameClosed(g, known)
  BY <1>2 DEF FrameClosed
<1>4. Len(stack) \in Nat \ {0} /\ Top \in Frame
  BY <1>1 DEF Top
<1>5. FrameClosed(Top, loaded.manifests)
  BY <1>1, <1>4 DEF ClosedInv, Top
<1>6. CASE Len(stack) > 1
  <2> DEFINE caller == stack[Len(stack) - 1]
             merged == Advanced(caller, Top.packages)
  <2>1. Len(stack) # 1
    <3>1. \A k \in Nat : k > 1 => k # 1
      OBVIOUS
    <3> QED BY <1>4, <1>6, <3>1
  <2>2. resolved' = resolved /\ stage' = "resolve"
    BY <2>1, <1>1 DEF Return, GoTo
  <2>3. Len(stack) - 1 \in 1 .. Len(stack) /\ caller \in Frame
    BY <1>1, <1>4, <1>6
  <2>4. /\ caller.next \in 1 .. Len(Deps(caller.dir))
        /\ Top.dir = Deps(caller.dir)[caller.next]
    <3>1. Len(stack) - 1 \in 1 .. Len(stack) - 1 /\ Len(stack) - 1 + 1 = Len(stack)
      BY <1>4, <1>6
    <3>2. /\ caller.next <= Len(Deps(caller.dir))
          /\ Top.dir = Deps(caller.dir)[caller.next]
      BY <1>1, <3>1 DEF TypeInv, VisitedIsPath, Top
    <3>3. caller.next \in Nat \ {0} /\ caller.dir \in workspace.dirs
      BY <2>3 DEF Frame
    <3>4. Len(Deps(caller.dir)) \in Nat
      BY <1>1, <3>3, AtDirectory
    <3> QED BY <3>2, <3>3, <3>4
  <2>5. FrameClosed(caller, loaded.manifests)
    BY <1>1, <2>3 DEF ClosedInv
  <2> HIDE DEF caller
  <2>6. FrameClosed(merged, loaded.manifests) /\ merged.dir = caller.dir
    BY <1>1, <1>4, <1>5, <2>3, <2>4, <2>5, MergedClosed
  <2> HIDE DEF merged
  <2>7. /\ Len(stack') = Len(stack) - 1
        /\ \A k \in 1 .. Len(stack) - 2 : stack'[k] = stack[k]
        /\ stack'[Len(stack) - 1] = merged
    BY <1>6, ReturnType DEF merged, caller
  <2>8. \A i \in 1 .. Len(stack') : FrameClosed(stack'[i], loaded.manifests)
    <3> SUFFICES ASSUME NEW i \in 1 .. Len(stack) - 1
                 PROVE  FrameClosed(stack'[i], loaded.manifests)
      BY <2>7
    <3>1. CASE i = Len(stack) - 1
      BY <2>6, <2>7, <3>1
    <3>2. CASE i \in 1 .. Len(stack) - 2
      <4>1. i \in 1 .. Len(stack) /\ stack'[i] = stack[i]
        BY <1>4, <2>7, <3>2
      <4> QED BY <1>1, <4>1 DEF ClosedInv
    <3> QED BY <1>4, <3>1, <3>2
  <2>9. stack'[1].dir = Target
    <3>1. stack[1].dir = Target
      BY <1>1 DEF ClosedInv
    <3>2. CASE Len(stack) = 2
      BY <2>6, <2>7, <3>1, <3>2 DEF caller
    <3>3. CASE Len(stack) # 2
      <4>1. \A k \in Nat : k > 1 /\ k # 2 => 1 \in 1 .. k - 2
        OBVIOUS
      <4>2. 1 \in 1 .. Len(stack) - 2
        BY <1>4, <1>6, <3>3, <4>1
      <4> QED BY <2>7, <3>1, <4>2
    <3> QED BY <3>2, <3>3
  <2>10. ResolvedIsClosed'
    BY <1>1, <1>2, <2>2 DEF ClosedInv, ResolvedIsClosed
  <2> QED BY <1>1, <1>2, <1>3, <2>8, <2>9, <2>10 DEF ClosedInv
<1>7. CASE Len(stack) = 1
  <2>1. ~(Len(stack) > 1)
    BY <1>7
  <2>2. resolved' = Top.packages /\ stage' = "discover"
    BY <2>1 DEF Return, GoTo
  <2>3. Top.dir = Target
    BY <1>1, <1>7 DEF ClosedInv, Top
  <2> DEFINE ps == Top.packages
  <2>4. /\ Top.next \in Nat /\ Top.dir \in workspace.dirs /\ ps \in Seq(workspace.dirs)
    BY <1>4 DEF Frame
  <2>5. Len(Deps(Top.dir)) \in Nat /\ Len(ps) \in Nat
    BY <1>1, <2>4, AtDirectory
  <2>6. /\ ps[1] = Target
        /\ \A i \in 1 .. Len(ps) : ManifestAt(ps[i]).kind = "good" /\ ps[i] \in loaded.manifests
        /\ \A i \in 2 .. Len(ps) : \A k \in 1 .. Len(Deps(ps[i])) : InSeq(Deps(ps[i])[k], ps)
        /\ \A k \in 1 .. Top.next - 1 : InSeq(Deps(Target)[k], ps)
    BY <1>5, <2>3 DEF FrameClosed
  <2> HIDE DEF ps
  <2>7. \A i \in 1 .. Len(ps) : \A k \in 1 .. Len(Deps(ps[i])) : InSeq(Deps(ps[i])[k], ps)
    <3> SUFFICES ASSUME NEW i \in 1 .. Len(ps), NEW k \in 1 .. Len(Deps(ps[i]))
                 PROVE  InSeq(Deps(ps[i])[k], ps)
      OBVIOUS
    <3>1. CASE i = 1
      <4>1. k \in 1 .. Top.next - 1
        BY <1>1, <2>3, <2>4, <2>5, <2>6, <3>1
      <4> QED BY <2>6, <3>1, <4>1
    <3>2. CASE i \in 2 .. Len(ps)
      BY <2>6, <3>2
    <3> QED BY <2>5, <3>1, <3>2
  <2>8. ResolvedIsClosed'
    <3>1. resolved' = ps
      BY <2>2 DEF ps
    <3> QED BY <1>1, <1>2, <2>6, <2>7, <3>1 DEF ResolvedIsClosed, InSeq
  <2> QED BY <2>2, <2>8 DEF ClosedInv
<1> QED BY <1>4, <1>6, <1>7

LEMMA ClosedNext == TypeInv /\ ClosedInv /\ [Next]_vars => ClosedInv'
<1> SUFFICES ASSUME TypeInv, ClosedInv, [Next]_vars PROVE ClosedInv'
  OBVIOUS
<1>t. TypeOthers
  BY DEF TypeInv
\* Outside resolve_package.
<1>k. ASSUME workspace' = workspace, resolved' = resolved, stage' # "resolve",
             loaded.manifests \subseteq loaded'.manifests
      PROVE  ClosedInv'
  BY <1>k, ClosedKept
<1>1. CASE NotImplemented \/ BuildDirectory
  BY <1>1, <1>k DEF NotImplemented, BuildDirectory, GoTo, resolving
<1>2. CASE BuildPackage
  <2>1. stack' = <<>> /\ resolved' = resolved /\ workspace' = workspace
    BY <1>2 DEF BuildPackage, At, GoTo, resolving, TypeInv, Fresh
  <2>2. resolved' = <<>>
    BY <1>2 DEF BuildPackage, At, resolving, TypeInv, Fresh
  <2> QED BY <2>1, <2>2 DEF ClosedInv, ResolvedIsClosed
<1>3. CASE CheckManifest
  <2>1. /\ workspace' = workspace /\ resolved' = resolved /\ stage' # "resolve"
        /\ LoadManifest(Target)
    BY <1>3 DEF CheckManifest, FailWith, GoTo, resolving
  <2> QED BY <1>k, <1>t, <2>1, LoadGrows
<1>4. CASE CheckFile
  <2>1. /\ workspace' = workspace /\ resolved' = resolved /\ stage' # "resolve"
        /\ loaded' = loaded \/ LoadFile(Target)
    BY <1>4 DEF CheckFile, FailWith, GoTo, resolving
  <2> QED BY <1>k, <1>t, <2>1, LoadGrows
<1>5. CASE ReportCycle \/ ReportManifest
  <2>1. /\ workspace' = workspace /\ resolved' = resolved /\ stage' # "resolve"
        /\ loaded' = loaded \/ LoadManifest(Callee)
    BY <1>5 DEF ReportCycle, ReportManifest, FailWith, resolving
  <2> QED BY <1>k, <1>t, <2>1, LoadGrows
<1>6. CASE ResolveInto
  BY <1>6, ClosedEnter
<1>7. CASE Return
  BY <1>7, ClosedReturn
<1>8. CASE Discover \/ Discovered \/ BuildExit
  BY <1>8, <1>k DEF Discover, Discovered, BuildExit, Conclude, FailWith, GoTo, resolving
<1>9. CASE LoadSource
  <2>1. /\ workspace' = workspace /\ resolved' = resolved /\ stage' # "resolve"
        /\ loaded' = loaded \/ \E f \in pending : LoadFile(f)
    BY <1>9 DEF LoadSource, FailWith, GoTo, resolving
  <2> QED BY <1>k, <1>t, <2>1, LoadGrows
<1>10. CASE CheckBin \/ ResolveModules \/ CheckPackage \/ FinishCheck
  BY <1>10, <1>k DEF CheckBin, ResolveModules, CheckPackage, FinishCheck, Analyze, Conclude,
                     FailWith, GoTo, resolving
<1>11. CASE Terminated \/ UNCHANGED vars
  BY <1>11, ClosedKept DEF Terminated, vars, resolving
<1> QED BY <1>1, <1>2, <1>3, <1>4, <1>5, <1>6, <1>7, <1>8, <1>9, <1>10, <1>11 DEF Next

\* pkg/resolve.cc:63-84: a build goes on with the target first and, with every
\* package, all it depends on, each with a manifest that parsed: for every
\* graph of dependencies.
THEOREM ResolvedIsClosedCorrect == Spec => []ResolvedIsClosed
<1>1. ClosedInv => ResolvedIsClosed
  BY DEF ClosedInv
<1> QED BY <1>1, ClosedInit, ClosedNext, TypeInit, TypeNext, PTL DEF Spec

\* What Append makes.
LEMMA Appended ==
    ASSUME NEW S, NEW s \in Seq(S), NEW x \in S
    PROVE  /\ Append(s, x) \in Seq(S) /\ Len(Append(s, x)) = Len(s) + 1 /\ Len(s) \in Nat
           /\ \A n \in 1 .. Len(s) : Append(s, x)[n] = s[n]
           /\ Append(s, x)[Len(s) + 1] = x
           /\ Append(s, x) # <<>> /\ Front(Append(s, x)) = s
<1> DEFINE t == Append(s, x)
<1>1. /\ t \in Seq(S) /\ Len(t) = Len(s) + 1 /\ Len(s) \in Nat
      /\ \A n \in 1 .. Len(s) : t[n] = s[n]
      /\ t[Len(s) + 1] = x
  OBVIOUS
<1>2. t # <<>>
  <2> HIDE DEF t
  <2>1. Len(t) # 0
    BY <1>1
  <2> QED BY <2>1
<1>3. Front(t) = s
  <2> HIDE DEF t
  <2>1. Len(t) - 1 = Len(s) /\ Len(s) <= Len(t)
    BY <1>1
  <2>2. /\ SubSeq(t, 1, Len(s)) \in Seq(S) /\ Len(SubSeq(t, 1, Len(s))) = Len(s)
        /\ \A k \in 1 .. Len(s) : SubSeq(t, 1, Len(s))[k] = t[k]
    BY <1>1, <2>1, Prefix
  <2>3. SubSeq(t, 1, Len(s)) = s
    BY <1>1, <2>2, SeqEqual
  <2> QED BY <2>1, <2>3 DEF Front
<1> QED BY <1>1, <1>2, <1>3

\* A sequence that is not empty is its front and its last element.
LEMMA EndsWith ==
    ASSUME NEW S, NEW s \in Seq(S), s # <<>>
    PROVE  \E front \in Seq(S), x \in S : s = Append(front, x) /\ Len(s) = Len(front) + 1
<1> DEFINE front == SubSeq(s, 1, Len(s) - 1)
           x == s[Len(s)]
<1>1. Len(s) \in Nat \ {0}
  OBVIOUS
<1>2. Len(s) - 1 \in Nat /\ Len(s) - 1 <= Len(s)
  BY <1>1
<1>3. /\ front \in Seq(S) /\ Len(front) = Len(s) - 1
      /\ \A k \in 1 .. Len(s) - 1 : front[k] = s[k]
  BY <1>2, Prefix
<1>4. x \in S
  BY <1>1
<1> HIDE DEF front
<1> DEFINE t == Append(front, x)
<1>5. /\ t \in Seq(S) /\ Len(t) = Len(s)
      /\ \A k \in 1 .. Len(front) : t[k] = front[k]
      /\ t[Len(front) + 1] = x
  <2> HIDE DEF x
  <2> QED BY <1>1, <1>3, <1>4, Appended
<1> HIDE DEF t
<1>6. \A k \in 1 .. Len(s) : s[k] = t[k]
  <2> SUFFICES ASSUME NEW k \in 1 .. Len(s) PROVE s[k] = t[k]
    OBVIOUS
  <2>1. CASE k = Len(s)
    BY <1>1, <1>3, <1>5, <2>1
  <2>2. CASE k # Len(s)
    BY <1>1, <1>3, <1>5, <2>2
  <2> QED BY <2>1, <2>2
<1>7. s = t
  BY <1>5, <1>6, SeqEqual
<1>8. Len(s) = Len(front) + 1
  BY <1>1, <1>3
<1> QED BY <1>3, <1>4, <1>7, <1>8 DEF t

\* Induction on sequences, stated of a set of them.
LEMMA SeqByAppend ==
    ASSUME NEW S, NEW T \in SUBSET Seq(S), <<>> \in T,
           \A s \in T : \A x \in S : Append(s, x) \in T
    PROVE  T = Seq(S)
<1> DEFINE N == {n \in Nat : \A s \in Seq(S) : Len(s) = n => s \in T}
<1>1. 0 \in N
  OBVIOUS
<1>2. ASSUME NEW n \in Nat, n \in N PROVE n + 1 \in N
  <2> SUFFICES ASSUME NEW s \in Seq(S), Len(s) = n + 1 PROVE s \in T
    OBVIOUS
  <2>1. s # <<>>
    OBVIOUS
  <2>2. PICK front \in Seq(S), x \in S : s = Append(front, x) /\ Len(s) = Len(front) + 1
    BY <2>1, EndsWith
  <2>3. Len(front) = n
    BY <2>2
  <2> QED BY <1>2, <2>2, <2>3
<1>3. N = Nat
  <2> HIDE DEF N
  <2>1. N \in SUBSET Nat
    BY DEF N
  <2> QED BY <1>1, <1>2, <2>1, NatByNext
<1>4. ASSUME NEW s \in Seq(S) PROVE s \in T
  <2>1. Len(s) \in N
    BY <1>3
  <2> QED BY <2>1
<1> QED BY <1>4

\* The places on the way from one place by N parts.
Moves(at, place, parts, N) ==
    at = [n \in 0 .. N |-> IF n = 0 THEN place ELSE Moved(at[n - 1], parts[n])]

\* The recursion of Follow has a solution for any number of parts.
LEMMA MovesExist ==
    ASSUME NEW place, NEW parts, NEW N \in Nat
    PROVE  \E at : Moves(at, place, parts, N)
<1> DEFINE Body(g, n) == IF n = 0 THEN place ELSE Moved(g[n - 1], parts[n])
           Unfolds(n, g) == g = [i \in 0 .. n |-> Body(g, i)]
           S == {n \in Nat : \E g : Unfolds(n, g)}
<1>1. 0 \in S
  <2> DEFINE g == [i \in 0 .. 0 |-> place]
  <2>1. \A i \in 0 .. 0 : Body(g, i) = place
    OBVIOUS
  <2> HIDE DEF Body
  <2>2. g = [i \in 0 .. 0 |-> Body(g, i)]
    BY <2>1
  <2> QED BY <2>2
<1>2. ASSUME NEW n \in Nat, n \in S PROVE n + 1 \in S
  <2>1. PICK g : g = [i \in 0 .. n |-> Body(g, i)]
    BY <1>2
  <2> DEFINE h == [i \in 0 .. n + 1 |-> Body(g, i)]
  <2>2. ASSUME NEW i \in 0 .. n + 1 PROVE Body(h, i) = Body(g, i)
    <3>1. CASE i = 0
      BY <3>1
    <3>2. CASE i # 0
      <4>1. i - 1 \in 0 .. n /\ i - 1 \in 0 .. n + 1
        BY <3>2
      <4>2. h[i - 1] = Body(g, i - 1)
        BY <4>1
      <4>3. g[i - 1] = Body(g, i - 1)
        BY <2>1, <4>1
      <4> HIDE DEF h
      <4>4. h[i - 1] = g[i - 1]
        BY <4>2, <4>3
      <4> QED BY <3>2, <4>4
    <3> QED BY <3>1, <3>2
  <2>3. h = [i \in 0 .. n + 1 |-> Body(h, i)]
    <3> HIDE DEF Body
    <3>1. \A i \in 0 .. n + 1 : Body(h, i) = Body(g, i)
      BY <2>2
    <3> QED BY <3>1
  <2>4. Unfolds(n + 1, h)
    BY <2>3
  <2> HIDE DEF h, Unfolds
  <2> QED BY <2>4
<1>3. S = Nat
  <2> HIDE DEF S
  <2>1. S \in SUBSET Nat
    BY DEF S
  <2> QED BY <1>1, <1>2, <2>1, NatByNext
<1>4. \E g : Unfolds(N, g)
  BY <1>3
<1> QED BY <1>4 DEF Moves

\* Two solutions agree as far as their parts do.
LEMMA MovesAgree ==
    ASSUME NEW place, NEW N \in Nat, NEW M \in Nat, N <= M,
           NEW parts, NEW others, \A n \in 1 .. N : parts[n] = others[n],
           NEW a, Moves(a, place, parts, N),
           NEW b, Moves(b, place, others, M)
    PROVE  a[N] = b[N]
<1> DEFINE S == {n \in Nat : n <= N => a[n] = b[n]}
<1>a. \A n \in 0 .. N : a[n] = IF n = 0 THEN place ELSE Moved(a[n - 1], parts[n])
  BY DEF Moves
<1>b. \A n \in 0 .. M : b[n] = IF n = 0 THEN place ELSE Moved(b[n - 1], others[n])
  BY DEF Moves
<1>1. 0 \in S
  BY <1>a, <1>b
<1>2. ASSUME NEW n \in Nat, n \in S PROVE n + 1 \in S
  <2> SUFFICES ASSUME n + 1 <= N PROVE a[n + 1] = b[n + 1]
    OBVIOUS
  <2>1. n + 1 \in 0 .. N /\ n + 1 \in 0 .. M /\ n + 1 \in 1 .. N /\ n + 1 # 0 /\ n + 1 - 1 = n
    OBVIOUS
  <2>2. a[n + 1] = Moved(a[n], parts[n + 1])
    BY <1>a, <2>1
  <2>3. b[n + 1] = Moved(b[n], others[n + 1])
    BY <1>b, <2>1
  <2>4. a[n] = b[n] /\ parts[n + 1] = others[n + 1]
    BY <1>2, <2>1
  <2> QED BY <2>2, <2>3, <2>4
<1>3. S = Nat
  <2> HIDE DEF S
  <2>1. S \in SUBSET Nat
    BY DEF S
  <2> QED BY <1>1, <1>2, <2>1, NatByNext
<1>4. N \in S
  BY <1>3
<1> QED BY <1>4

\* No parts lead nowhere.
LEMMA FollowNothing ==
    ASSUME NEW place
    PROVE  Follow(place, <<>>) = place
<1>1. Follow(place, <<>>) = (CHOOSE at : Moves(at, place, <<>>, Len(<<>>)))[Len(<<>>)]
  BY DEF Follow, Moves
<1>2. Len(<<>>) = 0
  OBVIOUS
<1>3. \E at : Moves(at, place, <<>>, 0)
  BY MovesExist
<1>4. Moves(CHOOSE at : Moves(at, place, <<>>, 0), place, <<>>, 0)
  BY <1>3
<1>5. \A at : Moves(at, place, <<>>, 0) => at[0] = place
  BY DEF Moves
<1> QED BY <1>1, <1>2, <1>4, <1>5

\* Follow moves by one part after the other.
LEMMA FollowUnfolds ==
    ASSUME NEW place, NEW parts \in Seq(Part), NEW part \in Part
    PROVE  Follow(place, Append(parts, part)) = Moved(Follow(place, parts), part)
<1> DEFINE more == Append(parts, part)
<1>1. \A ps : Follow(place, ps) = (CHOOSE at : Moves(at, place, ps, Len(ps)))[Len(ps)]
  BY DEF Follow, Moves
<1>2. /\ more \in Seq(Part) /\ Len(more) = Len(parts) + 1 /\ Len(parts) \in Nat
      /\ \A n \in 1 .. Len(parts) : parts[n] = more[n]
      /\ more[Len(parts) + 1] = part
  BY Appended
<1> HIDE DEF more
<1>3. ASSUME NEW ps \in Seq(Part)
      PROVE  \E at : Moves(at, place, ps, Len(ps)) /\ Follow(place, ps) = at[Len(ps)]
  <2>1. Len(ps) \in Nat
    OBVIOUS
  <2>2. \E at : Moves(at, place, ps, Len(ps))
    BY <2>1, MovesExist
  <2>3. Moves(CHOOSE at : Moves(at, place, ps, Len(ps)), place, ps, Len(ps))
    BY <2>2
  <2> QED BY <1>1, <2>3
<1>5. PICK a : Moves(a, place, parts, Len(parts)) /\ Follow(place, parts) = a[Len(parts)]
  BY <1>3
<1>6. PICK b : Moves(b, place, more, Len(more)) /\ Follow(place, more) = b[Len(more)]
  BY <1>2, <1>3
<1>7. a[Len(parts)] = b[Len(parts)]
  <2>1. Len(parts) <= Len(more) /\ Len(more) \in Nat
    BY <1>2
  <2> QED BY <1>2, <1>5, <1>6, <2>1, MovesAgree
<1>8. b[Len(parts) + 1] = Moved(b[Len(parts)], part)
  <2> DEFINE n == Len(parts) + 1
  <2>1. n \in 0 .. Len(more) /\ n # 0 /\ n - 1 = Len(parts) /\ more[n] = part
    BY <1>2
  <2>2. \A k \in 0 .. Len(more) :
           b[k] = IF k = 0 THEN place ELSE Moved(b[k - 1], more[k])
    BY <1>6 DEF Moves
  <2> HIDE DEF n
  <2>3. b[n] = Moved(b[n - 1], more[n])
    BY <2>1, <2>2
  <2> QED BY <2>1, <2>3 DEF n
<1> QED BY <1>2, <1>5, <1>6, <1>7, <1>8 DEF more

\* The paths that normalize_canonical makes of the first N parts.
Adds(at, absolute, parts, N) ==
    at = [n \in 0 .. N |-> IF n = 0 THEN Path(absolute, 0, <<>>) ELSE Added(at[n - 1], parts[n])]

\* The recursion of normalize_canonical has a solution.
LEMMA AddsExist ==
    ASSUME NEW absolute, NEW parts, NEW N \in Nat
    PROVE  \E at : Adds(at, absolute, parts, N)
<1> DEFINE Body(g, n) == IF n = 0 THEN Path(absolute, 0, <<>>) ELSE Added(g[n - 1], parts[n])
           Unfolds(n, g) == g = [i \in 0 .. n |-> Body(g, i)]
           S == {n \in Nat : \E g : Unfolds(n, g)}
<1>1. 0 \in S
  <2> DEFINE g == [i \in 0 .. 0 |-> Path(absolute, 0, <<>>)]
  <2>1. \A i \in 0 .. 0 : Body(g, i) = Path(absolute, 0, <<>>)
    OBVIOUS
  <2> HIDE DEF Body
  <2>2. g = [i \in 0 .. 0 |-> Body(g, i)]
    BY <2>1
  <2> QED BY <2>2
<1>2. ASSUME NEW n \in Nat, n \in S PROVE n + 1 \in S
  <2>1. PICK g : g = [i \in 0 .. n |-> Body(g, i)]
    BY <1>2
  <2> DEFINE h == [i \in 0 .. n + 1 |-> Body(g, i)]
  <2>2. ASSUME NEW i \in 0 .. n + 1 PROVE Body(h, i) = Body(g, i)
    <3>1. CASE i = 0
      BY <3>1
    <3>2. CASE i # 0
      <4>1. i - 1 \in 0 .. n /\ i - 1 \in 0 .. n + 1
        BY <3>2
      <4>2. h[i - 1] = Body(g, i - 1)
        BY <4>1
      <4>3. g[i - 1] = Body(g, i - 1)
        BY <2>1, <4>1
      <4> HIDE DEF h
      <4>4. h[i - 1] = g[i - 1]
        BY <4>2, <4>3
      <4> QED BY <3>2, <4>4
    <3> QED BY <3>1, <3>2
  <2>3. h = [i \in 0 .. n + 1 |-> Body(h, i)]
    <3> HIDE DEF Body
    <3>1. \A i \in 0 .. n + 1 : Body(h, i) = Body(g, i)
      BY <2>2
    <3> QED BY <3>1
  <2>4. Unfolds(n + 1, h)
    BY <2>3
  <2> HIDE DEF h, Unfolds
  <2> QED BY <2>4
<1>3. S = Nat
  <2> HIDE DEF S
  <2>1. S \in SUBSET Nat
    BY DEF S
  <2> QED BY <1>1, <1>2, <2>1, NatByNext
<1>4. \E g : Unfolds(N, g)
  BY <1>3
<1> QED BY <1>4 DEF Adds

\* Two solutions agree as far as their parts do.
LEMMA AddsAgree ==
    ASSUME NEW absolute, NEW N \in Nat, NEW M \in Nat, N <= M,
           NEW parts, NEW others, \A n \in 1 .. N : parts[n] = others[n],
           NEW a, Adds(a, absolute, parts, N),
           NEW b, Adds(b, absolute, others, M)
    PROVE  a[N] = b[N]
<1> DEFINE S == {n \in Nat : n <= N => a[n] = b[n]}
<1>a. \A n \in 0 .. N : a[n] = IF n = 0 THEN Path(absolute, 0, <<>>) ELSE Added(a[n - 1], parts[n])
  BY DEF Adds
<1>b. \A n \in 0 .. M : b[n] = IF n = 0 THEN Path(absolute, 0, <<>>) ELSE Added(b[n - 1], others[n])
  BY DEF Adds
<1>1. 0 \in S
  BY <1>a, <1>b
<1>2. ASSUME NEW n \in Nat, n \in S PROVE n + 1 \in S
  <2> SUFFICES ASSUME n + 1 <= N PROVE a[n + 1] = b[n + 1]
    OBVIOUS
  <2>1. n + 1 \in 0 .. N /\ n + 1 \in 0 .. M /\ n + 1 \in 1 .. N /\ n + 1 # 0 /\ n + 1 - 1 = n
    OBVIOUS
  <2>2. a[n + 1] = Added(a[n], parts[n + 1])
    BY <1>a, <2>1
  <2>3. b[n + 1] = Added(b[n], others[n + 1])
    BY <1>b, <2>1
  <2>4. a[n] = b[n] /\ parts[n + 1] = others[n + 1]
    BY <1>2, <2>1
  <2> QED BY <2>2, <2>3, <2>4
<1>3. S = Nat
  <2> HIDE DEF S
  <2>1. S \in SUBSET Nat
    BY DEF S
  <2> QED BY <1>1, <1>2, <2>1, NatByNext
<1>4. N \in S
  BY <1>3
<1> QED BY <1>4

\* No parts make the path of the top or of the current directory.
LEMMA NormalizeNothing ==
    ASSUME NEW absolute
    PROVE  normalize_canonical(absolute, <<>>) = Path(absolute, 0, <<>>)
<1>1. normalize_canonical(absolute, <<>>) =
         (CHOOSE at : Adds(at, absolute, <<>>, Len(<<>>)))[Len(<<>>)]
  BY DEF normalize_canonical, Adds
<1>2. Len(<<>>) = 0
  OBVIOUS
<1>3. \E at : Adds(at, absolute, <<>>, 0)
  BY AddsExist
<1>4. Adds(CHOOSE at : Adds(at, absolute, <<>>, 0), absolute, <<>>, 0)
  BY <1>3
<1>5. \A at : Adds(at, absolute, <<>>, 0) => at[0] = Path(absolute, 0, <<>>)
  BY DEF Adds
<1> QED BY <1>1, <1>2, <1>4, <1>5

\* normalize_canonical adds one part after the other.
LEMMA NormalizeUnfolds ==
    ASSUME NEW absolute, NEW parts \in Seq(Part), NEW part \in Part
    PROVE  normalize_canonical(absolute, Append(parts, part)) =
              Added(normalize_canonical(absolute, parts), part)
<1> DEFINE more == Append(parts, part)
<1>1. \A ps : normalize_canonical(absolute, ps) =
                 (CHOOSE at : Adds(at, absolute, ps, Len(ps)))[Len(ps)]
  BY DEF normalize_canonical, Adds
<1>2. /\ more \in Seq(Part) /\ Len(more) = Len(parts) + 1 /\ Len(parts) \in Nat
      /\ \A n \in 1 .. Len(parts) : parts[n] = more[n]
      /\ more[Len(parts) + 1] = part
  BY Appended
<1> HIDE DEF more
<1>3. ASSUME NEW ps \in Seq(Part)
      PROVE  \E at : /\ Adds(at, absolute, ps, Len(ps))
                     /\ normalize_canonical(absolute, ps) = at[Len(ps)]
  <2>1. Len(ps) \in Nat
    OBVIOUS
  <2>2. \E at : Adds(at, absolute, ps, Len(ps))
    BY <2>1, AddsExist
  <2>3. Adds(CHOOSE at : Adds(at, absolute, ps, Len(ps)), absolute, ps, Len(ps))
    BY <2>2
  <2> QED BY <1>1, <2>3
<1>5. PICK a : /\ Adds(a, absolute, parts, Len(parts))
               /\ normalize_canonical(absolute, parts) = a[Len(parts)]
  BY <1>3
<1>6. PICK b : /\ Adds(b, absolute, more, Len(more))
               /\ normalize_canonical(absolute, more) = b[Len(more)]
  BY <1>2, <1>3
<1>7. a[Len(parts)] = b[Len(parts)]
  <2>1. Len(parts) <= Len(more) /\ Len(more) \in Nat
    BY <1>2
  <2> QED BY <1>2, <1>5, <1>6, <2>1, AddsAgree
<1>8. b[Len(parts) + 1] = Added(b[Len(parts)], part)
  <2> DEFINE n == Len(parts) + 1
  <2>1. n \in 0 .. Len(more) /\ n # 0 /\ n - 1 = Len(parts) /\ more[n] = part
    BY <1>2
  <2>2. \A k \in 0 .. Len(more) :
           b[k] = IF k = 0 THEN Path(absolute, 0, <<>>) ELSE Added(b[k - 1], more[k])
    BY <1>6 DEF Adds
  <2> HIDE DEF n
  <2>3. b[n] = Added(b[n - 1], more[n])
    BY <2>1, <2>2
  <2> QED BY <2>1, <2>3 DEF n
<1> QED BY <1>2, <1>5, <1>6, <1>7, <1>8 DEF more

\* Lists joined to lists that grow.
LEMMA JoinAppended ==
    ASSUME NEW S, NEW a \in Seq(S), NEW b \in Seq(S), NEW x \in S
    PROVE  /\ a \o <<>> = a /\ a \o b \in Seq(S)
           /\ a \o Append(b, x) = Append(a \o b, x)
OBVIOUS

\* Lists of names grow by names only.
LEMMA NamesAppended ==
    ASSUME NEW s \in Seq(Part), NEW x \in Part
    PROVE  Names(Append(s, x)) <=> Names(s) /\ x \notin {"", ".", ".."}
<1> DEFINE t == Append(s, x)
<1>1. /\ t \in Seq(Part) /\ Len(t) = Len(s) + 1 /\ Len(s) \in Nat
      /\ \A n \in 1 .. Len(s) : t[n] = s[n]
      /\ t[Len(s) + 1] = x
  BY Appended
<1> HIDE DEF t
<1>2. \A n \in 1 .. Len(t) : n \in 1 .. Len(s) \/ n = Len(s) + 1
  BY <1>1
<1>3. /\ Len(s) + 1 \in 1 .. Len(t)
      /\ \A n \in 1 .. Len(s) : n \in 1 .. Len(t)
  BY <1>1
<1>4. Names(t) => Names(s) /\ x \notin {"", ".", ".."}
  BY <1>1, <1>3 DEF Names
<1>5. Names(s) /\ x \notin {"", ".", ".."} => Names(t)
  BY <1>1, <1>2 DEF Names
<1> QED BY <1>4, <1>5 DEF t

\* A step of the system ends at a place, and a name leads below.
LEMMA MovedFacts ==
    ASSUME NEW place \in Seq(Part), NEW part \in Part
    PROVE  /\ Moved(place, part) \in Seq(Part)
           /\ part \notin {"", ".", ".."} => Moved(place, part) = Append(place, part)
           /\ part \in {"", "."} => Moved(place, part) = place
           /\ part = ".." => Moved(place, part) = Parent(place)
<1>1. Parent(place) \in Seq(Part)
  <2>1. CASE place = <<>>
    BY <2>1 DEF Parent
  <2>2. CASE place # <<>>
    <3>1. Len(place) - 1 \in Nat /\ Len(place) - 1 <= Len(place)
      BY <2>2
    <3> QED BY <2>2, <3>1, Prefix DEF Parent, Front
  <2> QED BY <2>1, <2>2
<1>2. Append(place, part) \in Seq(Part)
  BY Appended
<1>3. part \in {"", "."} => Moved(place, part) = place
  BY DEF Moved
<1>4. part = ".." => Moved(place, part) = Parent(place)
  BY DEF Moved
<1>5. part \notin {"", ".", ".."} => Moved(place, part) = Append(place, part)
  BY DEF Moved
<1> QED BY <1>1, <1>2, <1>3, <1>4, <1>5

\* A walk along parts ends at a place.
LEMMA FollowType ==
    ASSUME NEW place \in Seq(Part), NEW parts \in Seq(Part)
    PROVE  Follow(place, parts) \in Seq(Part)
<1> DEFINE T == {ps \in Seq(Part) : Follow(place, ps) \in Seq(Part)}
<1>1. <<>> \in T
  BY FollowNothing
<1>2. ASSUME NEW s \in T, NEW x \in Part PROVE Append(s, x) \in T
  <2>1. s \in Seq(Part) /\ Follow(place, s) \in Seq(Part)
    OBVIOUS
  <2>2. Follow(place, Append(s, x)) = Moved(Follow(place, s), x)
    BY <2>1, FollowUnfolds
  <2>3. Moved(Follow(place, s), x) \in Seq(Part) /\ Append(s, x) \in Seq(Part)
    BY <2>1, MovedFacts, Appended
  <2> QED BY <2>2, <2>3
<1>3. T = Seq(Part)
  <2> HIDE DEF T
  <2>1. T \in SUBSET Seq(Part)
    BY DEF T
  <2> QED BY <1>1, <1>2, <2>1, SeqByAppend
<1> QED BY <1>3

\* Following parts after others is following them in one list.
LEMMA FollowConcat ==
    ASSUME NEW place \in Seq(Part), NEW a \in Seq(Part), NEW b \in Seq(Part)
    PROVE  Follow(place, a \o b) = Follow(Follow(place, a), b)
<1> DEFINE T == {ps \in Seq(Part) : Follow(place, a \o ps) = Follow(Follow(place, a), ps)}
<1>1. <<>> \in T
  <2>1. a \o <<>> = a
    OBVIOUS
  <2>2. Follow(Follow(place, a), <<>>) = Follow(place, a)
    BY FollowNothing
  <2> QED BY <2>1, <2>2
<1>2. ASSUME NEW s \in T, NEW x \in Part PROVE Append(s, x) \in T
  <2>1. s \in Seq(Part) /\ a \o s \in Seq(Part)
    OBVIOUS
  <2>2. a \o Append(s, x) = Append(a \o s, x)
    BY <2>1, JoinAppended
  <2>3. Follow(place, Append(a \o s, x)) = Moved(Follow(place, a \o s), x)
    BY <2>1, FollowUnfolds
  <2>4. Follow(Follow(place, a), Append(s, x)) = Moved(Follow(Follow(place, a), s), x)
    BY <2>1, FollowUnfolds
  <2> QED BY <2>1, <2>2, <2>3, <2>4, Appended
<1>3. T = Seq(Part)
  <2> HIDE DEF T
  <2>1. T \in SUBSET Seq(Part)
    BY DEF T
  <2> QED BY <1>1, <1>2, <2>1, SeqByAppend
<1> QED BY <1>3

\* Names lead straight down.
LEMMA FollowNames ==
    ASSUME NEW place \in Seq(Part), NEW names, Names(names)
    PROVE  Follow(place, names) = place \o names
<1> DEFINE T == {ps \in Seq(Part) : Names(ps) => Follow(place, ps) = place \o ps}
<1>1. <<>> \in T
  <2>1. place \o <<>> = place
    OBVIOUS
  <2> QED BY <2>1, FollowNothing
<1>2. ASSUME NEW s \in T, NEW x \in Part PROVE Append(s, x) \in T
  <2> SUFFICES ASSUME Names(Append(s, x))
               PROVE  Follow(place, Append(s, x)) = place \o Append(s, x)
    BY Appended
  <2>1. Names(s) /\ x \notin {"", ".", ".."}
    BY NamesAppended
  <2>2. Follow(place, Append(s, x)) = Moved(place \o s, x)
    <3>1. Follow(place, s) = place \o s
      BY <2>1
    <3> QED BY <3>1, FollowUnfolds
  <2>3. Moved(place \o s, x) = Append(place \o s, x)
    <3>1. place \o s \in Seq(Part)
      OBVIOUS
    <3> QED BY <2>1, <3>1, MovedFacts
  <2>4. place \o Append(s, x) = Append(place \o s, x)
    <3>1. s \in Seq(Part)
      OBVIOUS
    <3> QED BY <3>1, JoinAppended
  <2> QED BY <2>2, <2>3, <2>4
<1>3. T = Seq(Part)
  <2> HIDE DEF T
  <2>1. T \in SUBSET Seq(Part)
    BY DEF T
  <2> QED BY <1>1, <1>2, <2>1, SeqByAppend
<1>4. names \in Seq(Part)
  BY DEF Names
<1> QED BY <1>3, <1>4

-----------------------------------------------------------------------------
\* What normalize_canonical returns: no way up from the top, and names below.
Canonical(p) ==
    /\ p \in [absolute : BOOLEAN, ups : Nat, names : Seq(Part)]
    /\ p.absolute => p.ups = 0
    /\ Names(p.names)

\* Where a path starts is a place.
LEMMA BaseType ==
    ASSUME NEW p
    PROVE  Base(p) \in Seq(Part)
<1>1. <<>> \in Seq(Part)
  OBVIOUS
<1>2. CASE p.absolute
  BY <1>1, <1>2 DEF Base
<1>3. CASE ~p.absolute
  BY <1>3, CwdAssumption DEF Base
<1> QED BY <1>2, <1>3

\* A list of steps up.
LEMMA UpsAre ==
    ASSUME NEW n \in Nat
    PROVE  /\ Ups(n) \in Seq(Part) /\ Len(Ups(n)) = n
           /\ \A k \in 1 .. n : Ups(n)[k] = ".."
<1>1. ".." \in Part
  BY PartAssumption
<1> QED BY <1>1 DEF Ups

\* The steps up that a path begins with.
LEMMA UpsFacts ==
    ASSUME NEW n \in Nat
    PROVE  /\ Ups(n) \in Seq(Part) /\ Ups(n + 1) = Append(Ups(n), "..")
           /\ Ups(0) = <<>>
<1>1. /\ Ups(n) \in Seq(Part) /\ Len(Ups(n)) = n
      /\ \A k \in 1 .. n : Ups(n)[k] = ".."
  BY UpsAre
<1>2. /\ Ups(n + 1) \in Seq(Part) /\ Len(Ups(n + 1)) = n + 1
      /\ \A k \in 1 .. n + 1 : Ups(n + 1)[k] = ".."
  BY UpsAre
<1>0. PICK up \in Part : up = ".."
  BY PartAssumption
<1> DEFINE t == Append(Ups(n), up)
<1>3. /\ t \in Seq(Part) /\ Len(t) = n + 1
      /\ \A k \in 1 .. n : t[k] = Ups(n)[k]
      /\ t[n + 1] = up
  BY <1>1, Appended
<1> HIDE DEF t
<1>4. \A k \in 1 .. n + 1 : t[k] = ".."
  BY <1>0, <1>1, <1>3
<1>5. Ups(n + 1) = t
  BY <1>2, <1>3, <1>4, SeqEqual
<1>6. Ups(0) = <<>>
  BY DEF Ups
<1> QED BY <1>0, <1>1, <1>5, <1>6 DEF t

\* The place of a canonical path is below the one its ways up lead to.
LEMMA CanonicalPlace ==
    ASSUME NEW p, Canonical(p)
    PROVE  /\ Base(p) \in Seq(Part)
           /\ Follow(Base(p), Ups(p.ups)) \in Seq(Part)
           /\ PlaceOf(p) = Follow(Base(p), Ups(p.ups)) \o p.names
<1>1. Base(p) \in Seq(Part)
  BY BaseType
<1>2. Ups(p.ups) \in Seq(Part) /\ p.names \in Seq(Part)
  BY UpsFacts DEF Canonical
<1>3. Follow(Base(p), Ups(p.ups)) \in Seq(Part)
  BY <1>1, <1>2, FollowType
<1>4. PlaceOf(p) = Follow(Follow(Base(p), Ups(p.ups)), p.names)
  BY <1>1, <1>2, FollowConcat DEF PlaceOf
<1> QED BY <1>1, <1>3, <1>4, FollowNames DEF Canonical

\* The way up from a canonical path is the way up from its place.
LEMMA UpPlace ==
    ASSUME NEW p, Canonical(p)
    PROVE  Canonical(Up(p)) /\ Base(Up(p)) = Base(p) /\ PlaceOf(Up(p)) = Parent(PlaceOf(p))
<1> DEFINE top == Follow(Base(p), Ups(p.ups))
<1>1. /\ Base(p) \in Seq(Part) /\ top \in Seq(Part) /\ PlaceOf(p) = top \o p.names
      /\ p.names \in Seq(Part) /\ p.ups \in Nat
      /\ p \in [absolute : BOOLEAN, ups : Nat, names : Seq(Part)]
  BY CanonicalPlace DEF Canonical
<1>2. CASE p.names # <<>>
  <2>1. PICK front \in Seq(Part), x \in Part : p.names = Append(front, x)
    BY <1>1, <1>2, EndsWith
  <2> DEFINE q == [p EXCEPT !.names = front]
  <2>2. Up(p) = q
    <3>1. Front(p.names) = front
      BY <2>1, Appended
    <3> QED BY <1>2, <3>1 DEF Up
  <2>3. Names(front)
    BY <2>1, NamesAppended DEF Canonical
  <2>4. /\ q \in [absolute : BOOLEAN, ups : Nat, names : Seq(Part)]
        /\ q.absolute = p.absolute /\ q.ups = p.ups /\ q.names = front
    BY <1>1
  <2> HIDE DEF q
  <2>5. Canonical(q) /\ Base(q) = Base(p)
    BY <2>3, <2>4 DEF Canonical, Base
  <2>6. PlaceOf(q) = top \o front
    BY <2>4, <2>5, CanonicalPlace
  <2>7. top \o p.names = Append(top \o front, x) /\ top \o front \in Seq(Part)
    BY <1>1, <2>1, JoinAppended
  <2>8. Parent(Append(top \o front, x)) = top \o front
    BY <2>7, Appended DEF Parent
  <2> QED BY <1>1, <2>2, <2>5, <2>6, <2>7, <2>8
<1>3. CASE p.names = <<>> /\ p.absolute
  <2>1. Up(p) = p
    BY <1>3 DEF Up
  <2>2. PlaceOf(p) = <<>>
    <3>1. p.ups = 0 /\ Base(p) = <<>> /\ Ups(0) = <<>>
      BY <1>3, UpsFacts DEF Canonical, Base
    <3>2. top = <<>>
      BY <3>1, FollowNothing
    <3> QED BY <1>1, <1>3, <3>2
  <2> QED BY <2>1, <2>2 DEF Parent
<1>4. CASE p.names = <<>> /\ ~p.absolute
  <2> DEFINE q == [p EXCEPT !.ups = p.ups + 1]
  <2>1. Up(p) = q
    BY <1>4 DEF Up
  <2>2. /\ q \in [absolute : BOOLEAN, ups : Nat, names : Seq(Part)]
        /\ q.absolute = p.absolute /\ q.ups = p.ups + 1 /\ q.names = <<>>
    BY <1>1, <1>4
  <2> HIDE DEF q
  <2>3. Canonical(q) /\ Base(q) = Base(p)
    BY <1>4, <2>2 DEF Canonical, Base
  <2>4. PlaceOf(q) = Follow(Base(p), Ups(p.ups + 1)) \o <<>>
    BY <2>2, <2>3, CanonicalPlace
  <2>5. Follow(Base(p), Ups(p.ups + 1)) = Moved(top, "..")
    <3>1. Ups(p.ups + 1) = Append(Ups(p.ups), "..") /\ Ups(p.ups) \in Seq(Part)
      BY <1>1, UpsFacts
    <3> QED BY <3>1, FollowUnfolds, PartAssumption
  <2>6. Moved(top, "..") = Parent(top) /\ Moved(top, "..") \in Seq(Part)
    BY <1>1, MovedFacts, PartAssumption
  <2>7. PlaceOf(q) = Parent(top)
    <3>1. Parent(top) \o <<>> = Parent(top)
      BY <2>6
    <3> QED BY <2>4, <2>5, <2>6, <3>1
  <2>8. PlaceOf(p) = top
    <3>1. top \o <<>> = top
      BY <1>1
    <3> QED BY <1>1, <1>4, <3>1
  <2> QED BY <2>1, <2>3, <2>7, <2>8
<1>5. p.absolute \in BOOLEAN
  BY <1>1
<1> QED BY <1>2, <1>3, <1>4, <1>5

\* A part added to a canonical path is a step from its place.
LEMMA AddedPlace ==
    ASSUME NEW p, Canonical(p), NEW part \in Part
    PROVE  /\ Canonical(Added(p, part)) /\ Base(Added(p, part)) = Base(p)
           /\ PlaceOf(Added(p, part)) = Moved(PlaceOf(p), part)
<1> DEFINE top == Follow(Base(p), Ups(p.ups))
<1>1. /\ top \in Seq(Part) /\ PlaceOf(p) = top \o p.names
      /\ p.names \in Seq(Part)
      /\ p \in [absolute : BOOLEAN, ups : Nat, names : Seq(Part)]
  <2>1. top \in Seq(Part) /\ PlaceOf(p) = top \o p.names
    BY CanonicalPlace
  <2> HIDE DEF top
  <2> QED BY <2>1 DEF Canonical
<1>5. PlaceOf(p) \in Seq(Part)
  <2> HIDE DEF top
  <2> QED BY <1>1
<1>2. CASE part \in {"", "."}
  <2>1. Added(p, part) = p
    BY <1>2 DEF Added
  <2>2. Moved(PlaceOf(p), part) = PlaceOf(p)
    BY <1>2, <1>5, MovedFacts
  <2> QED BY <2>1, <2>2
<1>3. CASE part = ".."
  <2>1. Added(p, part) = Up(p)
    BY <1>3 DEF Added
  <2>2. Moved(PlaceOf(p), part) = Parent(PlaceOf(p))
    BY <1>3, <1>5, MovedFacts
  <2> QED BY <2>1, <2>2, UpPlace
<1>4. CASE part \notin {"", ".", ".."}
  <2> DEFINE more == Append(p.names, part)
             q == [p EXCEPT !.names = more]
  <2>1. Added(p, part) = q
    BY <1>4 DEF Added
  <2>2. Names(more) /\ more \in Seq(Part)
    BY <1>1, <1>4, NamesAppended, Appended DEF Canonical
  <2>3. /\ q \in [absolute : BOOLEAN, ups : Nat, names : Seq(Part)]
        /\ q.absolute = p.absolute /\ q.ups = p.ups /\ q.names = more
    <3> HIDE DEF more
    <3> QED BY <1>1, <2>2
  <2> HIDE DEF q
  <2>4. Canonical(q) /\ Base(q) = Base(p)
    BY <2>2, <2>3 DEF Canonical, Base
  <2>5. PlaceOf(q) = top \o more
    BY <2>3, <2>4, CanonicalPlace
  <2>6. top \o more = Append(top \o p.names, part)
    BY <1>1, JoinAppended
  <2>7. Moved(PlaceOf(p), part) = Append(PlaceOf(p), part)
    BY <1>4, <1>5, MovedFacts
  <2> QED BY <1>1, <2>1, <2>4, <2>5, <2>6, <2>7
<1> QED BY <1>2, <1>3, <1>4

\* path/path.cc, normalize_canonical: whatever parts it drops and pairs it
\* cancels, the path it returns leads where the parts written lead.
THEOREM NormalizeKeepsPlace ==
    ASSUME NEW absolute \in BOOLEAN, NEW parts \in Seq(Part)
    PROVE  /\ Canonical(normalize_canonical(absolute, parts))
           /\ PlaceOf(normalize_canonical(absolute, parts)) =
                  Follow(IF absolute THEN <<>> ELSE Cwd, parts)
<1> DEFINE base == IF absolute THEN <<>> ELSE Cwd
           T == {ps \in Seq(Part) :
                    /\ Canonical(normalize_canonical(absolute, ps))
                    /\ Base(normalize_canonical(absolute, ps)) = base
                    /\ PlaceOf(normalize_canonical(absolute, ps)) = Follow(base, ps)}
<1>1. base \in Seq(Part)
  <2>1. base = Base(Path(absolute, 0, <<>>))
    BY DEF Base, Path
  <2> QED BY <2>1, BaseType
<1>2. <<>> \in T
  <2> DEFINE p == Path(absolute, 0, <<>>)
  <2>1. normalize_canonical(absolute, <<>>) = p
    BY NormalizeNothing
  <2>2. p.absolute = absolute /\ p.ups = 0 /\ p.names = <<>> /\ Canonical(p) /\ Base(p) = base
    BY DEF Path, Canonical, Names, Base
  <2> HIDE DEF p
  <2>3. PlaceOf(p) = Follow(base, Ups(0)) \o <<>>
    BY <2>2, CanonicalPlace
  <2>4. Follow(base, Ups(0)) = base /\ Follow(base, <<>>) = base
    BY UpsFacts, FollowNothing
  <2>5. base \o <<>> = base
    BY <1>1
  <2> HIDE DEF base
  <2> QED BY <2>1, <2>2, <2>3, <2>4, <2>5
<1>3. ASSUME NEW s \in T, NEW x \in Part PROVE Append(s, x) \in T
  <2> DEFINE p == normalize_canonical(absolute, s)
  <2>1. /\ s \in Seq(Part) /\ Canonical(p) /\ Base(p) = base
        /\ PlaceOf(p) = Follow(base, s)
    OBVIOUS
  <2>2. normalize_canonical(absolute, Append(s, x)) = Added(p, x)
    BY <2>1, NormalizeUnfolds
  <2>3. Follow(base, Append(s, x)) = Moved(Follow(base, s), x)
    <3> HIDE DEF base
    <3> QED BY <2>1, FollowUnfolds
  <2>4. /\ Canonical(Added(p, x)) /\ Base(Added(p, x)) = base
        /\ PlaceOf(Added(p, x)) = Moved(PlaceOf(p), x)
    <3> HIDE DEF base, p
    <3> QED BY <2>1, AddedPlace
  <2>5. Append(s, x) \in Seq(Part)
    BY <2>1, Appended
  <2> HIDE DEF base, p
  <2> QED BY <2>1, <2>2, <2>3, <2>4, <2>5
<1>4. T = Seq(Part)
  <2> HIDE DEF T
  <2>1. T \in SUBSET Seq(Part)
    BY DEF T
  <2> QED BY <1>2, <1>3, <2>1, SeqByAppend
<1>5. parts \in T
  BY <1>4
<1> HIDE DEF base
<1>6. /\ Canonical(normalize_canonical(absolute, parts))
      /\ PlaceOf(normalize_canonical(absolute, parts)) = Follow(base, parts)
  BY <1>5
<1> QED BY <1>6 DEF base

\* A dependency's path leads where the system finds it from the package.
LEMMA JoinPlace ==
    ASSUME NEW p \in [absolute : BOOLEAN, ups : Nat, names : Seq(Part)], NEW child \in Seq(Part)
    PROVE  PlaceOf(join(p, child)) = Follow(PlaceOf(p), child) /\ PlaceOf(p) \in Seq(Part)
<1> DEFINE up == Ups(p.ups)
           own == up \o p.names
<1>1. /\ p.absolute \in BOOLEAN /\ p.names \in Seq(Part) /\ up \in Seq(Part)
      /\ Base(p) \in Seq(Part)
  BY UpsFacts, BaseType
<1> HIDE DEF up
<1>2. own \in Seq(Part) /\ up \o p.names \o child = own \o child
  BY <1>1
<1> HIDE DEF own
<1>3. own \o child \in Seq(Part)
  BY <1>2
<1>4. PlaceOf(join(p, child)) = Follow(Base(p), own \o child)
  BY <1>1, <1>2, <1>3, NormalizeKeepsPlace DEF join, Base, up
<1>5. PlaceOf(p) = Follow(Base(p), own)
  BY DEF PlaceOf, own, up
<1> QED BY <1>1, <1>2, <1>4, <1>5, FollowConcat, FollowType

-----------------------------------------------------------------------------
(***************************************************************************)
(* Packages and the files they are walked for.                             *)
(***************************************************************************)
\* Joining is associative.
LEMMA JoinAssociates ==
    ASSUME NEW S, NEW a \in Seq(S), NEW b \in Seq(S), NEW c \in Seq(S)
    PROVE  a \o (b \o c) = (a \o b) \o c
OBVIOUS

\* A sequence that begins with another.
LEMMA BeginsWith ==
    ASSUME NEW S, NEW p \in Seq(S), NEW g \in Seq(S), IsStrictPrefix(p, g)
    PROVE  /\ Len(p) < Len(g) /\ SubSeq(g, 1, Len(p)) = p
           /\ \A k \in 1 .. Len(p) : g[k] = p[k]
<1>1. Len(p) <= Len(g) /\ SubSeq(p, 1, Len(p)) = SubSeq(g, 1, Len(p)) /\ p # g
  BY DEF IsStrictPrefix, IsPrefix
<1>2. Len(p) \in Nat /\ Len(g) \in Nat
  OBVIOUS
<1>3. /\ SubSeq(p, 1, Len(p)) \in Seq(S) /\ Len(SubSeq(p, 1, Len(p))) = Len(p)
      /\ \A k \in 1 .. Len(p) : SubSeq(p, 1, Len(p))[k] = p[k]
  BY <1>2, Prefix
<1>4. SubSeq(p, 1, Len(p)) = p
  BY <1>3, SeqEqual
<1>5. \A k \in 1 .. Len(p) : SubSeq(g, 1, Len(p))[k] = g[k]
  BY <1>1, <1>2, Prefix
<1>6. \A k \in 1 .. Len(p) : g[k] = p[k]
  BY <1>1, <1>4, <1>5
<1>7. Len(p) # Len(g)
  <2> SUFFICES ASSUME Len(p) = Len(g) PROVE FALSE
    OBVIOUS
  <2>1. p = g
    BY <1>6, SeqEqual
  <2> QED BY <1>1, <2>1
<1> QED BY <1>1, <1>2, <1>4, <1>6, <1>7

\* What follows a prefix, joined to it, is the whole.
RestOf(rest, p, g) ==
    /\ rest = SubSeq(g, Len(p) + 1, Len(g)) /\ g = p \o rest
    /\ \A k \in 1 .. Len(rest) : \E i \in 1 .. Len(g) : rest[k] = g[i]

\* What a path that begins with another one goes on with.
LEMMA Rest ==
    ASSUME NEW S, NEW p \in Seq(S), NEW g \in Seq(S), IsStrictPrefix(p, g)
    PROVE  \E rest \in Seq(S) : RestOf(rest, p, g)
<1>r. PICK rest : rest = SubSeq(g, Len(p) + 1, Len(g))
  OBVIOUS
<1>1. /\ Len(p) < Len(g) /\ \A k \in 1 .. Len(p) : g[k] = p[k]
      /\ Len(p) \in Nat /\ Len(g) \in Nat
  BY BeginsWith
<1>2. /\ rest \in Seq(S) /\ Len(rest) = Len(g) - Len(p)
      /\ \A k \in 1 .. Len(g) - Len(p) : rest[k] = g[Len(p) + k]
  <2>1. Len(p) + 1 \in 1 .. Len(g) + 1 /\ Len(g) \in Nat
    BY <1>1
  <2>2. \A i \in Len(p) + 1 .. Len(g) : g[i] \in S
    BY <1>1
  <2>3. /\ rest \in Seq(S)
        /\ Len(rest) = IF Len(p) + 1 <= Len(g) THEN Len(g) - (Len(p) + 1) + 1 ELSE 0
        /\ \A i \in 1 .. Len(g) - (Len(p) + 1) + 1 : rest[i] = g[Len(p) + 1 + i - 1]
    BY <1>r, <2>1, <2>2, SubSeqProperties
  <2> QED BY <1>1, <2>3
<1> DEFINE u == p \o rest
<1>3. /\ u \in Seq(S) /\ Len(u) = Len(p) + Len(rest)
      /\ \A i \in 1 .. Len(p) : u[i] = p[i]
      /\ \A i \in 1 .. Len(rest) : u[Len(p) + i] = rest[i]
  BY <1>2
<1> HIDE DEF u
<1>4. \A k \in 1 .. Len(g) : g[k] = u[k]
  <2> SUFFICES ASSUME NEW k \in 1 .. Len(g) PROVE g[k] = u[k]
    OBVIOUS
  <2>1. CASE k <= Len(p)
    BY <1>1, <1>3, <2>1
  <2>2. CASE k > Len(p)
    <3>1. k - Len(p) \in 1 .. Len(rest) /\ k = Len(p) + (k - Len(p))
      BY <1>1, <1>2, <2>2
    <3>2. u[k] = rest[k - Len(p)] /\ rest[k - Len(p)] = g[k]
      BY <1>2, <1>3, <3>1
    <3> QED BY <3>2
  <2> QED BY <1>1, <2>1, <2>2
<1>5. g = u
  <2>1. Len(g) = Len(u)
    BY <1>1, <1>2, <1>3
  <2> QED BY <1>3, <1>4, <2>1, SeqEqual
<1>6. \A k \in 1 .. Len(rest) : \E i \in 1 .. Len(g) : rest[k] = g[i]
  <2> SUFFICES ASSUME NEW k \in 1 .. Len(rest) PROVE \E i \in 1 .. Len(g) : rest[k] = g[i]
    OBVIOUS
  <2>1. Len(p) + k \in 1 .. Len(g) /\ rest[k] = g[Len(p) + k]
    BY <1>1, <1>2
  <2> QED BY <2>1
<1> QED BY <1>r, <1>2, <1>5, <1>6 DEF u, RestOf

\* A directory is a path and leads to a place.
LEMMA DirPlace ==
    ASSUME NEW w, NEW tree, Shows(w, tree), NEW d \in w.dirs
    PROVE  /\ d \in [absolute : BOOLEAN, ups : Nat, names : Seq(Part)]
           /\ Base(d) \in Seq(Part) /\ Ups(d.ups) \in Seq(Part) /\ d.names \in Seq(Part)
           /\ PlaceOf(d) \in Seq(Part)
<1>1. d \in [absolute : BOOLEAN, ups : Nat, names : Seq(Part)]
  BY DEF Shows
<1>2. d.ups \in Nat /\ d.names \in Seq(Part)
  BY <1>1
<1>3. Base(d) \in Seq(Part) /\ Ups(d.ups) \in Seq(Part)
  BY <1>2, UpsFacts, BaseType
<1>4. Ups(d.ups) \o d.names \in Seq(Part)
  BY <1>2, <1>3
<1> QED BY <1>1, <1>2, <1>3, <1>4, FollowType DEF PlaceOf

\* A list of some of the parts of a list of names.
LEMMA NamesAmong ==
    ASSUME NEW g, Names(g), NEW rest \in Seq(Part),
           \A k \in 1 .. Len(rest) : \E i \in 1 .. Len(g) : rest[k] = g[i]
    PROVE  Names(rest)
BY DEF Names

\* The names below a directory lead from it to the file they were taken from.
LEMMA WalkedNames ==
    ASSUME NEW base \in Seq(Part), NEW up \in Seq(Part), NEW own \in Seq(Part),
           NEW top, top = Follow(base, up \o own),
           NEW g \in Seq(Part), IsStrictPrefix(top, g),
           Names(g)
    PROVE  Follow(base, up \o (own \o SubSeq(g, Len(top) + 1, Len(g)))) = g
<1>1. up \o own \in Seq(Part)
  BY JoinAppended
<1>2. top \in Seq(Part)
  BY <1>1, FollowType
<1>r. PICK rest \in Seq(Part) : RestOf(rest, top, g)
  BY <1>2, Rest
<1>3. /\ rest = SubSeq(g, Len(top) + 1, Len(g)) /\ g = top \o rest
      /\ \A k \in 1 .. Len(rest) : \E i \in 1 .. Len(g) : rest[k] = g[i]
  BY <1>r DEF RestOf
<1>4. Names(rest)
  BY <1>3, NamesAmong
<1>5. up \o (own \o rest) = (up \o own) \o rest
  BY JoinAssociates
<1>6. Follow(base, (up \o own) \o rest) = Follow(top, rest)
  BY <1>1, FollowConcat
<1>7. Follow(top, rest) = g
  BY <1>2, <1>3, <1>4, FollowNames
<1> QED BY <1>3, <1>5, <1>6, <1>7

\* A file of a walk lies below the directory, and in no package in between.
LEMMA WalkedBelow ==
    ASSUME NEW w, NEW tree, Shows(w, tree), NEW d \in w.dirs, NEW f \in walk_sources(tree, d)
    PROVE  /\ PlaceOf(f) \in Seq(Part)
           /\ IsStrictPrefix(PlaceOf(d), PlaceOf(f))
           /\ \A k \in Len(PlaceOf(d)) + 1 .. Len(PlaceOf(f)) - 1 :
                 ~ is_nested_package(tree, SubSeq(PlaceOf(f), 1, k))
<1> DEFINE top == PlaceOf(d)
<1>1. /\ d \in [absolute : BOOLEAN, ups : Nat, names : Seq(Part)]
      /\ Base(d) \in Seq(Part) /\ Ups(d.ups) \in Seq(Part) /\ d.names \in Seq(Part)
  BY DirPlace
<1>2. PICK g \in tree.files :
          /\ IsStrictPrefix(top, g)
          /\ \A k \in Len(top) + 1 .. Len(g) - 1 : ~ is_nested_package(tree, SubSeq(g, 1, k))
          /\ f = [d EXCEPT !.names = d.names \o SubSeq(g, Len(top) + 1, Len(g))]
  BY DEF walk_sources
<1>3. g \in Seq(Part) /\ Names(g)
  BY DEF Shows, Names
<1>4. top = Follow(Base(d), Ups(d.ups) \o d.names)
  BY DEF PlaceOf
<1> HIDE DEF top
<1>5. IsStrictPrefix(top, g)
  BY <1>2
<1> DEFINE names == d.names \o SubSeq(g, Len(top) + 1, Len(g))
<1>6. f = [d EXCEPT !.names = names]
  BY <1>2
<1>7. Follow(Base(d), Ups(d.ups) \o names) = g
  BY <1>1, <1>3, <1>4, <1>5, WalkedNames
<1> HIDE DEF names
<1>8. f.absolute = d.absolute /\ f.ups = d.ups /\ f.names = names
  BY <1>1, <1>6
<1>9. PlaceOf(f) = g
  BY <1>7, <1>8 DEF PlaceOf, Base
<1> QED BY <1>2, <1>3, <1>9 DEF top

\* A package inside a directory keeps its files from the walk of the directory.
LEMMA NestedApart ==
    ASSUME NEW w, NEW tree, Shows(w, tree), NEW d \in w.dirs, NEW e \in w.dirs,
           w.manifests[e].kind # "missing", PlaceOf(d) # PlaceOf(e),
           NEW f \in walk_sources(tree, d), NEW h \in walk_sources(tree, e), PlaceOf(f) = PlaceOf(h)
    PROVE  Len(PlaceOf(e)) < Len(PlaceOf(d))
<1> DEFINE p == PlaceOf(d)
           q == PlaceOf(e)
           g == PlaceOf(f)
<1>1. /\ p \in Seq(Part) /\ q \in Seq(Part) /\ g \in Seq(Part)
      /\ IsStrictPrefix(p, g) /\ IsStrictPrefix(q, g)
      /\ \A k \in Len(p) + 1 .. Len(g) - 1 : ~ is_nested_package(tree, SubSeq(g, 1, k))
  <2>1. /\ PlaceOf(f) \in Seq(Part) /\ IsStrictPrefix(p, PlaceOf(f))
        /\ \A k \in Len(p) + 1 .. Len(PlaceOf(f)) - 1 :
              ~ is_nested_package(tree, SubSeq(PlaceOf(f), 1, k))
    BY WalkedBelow
  <2>2. IsStrictPrefix(q, PlaceOf(h))
    BY WalkedBelow
  <2> QED BY <2>1, <2>2, DirPlace
<1>2. is_nested_package(tree, q)
  BY DEF Shows, is_nested_package
<1>3. p # q
  OBVIOUS
<1> HIDE DEF p, q, g
<1>4. /\ Len(p) < Len(g) /\ SubSeq(g, 1, Len(p)) = p /\ Len(p) \in Nat
      /\ Len(q) < Len(g) /\ SubSeq(g, 1, Len(q)) = q /\ Len(q) \in Nat /\ Len(g) \in Nat
  BY <1>1, BeginsWith
<1>5. Len(p) # Len(q)
  BY <1>3, <1>4
<1>6. ~ (Len(p) < Len(q))
  <2> SUFFICES ASSUME Len(p) < Len(q) PROVE FALSE
    OBVIOUS
  <2>1. Len(q) \in Len(p) + 1 .. Len(g) - 1
    BY <1>4
  <2> QED BY <1>1, <1>2, <1>4, <2>1
<1>7. Len(q) < Len(p)
  <2>1. \A a, b \in Nat : a # b /\ ~ (a < b) => b < a
    OBVIOUS
  <2> QED BY <1>4, <1>5, <1>6, <2>1
<1> QED BY <1>7 DEF p, q

-----------------------------------------------------------------------------
\* The workspace is one of those given, and shows its tree.
LEMMA WorkspaceKept == [Next]_vars => workspace' = workspace
<1> SUFFICES ASSUME [Next]_vars PROVE workspace' = workspace
  OBVIOUS
<1>1. CASE NotImplemented \/ BuildPackage \/ BuildDirectory \/ CheckManifest \/ CheckFile
  BY <1>1 DEF NotImplemented, BuildPackage, BuildDirectory, CheckManifest, CheckFile, GoTo,
              FailWith
<1>2. CASE ReportCycle \/ ReportManifest \/ ResolveInto \/ Return
  BY <1>2 DEF ReportCycle, ReportManifest, ResolveInto, Return, GoTo, FailWith
<1>3. CASE Discover \/ LoadSource \/ Discovered \/ BuildExit
  BY <1>3 DEF Discover, LoadSource, Discovered, BuildExit, Conclude, GoTo, FailWith
<1>4. CASE CheckBin \/ ResolveModules \/ CheckPackage \/ FinishCheck
  BY <1>4 DEF CheckBin, ResolveModules, CheckPackage, FinishCheck, Conclude, GoTo, FailWith
<1>5. CASE Terminated \/ UNCHANGED vars
  BY <1>5 DEF Terminated, vars
<1> QED BY <1>1, <1>2, <1>3, <1>4, <1>5 DEF Next

ShowsTree == Shows(workspace, Tree)

\* No step changes what the workspace shows.
LEMMA ShowsTreeKept ==
    /\ Init => ShowsTree
    /\ ShowsTree /\ [Next]_vars => ShowsTree'
<1>1. Init => ShowsTree
  BY WorkspacesShowTrees DEF Init, ShowsTree, Tree
<1>2. ASSUME ShowsTree, [Next]_vars PROVE ShowsTree'
  <2>1. workspace' = workspace
    BY <1>2, WorkspaceKept
  <2> QED BY <1>2, <2>1 DEF ShowsTree, Tree
<1> QED BY <1>1, <1>2

\* A file of two packages would make each of them nested in the other one.
LEMMA ShareNoFile ==
    ASSUME TypeResolving, ResolvedIsClosed, ShowsTree
    PROVE  PackagesShareNoFile
<1> SUFFICES ASSUME NEW i \in 1 .. Len(resolved), NEW j \in 1 .. Len(resolved),
                    PlaceOf(resolved[i]) # PlaceOf(resolved[j]),
                    NEW f \in workspace.sources[resolved[i]],
                    NEW h \in workspace.sources[resolved[j]], PlaceOf(f) = PlaceOf(h)
             PROVE  FALSE
  BY DEF PackagesShareNoFile
<1> DEFINE d == resolved[i]
           e == resolved[j]
<1>1. resolved \in Seq(workspace.dirs) /\ Shows(workspace, Tree)
  BY DEF TypeResolving, ShowsTree
<1>2. d \in workspace.dirs /\ e \in workspace.dirs /\ resolved # <<>>
  BY <1>1
<1>3. workspace.manifests[d].kind = "good" /\ workspace.manifests[e].kind = "good"
  BY <1>2 DEF ResolvedIsClosed, ManifestAt
<1>4. f \in walk_sources(Tree, d) /\ h \in walk_sources(Tree, e) /\ PlaceOf(d) # PlaceOf(e)
  BY <1>1, <1>2 DEF Shows
<1> HIDE DEF d, e
<1>5. workspace.manifests[d].kind # "missing" /\ workspace.manifests[e].kind # "missing"
  BY <1>3
<1>6. Len(PlaceOf(e)) < Len(PlaceOf(d)) /\ Len(PlaceOf(d)) < Len(PlaceOf(e))
  BY <1>1, <1>2, <1>4, <1>5, NestedApart
<1>7. Len(PlaceOf(e)) \in Nat /\ Len(PlaceOf(d)) \in Nat
  <2>1. PlaceOf(e) \in Seq(Part)
    BY <1>1, <1>2, DirPlace
  <2>2. PlaceOf(d) \in Seq(Part)
    BY <1>1, <1>2, DirPlace
  <2> QED BY <2>1, <2>2
<1> QED BY <1>6, <1>7

\* pipeline.h:20-23: a file below two packages of a build is walked for the
\* nearer one only, wherever the packages lie and however they are spelled.
THEOREM PackagesShareNoFileCorrect == Spec => []PackagesShareNoFile
<1>1. TypeInv /\ ClosedInv /\ ShowsTree => PackagesShareNoFile
  BY ShareNoFile DEF TypeInv, ClosedInv
<1> QED BY <1>1, ClosedInit, ClosedNext, TypeInit, TypeNext, ShowsTreeKept, PTL DEF Spec

-----------------------------------------------------------------------------
(***************************************************************************)
(* What a target needs: the least closed set of places.                    *)
(***************************************************************************)
ClosedPlaces(P) == \A q \in P : DependsOn(q) \subseteq P

\* A place without manifest depends on nothing.
LEMMA DependsInside == \A q : DependsOn(q) \subseteq Places
<1> SUFFICES ASSUME NEW q, NEW x \in DependsOn(q) PROVE x \in Places
  OBVIOUS
<1>1. CASE q \in DOMAIN Tree.manifests
  BY <1>1 DEF Places
<1>2. CASE q \notin DOMAIN Tree.manifests
  <2>1. ManifestAtPlace(Tree, q).deps = <<>>
    BY <1>2 DEF ManifestAtPlace, NoManifest
  <2>2. DependsOn(q) = {}
    <3>1. 1 .. Len(<<>>) = {}
      OBVIOUS
    <3> QED BY <2>1, <3>1 DEF DependsOn
  <2> QED BY <2>2
<1> QED BY <1>1, <1>2

\* Needed holds the places it starts from and is closed.
LEMMA NeededHolds ==
    ASSUME NEW places
    PROVE  places \subseteq Needed(places) /\ ClosedPlaces(Needed(places))
<1>1. places \subseteq Needed(places)
  BY DEF Needed
<1>2. ASSUME NEW q \in Needed(places), NEW x \in DependsOn(q) PROVE x \in Needed(places)
  <2>1. x \in places \cup Places
    BY DependsInside
  <2>2. ASSUME NEW P \in SUBSET (places \cup Places), places \subseteq P,
               \A r \in P : DependsOn(r) \subseteq P
        PROVE  x \in P
    <3>1. q \in P
      BY <2>2 DEF Needed
    <3> QED BY <2>2, <3>1
  <2> QED BY <2>1, <2>2 DEF Needed
<1> QED BY <1>1, <1>2 DEF ClosedPlaces

\* No closed set that holds them leaves out a place of it.
LEMMA NeededLeast ==
    ASSUME NEW places, NEW P, places \subseteq P, ClosedPlaces(P)
    PROVE  Needed(places) \subseteq P
<1> DEFINE all == places \cup Places
           Q == P \cap all
<1>1. Q \in SUBSET all /\ places \subseteq Q
  OBVIOUS
<1>2. \A r \in Q : DependsOn(r) \subseteq Q
  BY DependsInside DEF ClosedPlaces
<1>3. Needed(places) \subseteq Q
  <2> HIDE DEF Q
  <2> QED BY <1>1, <1>2 DEF Needed
<1> QED BY <1>3

\* It needs nothing more than what it already needs.
LEMMA NeededGrows ==
    ASSUME NEW P, NEW places, P \subseteq Needed(places)
    PROVE  Needed(P) \subseteq Needed(places)
BY NeededHolds, NeededLeast

\* A cycle through a place goes on through one of its dependencies, so a place
\* is on no cycle once none of its dependencies is.
LEMMA CycleGoesOn ==
    ASSUME NEW p, OnCycle(p)
    PROVE  \E q \in DependsOn(p) : OnCycle(q)
<1> DEFINE U == DependsOn(p) \cup UNION {Needed(DependsOn(q)) : q \in DependsOn(p)}
<1>1. ClosedPlaces(U)
  <2> SUFFICES ASSUME NEW r \in U, NEW x \in DependsOn(r) PROVE x \in U
    BY DEF ClosedPlaces
  <2>1. CASE r \in DependsOn(p)
    <3>1. x \in Needed(DependsOn(r))
      BY NeededHolds
    <3> QED BY <2>1, <3>1
  <2>2. CASE \E q \in DependsOn(p) : r \in Needed(DependsOn(q))
    <3>1. PICK q \in DependsOn(p) : r \in Needed(DependsOn(q))
      BY <2>2
    <3>2. x \in Needed(DependsOn(q))
      BY <3>1, NeededHolds DEF ClosedPlaces
    <3> QED BY <3>2
  <2> QED BY <2>1, <2>2
<1>2. DependsOn(p) \subseteq U
  OBVIOUS
<1>3. p \in U
  <2> HIDE DEF U
  <2>1. p \in Needed(DependsOn(p))
    BY DEF OnCycle
  <2> QED BY <1>1, <1>2, <2>1, NeededLeast
<1>4. CASE p \in DependsOn(p)
  BY <1>4
<1>5. CASE \E q \in DependsOn(p) : p \in Needed(DependsOn(q))
  <2>1. PICK q \in DependsOn(p) : p \in Needed(DependsOn(q))
    BY <1>5
  <2>2. q \in Needed(DependsOn(q))
    BY <2>1, NeededHolds DEF ClosedPlaces
  <2> QED BY <2>2 DEF OnCycle
<1> QED BY <1>3, <1>4, <1>5

\* The places of a package's dependencies are those its place depends on.
LEMMA DepsPlaces ==
    ASSUME ShowsTree, NEW d \in workspace.dirs
    PROVE  DependsOn(PlaceOf(d)) = {PlaceOf(Deps(d)[k]) : k \in 1 .. Len(Deps(d))}
<1> DEFINE deps == ManifestAtPlace(Tree, PlaceOf(d)).deps
<1>1. Shows(workspace, Tree)
  BY DEF ShowsTree
<1>2. /\ d \in [absolute : BOOLEAN, ups : Nat, names : Seq(Part)]
      /\ PlaceOf(d) \in Seq(Part)
  BY <1>1, DirPlace
<1>3. Deps(d) = JoinedDeps(Tree, d)
  BY <1>1 DEF Shows, Deps, ManifestAt
<1>4. deps \in Seq(Seq(Part))
  <2>1. CASE PlaceOf(d) \in DOMAIN Tree.manifests
    BY <1>1, <2>1 DEF Shows, ManifestAtPlace
  <2>2. CASE PlaceOf(d) \notin DOMAIN Tree.manifests
    <3>1. deps = <<>>
      BY <2>2 DEF ManifestAtPlace, NoManifest
    <3> QED BY <3>1
  <2> QED BY <2>1, <2>2
<1>5. DependsOn(PlaceOf(d)) = {Follow(PlaceOf(d), deps[k]) : k \in 1 .. Len(deps)}
  BY DEF DependsOn
<1>6. Deps(d) = [k \in 1 .. Len(deps) |-> join(d, deps[k])]
  BY <1>3 DEF JoinedDeps
<1> HIDE DEF deps
<1>7. Len(Deps(d)) = Len(deps) /\ Len(deps) \in Nat
  BY <1>4, <1>6
<1>8. \A k \in 1 .. Len(deps) : PlaceOf(Deps(d)[k]) = Follow(PlaceOf(d), deps[k])
  <2> SUFFICES ASSUME NEW k \in 1 .. Len(deps)
               PROVE  PlaceOf(Deps(d)[k]) = Follow(PlaceOf(d), deps[k])
    OBVIOUS
  <2>1. Deps(d)[k] = join(d, deps[k])
    BY <1>6
  <2>2. deps[k] \in Seq(Part)
    BY <1>4
  <2> QED BY <1>2, <2>1, <2>2, JoinPlace
<1> QED BY <1>5, <1>7, <1>8

-----------------------------------------------------------------------------
(***************************************************************************)
(* resolve_package succeeds on a target that needs no cycle and no missing *)
(* manifest, and on no other: what it has put together so far is needed,   *)
(* and what it has finished is on no cycle, in any spelling.               *)
(***************************************************************************)
FrameFound(frame) ==
    /\ \A j \in 1 .. Len(frame.packages) : PlaceOf(frame.packages[j]) \in Needed({Start})
    /\ \A j \in 2 .. Len(frame.packages) : ~ OnCycle(PlaceOf(frame.packages[j]))
    /\ \A k \in 1 .. frame.next - 1 : ~ OnCycle(PlaceOf(Deps(frame.dir)[k]))

PackageErrors == {"Cycle", "ManifestIo", "ManifestInvalid"}

FoundInv ==
    /\ stage = "resolve" => \A i \in 1 .. Len(stack) : FrameFound(stack[i])
    /\ \A j \in 1 .. Len(resolved) :
          PlaceOf(resolved[j]) \in Needed({Start}) /\ ~ OnCycle(PlaceOf(resolved[j]))
    /\ command = "build" /\ LoadsManifest(Target) /\ stage \in {"discover", "load"} =>
          resolved # <<>>
    /\ command = "build" /\ diags \cap PackageErrors # {} => ~ Resolvable

\* Before the command starts nothing has been found.
LEMMA FoundInit == Init => FoundInv
<1> SUFFICES ASSUME Init PROVE FoundInv
  OBVIOUS
<1>1. stage = "start" /\ resolved = <<>> /\ diags = {}
  BY DEF Init
<1>2. 1 .. Len(resolved) = {}
  BY <1>1
<1> QED BY <1>1, <1>2 DEF FoundInv

\* What only depends on the workspace.
LEMMA SameWorkspace ==
    ASSUME workspace' = workspace
    PROVE  /\ \A P : Needed(P)' = Needed(P)
           /\ \A p : OnCycle(p)' <=> OnCycle(p)
           /\ \A d : Deps(d)' = Deps(d)
           /\ \A d : ManifestAt(d)' = ManifestAt(d)
           /\ Start' = Start /\ Target' = Target /\ (Resolvable' <=> Resolvable)
           /\ LoadsManifest(Target)' <=> LoadsManifest(Target)
           /\ \A f : FrameFound(f)' <=> FrameFound(f)
<1>1. /\ Tree' = Tree /\ Target' = Target /\ Start' = Start
      /\ \A d : ManifestAt(d)' = ManifestAt(d)
      /\ \A d : Deps(d)' = Deps(d)
  BY DEF Tree, Target, Start, ManifestAt, Deps
<1>2. \A q : DependsOn(q)' = DependsOn(q)
  BY <1>1 DEF DependsOn
<1>3. Places' = Places
  BY <1>1, <1>2 DEF Places
<1>4. \A P : Needed(P)' = Needed(P)
  BY <1>2, <1>3 DEF Needed
<1>5. \A p : OnCycle(p)' <=> OnCycle(p)
  BY <1>2, <1>4 DEF OnCycle
<1>6. Resolvable' <=> Resolvable
  BY <1>1, <1>4, <1>5 DEF Resolvable
<1>7. LoadsManifest(Target)' <=> LoadsManifest(Target)
  BY <1>1 DEF LoadsManifest
<1>8. \A f : FrameFound(f)' <=> FrameFound(f)
  BY <1>1, <1>4, <1>5 DEF FrameFound
<1> QED BY <1>1, <1>4, <1>5, <1>6, <1>7, <1>8

\* The path of packages under way, from one of them to the top, stays among
\* what the first one needs.
LEMMA PathNeeded ==
    ASSUME TypeInv, ShowsTree, stage = "resolve", NEW i \in 1 .. Len(stack)
    PROVE  \A j \in i .. Len(stack) :
              DependsOn(PlaceOf(stack[j].dir)) \subseteq Needed(DependsOn(PlaceOf(stack[i].dir)))
<1> DEFINE N == Needed(DependsOn(PlaceOf(stack[i].dir)))
           S == {n \in Nat : i + n <= Len(stack) =>
                                DependsOn(PlaceOf(stack[i + n].dir)) \subseteq N}
<1>1. stack \in Seq(Frame) /\ IsWorkspace(workspace) /\ Len(stack) \in Nat /\ i \in Nat
  BY DEF TypeInv, TypeResolving
<1>2. 0 \in S
  <2>1. i + 0 = i
    BY <1>1
  <2> QED BY <2>1, NeededHolds
<1>3. ASSUME NEW n \in Nat, n \in S PROVE n + 1 \in S
  <2> SUFFICES ASSUME i + (n + 1) <= Len(stack)
               PROVE  DependsOn(PlaceOf(stack[i + (n + 1)].dir)) \subseteq N
    OBVIOUS
  <2> DEFINE c == stack[i + n]
  <2>1. /\ i + n \in 1 .. Len(stack) - 1 /\ i + n <= Len(stack) /\ (i + n) + 1 = i + (n + 1)
        /\ i + n \in 1 .. Len(stack)
    BY <1>1
  <2>2. c \in Frame /\ DependsOn(PlaceOf(c.dir)) \subseteq N
    BY <1>1, <1>3, <2>1
  <2>3. c.next <= Len(Deps(c.dir)) /\ stack[i + (n + 1)].dir = Deps(c.dir)[c.next]
    BY <2>1 DEF TypeInv, VisitedIsPath
  <2> HIDE DEF c, N
  <2>4. c.next \in Nat \ {0} /\ c.dir \in workspace.dirs
    BY <2>2 DEF Frame
  <2>5. Len(Deps(c.dir)) \in Nat
    BY <1>1, <2>4, AtDirectory
  <2>6. c.next \in 1 .. Len(Deps(c.dir))
    BY <2>3, <2>4, <2>5
  <2>7. PlaceOf(stack[i + (n + 1)].dir) \in N
    BY <2>2, <2>3, <2>4, <2>6, DepsPlaces
  <2> QED BY <2>7, NeededHolds DEF N, ClosedPlaces
<1>4. S = Nat
  <2> HIDE DEF S
  <2>1. S \in SUBSET Nat
    BY DEF S
  <2> QED BY <1>2, <1>3, <2>1, NatByNext
<1> SUFFICES ASSUME NEW j \in i .. Len(stack)
             PROVE  DependsOn(PlaceOf(stack[j].dir)) \subseteq N
  OBVIOUS
<1>5. j - i \in Nat /\ i + (j - i) = j /\ j <= Len(stack)
  BY <1>1
<1>6. j - i \in S
  BY <1>4, <1>5
<1> HIDE DEF N
<1> QED BY <1>5, <1>6

\* The package under way, and what is called for it.
LEMMA CalleeNeeded ==
    ASSUME TypeInv, ClosedInv, FoundInv, ShowsTree, Calls
    PROVE  /\ PlaceOf(Callee) \in Needed({Start}) /\ Callee \in workspace.dirs
           /\ stack # <<>> => PlaceOf(Callee) \in DependsOn(PlaceOf(Top.dir))
           /\ ManifestAt(Callee).kind = ManifestAtPlace(Tree, PlaceOf(Callee)).kind
<1>1. /\ Callee \in workspace.dirs /\ stage = "resolve"
      /\ stack # <<>> => /\ Len(stack) \in Nat \ {0} /\ Top \in Frame
                         /\ Top.next \in 1 .. Len(Deps(Top.dir))
  BY CalleeType DEF TypeInv, Calls
<1>2. ManifestAt(Callee).kind = ManifestAtPlace(Tree, PlaceOf(Callee)).kind
  BY <1>1 DEF ShowsTree, Shows, ManifestAt
<1>3. CASE stack = <<>>
  <2>1. PlaceOf(Callee) = Start
    BY <1>3 DEF Callee, Start
  <2> QED BY <1>1, <1>2, <1>3, <2>1, NeededHolds
<1>4. CASE stack # <<>>
  <2>1. Callee = Deps(Top.dir)[Top.next] /\ Top.dir \in workspace.dirs
    BY <1>1, <1>4 DEF Callee, Frame
  <2>2. PlaceOf(Callee) \in DependsOn(PlaceOf(Top.dir))
    BY <1>1, <1>4, <2>1, DepsPlaces
  <2>3. PlaceOf(Top.dir) \in Needed({Start})
    <3>1. Len(stack) \in 1 .. Len(stack)
      BY <1>1, <1>4
    <3>2. Len(Top.packages) >= 1 /\ Top.packages[1] = Top.dir
      BY <1>1, <3>1 DEF ClosedInv, FrameClosed, Top
    <3>3. Len(Top.packages) \in Nat
      BY <1>1, <1>4 DEF Frame
    <3>4. 1 \in 1 .. Len(Top.packages)
      BY <3>2, <3>3
    <3> QED BY <1>1, <3>1, <3>2, <3>4 DEF FoundInv, FrameFound, Top
  <2>4. PlaceOf(Callee) \in Needed({Start})
    BY <2>2, <2>3, NeededHolds DEF ClosedPlaces
  <2> QED BY <1>1, <1>2, <2>2, <2>4
<1> QED BY <1>3, <1>4

\* A package that is reached again on the path is on a cycle.
LEMMA SeenOnCycle ==
    ASSUME TypeInv, ClosedInv, FoundInv, ShowsTree, Calls, Seen(Callee)
    PROVE  ~ Resolvable
<1>1. PlaceOf(Callee) \in Needed({Start}) /\ stage = "resolve"
  BY CalleeNeeded DEF Calls
<1>2. PICK i \in 1 .. Len(stack) : stack[i].dir = Callee
  <2>1. PICK i \in 1 .. Len(visited) : visited[i] = Callee
    BY DEF Seen
  <2>2. Len(visited) = Len(stack) /\ visited[i] = stack[i].dir
    BY <1>1, <2>1 DEF TypeInv, VisitedIsPath
  <2> QED BY <2>1, <2>2
<1>3. stack # <<>> /\ Len(stack) \in i .. Len(stack)
  BY DEF TypeInv, TypeResolving
<1>4. DependsOn(PlaceOf(Top.dir)) \subseteq Needed(DependsOn(PlaceOf(Callee)))
  BY <1>1, <1>2, <1>3, PathNeeded DEF Top
<1>5. PlaceOf(Callee) \in DependsOn(PlaceOf(Top.dir))
  BY <1>3, CalleeNeeded
<1>6. OnCycle(PlaceOf(Callee))
  BY <1>4, <1>5 DEF OnCycle
<1> QED BY <1>1, <1>6 DEF Resolvable

\* Neither is a target that needs a package without a manifest that parses.
LEMMA BadNeeded ==
    ASSUME TypeInv, ClosedInv, FoundInv, ShowsTree, Calls, ManifestAt(Callee).kind # "good"
    PROVE  ~ Resolvable
BY CalleeNeeded DEF Resolvable

\* Steps outside resolve_package, or that fail in it.
LEMMA FoundKept ==
    ASSUME FoundInv, workspace' = workspace, resolved' = resolved, command' = command,
           stage' # "resolve",
           \/ diags' \cap PackageErrors \subseteq diags
           \/ command # "build"
           \/ ~ Resolvable,
           stage' \in {"discover", "load"} =>
               stage \in {"discover", "load"} \/ command # "build" \/ ~ LoadsManifest(Target)
    PROVE  FoundInv'
<1>1. /\ \A P : Needed(P)' = Needed(P)
      /\ \A p : OnCycle(p)' <=> OnCycle(p)
      /\ Start' = Start /\ Target' = Target /\ (Resolvable' <=> Resolvable)
      /\ LoadsManifest(Target)' <=> LoadsManifest(Target)
  BY SameWorkspace
<1>2. \A j \in 1 .. Len(resolved') :
         (PlaceOf(resolved[j]) \in Needed({Start}) /\ ~ OnCycle(PlaceOf(resolved[j])))'
  BY <1>1 DEF FoundInv
<1>3. (command = "build" /\ LoadsManifest(Target) /\ stage \in {"discover", "load"} =>
          resolved # <<>>)'
  BY <1>1 DEF FoundInv
<1>4. (command = "build" /\ diags \cap PackageErrors # {} => ~ Resolvable)'
  BY <1>1 DEF FoundInv, PackageErrors
<1> QED BY <1>2, <1>3, <1>4 DEF FoundInv

\* resolve_into starts with a package that is needed.
LEMMA FoundEnter ==
    ASSUME TypeInv, ClosedInv, FoundInv, ShowsTree, ResolveInto
    PROVE  FoundInv'
<1> DEFINE f == [dir |-> Callee, next |-> 1, packages |-> <<Callee>>]
<1>1. /\ stage = "resolve" /\ stage' = "resolve" /\ stack \in Seq(Frame) /\ command' = command
      /\ stack' = Append(stack, f) /\ workspace' = workspace /\ resolved' = resolved
      /\ diags' = diags /\ Calls
  BY DEF TypeInv, TypeResolving, ResolveInto, Calls, GoTo
<1>2. Callee \in workspace.dirs /\ PlaceOf(Callee) \in Needed({Start})
  BY <1>1, CalleeNeeded
<1>3. f \in Frame /\ f.next = 1 /\ f.packages = <<Callee>>
  <2>1. <<Callee>> \in Seq(workspace.dirs)
    BY <1>2, Singleton
  <2>2. f.next = 1 /\ f.packages = <<Callee>>
    OBVIOUS
  <2>3. f \in [dir : workspace.dirs, next : Nat \ {0}, packages : Seq(workspace.dirs)]
    BY <2>1, <1>2
  <2> QED BY <2>2, <2>3 DEF Frame
<1>4. Len(f.packages) = 1 /\ f.packages[1] = Callee
  OBVIOUS
<1> HIDE DEF f
<1>5. FrameFound(f)
  BY <1>2, <1>3, <1>4 DEF FrameFound
<1>6. /\ Len(stack) \in Nat /\ Len(stack') = Len(stack) + 1
      /\ stack'[Len(stack) + 1] = f
      /\ \A i \in 1 .. Len(stack) : stack'[i] = stack[i]
  BY <1>1, <1>3
<1>7. \A i \in 1 .. Len(stack') : FrameFound(stack'[i])
  <2> SUFFICES ASSUME NEW i \in 1 .. Len(stack) + 1 PROVE FrameFound(stack'[i])
    BY <1>6
  <2>1. CASE i = Len(stack) + 1
    BY <2>1, <1>5, <1>6
  <2>2. CASE i \in 1 .. Len(stack)
    BY <1>1, <1>6, <2>2 DEF FoundInv
  <2> QED BY <1>6, <2>1, <2>2
<1>8. /\ \A P : Needed(P)' = Needed(P)
      /\ \A p : OnCycle(p)' <=> OnCycle(p)
      /\ Start' = Start /\ (Resolvable' <=> Resolvable)
      /\ \A g : FrameFound(g)' <=> FrameFound(g)
  BY <1>1, SameWorkspace
<1>9. \A i \in 1 .. Len(stack') : FrameFound(stack[i])'
  BY <1>7, <1>8
<1>10. \A j \in 1 .. Len(resolved') :
          (PlaceOf(resolved[j]) \in Needed({Start}) /\ ~ OnCycle(PlaceOf(resolved[j])))'
  BY <1>1, <1>8 DEF FoundInv
<1>11. (command = "build" /\ diags \cap PackageErrors # {} => ~ Resolvable)'
  BY <1>1, <1>8 DEF FoundInv, PackageErrors
<1> QED BY <1>1, <1>9, <1>10, <1>11 DEF FoundInv

\* A package that returns is on no cycle: none of its dependencies is.
LEMMA FinishedAcyclic ==
    ASSUME IsWorkspace(workspace), ShowsTree, NEW frame \in Frame, FrameFound(frame),
           frame.next > Len(Deps(frame.dir))
    PROVE  ~ OnCycle(PlaceOf(frame.dir))
<1>1. frame.dir \in workspace.dirs /\ frame.next \in Nat
  BY DEF Frame
<1>2. Len(Deps(frame.dir)) \in Nat
  BY <1>1, AtDirectory
<1>3. \A k \in 1 .. Len(Deps(frame.dir)) : ~ OnCycle(PlaceOf(Deps(frame.dir)[k]))
  <2>1. \A k \in 1 .. Len(Deps(frame.dir)) : k \in 1 .. frame.next - 1
    BY <1>1, <1>2
  <2> QED BY <2>1 DEF FrameFound
<1>4. \A q \in DependsOn(PlaceOf(frame.dir)) : ~ OnCycle(q)
  BY <1>1, <1>3, DepsPlaces
<1> QED BY <1>4, CycleGoesOn

\* What a callee returns to its caller is needed and on no cycle.
LEMMA MergedFound ==
    ASSUME IsWorkspace(workspace), ShowsTree, NEW known,
           NEW caller \in Frame, FrameFound(caller), FrameClosed(caller, known),
           caller.next \in 1 .. Len(Deps(caller.dir)),
           NEW callee \in Frame, FrameFound(callee), FrameClosed(callee, known),
           callee.dir = Deps(caller.dir)[caller.next],
           callee.next > Len(Deps(callee.dir)),
           NEW merged, merged = Advanced(caller, callee.packages)
    PROVE  FrameFound(merged)
<1> DEFINE s == caller.packages
           t == callee.packages
           u == s \o t
<1>1. /\ s \in Seq(workspace.dirs) /\ t \in Seq(workspace.dirs)
      /\ caller.next \in Nat \ {0}
  BY DEF Frame
<1>2. merged.packages = u /\ merged.dir = caller.dir /\ merged.next = caller.next + 1
  BY DEF Advanced, Merged, Frame
<1>3. Len(s) \in Nat /\ Len(t) \in Nat /\ Len(s) >= 1 /\ Len(t) >= 1 /\ t[1] = callee.dir
  BY <1>1 DEF FrameClosed
<1>4. ~ OnCycle(PlaceOf(callee.dir))
  BY FinishedAcyclic
<1>5. /\ \A j \in 1 .. Len(s) : PlaceOf(s[j]) \in Needed({Start})
      /\ \A j \in 1 .. Len(t) : PlaceOf(t[j]) \in Needed({Start})
      /\ \A j \in 2 .. Len(s) : ~ OnCycle(PlaceOf(s[j]))
      /\ \A j \in 2 .. Len(t) : ~ OnCycle(PlaceOf(t[j]))
      /\ \A k \in 1 .. caller.next - 1 : ~ OnCycle(PlaceOf(Deps(caller.dir)[k]))
  BY DEF FrameFound
<1> HIDE DEF s, t, u
<1>6. /\ Len(u) = Len(s) + Len(t)
      /\ \A i \in 1 .. Len(s) : u[i] = s[i]
      /\ \A i \in 1 .. Len(t) : u[Len(s) + i] = t[i]
      /\ \A i \in 1 .. Len(u) : i \in 1 .. Len(s) \/ \E k \in 1 .. Len(t) : i = Len(s) + k
  BY <1>1, Concatenation DEF u
<1>7. \A j \in 1 .. Len(t) : ~ OnCycle(PlaceOf(t[j]))
  <2> SUFFICES ASSUME NEW j \in 1 .. Len(t) PROVE ~ OnCycle(PlaceOf(t[j]))
    OBVIOUS
  <2>1. CASE j = 1
    BY <1>3, <1>4, <2>1
  <2>2. CASE j # 1
    <3>1. j \in 2 .. Len(t)
      BY <1>3, <2>2
    <3> QED BY <1>5, <3>1
  <2> QED BY <2>1, <2>2
<1>8. \A j \in 1 .. Len(u) : PlaceOf(u[j]) \in Needed({Start})
  <2> SUFFICES ASSUME NEW j \in 1 .. Len(u) PROVE PlaceOf(u[j]) \in Needed({Start})
    OBVIOUS
  <2>1. CASE j \in 1 .. Len(s)
    BY <1>5, <1>6, <2>1
  <2>2. CASE \E k \in 1 .. Len(t) : j = Len(s) + k
    BY <1>5, <1>6, <2>2
  <2> QED BY <1>6, <2>1, <2>2
<1>9. \A j \in 2 .. Len(u) : ~ OnCycle(PlaceOf(u[j]))
  <2> SUFFICES ASSUME NEW j \in 2 .. Len(u) PROVE ~ OnCycle(PlaceOf(u[j]))
    OBVIOUS
  <2>1. CASE j \in 1 .. Len(s)
    <3>1. j \in 2 .. Len(s) /\ u[j] = s[j]
      BY <1>3, <1>6, <2>1
    <3> QED BY <1>5, <3>1
  <2>2. CASE \E k \in 1 .. Len(t) : j = Len(s) + k
    BY <1>6, <1>7, <2>2
  <2>3. j \in 1 .. Len(u)
    BY <1>3, <1>6
  <2> QED BY <1>6, <2>1, <2>2, <2>3
<1>10. \A k \in 1 .. caller.next + 1 - 1 : ~ OnCycle(PlaceOf(Deps(caller.dir)[k]))
  <2> SUFFICES ASSUME NEW k \in 1 .. caller.next
               PROVE  ~ OnCycle(PlaceOf(Deps(caller.dir)[k]))
    BY <1>1
  <2>1. CASE k \in 1 .. caller.next - 1
    BY <1>5, <2>1
  <2>2. CASE k = caller.next
    BY <1>4, <2>2
  <2> QED BY <1>1, <2>1, <2>2
<1>11. /\ \A j \in 1 .. Len(merged.packages) : PlaceOf(merged.packages[j]) \in Needed({Start})
       /\ \A j \in 2 .. Len(merged.packages) : ~ OnCycle(PlaceOf(merged.packages[j]))
  BY <1>2, <1>8, <1>9
<1>12. \A k \in 1 .. merged.next - 1 : ~ OnCycle(PlaceOf(Deps(merged.dir)[k]))
  BY <1>2, <1>10
<1> QED BY <1>11, <1>12 DEF FrameFound

\* A return, to a caller or out of resolve_package.
LEMMA FoundReturn ==
    ASSUME TypeInv, ClosedInv, FoundInv, ShowsTree, Return
    PROVE  FoundInv'
<1>1. /\ stage = "resolve" /\ stack \in Seq(Frame) /\ stack # <<>>
      /\ Top.next > Len(Deps(Top.dir)) /\ IsWorkspace(workspace)
      /\ workspace' = workspace /\ diags' = diags /\ command' = command
  BY DEF TypeInv, TypeResolving, Return, Returns, GoTo
<1>2. /\ \A P : Needed(P)' = Needed(P)
      /\ \A p : OnCycle(p)' <=> OnCycle(p)
      /\ Start' = Start /\ (Resolvable' <=> Resolvable)
      /\ \A g : FrameFound(g)' <=> FrameFound(g)
  BY <1>1, SameWorkspace
<1>3. (command = "build" /\ diags \cap PackageErrors # {} => ~ Resolvable)'
  BY <1>1, <1>2 DEF FoundInv, PackageErrors
<1>4. Len(stack) \in Nat \ {0} /\ Top \in Frame /\ Len(stack) \in 1 .. Len(stack)
  BY <1>1 DEF Top
<1>5. FrameFound(Top) /\ FrameClosed(Top, loaded.manifests)
  BY <1>1, <1>4 DEF ClosedInv, FoundInv, Top
<1>6. CASE Len(stack) > 1
  <2> DEFINE caller == stack[Len(stack) - 1]
             merged == Advanced(caller, Top.packages)
  <2>1. Len(stack) # 1
    <3>1. \A k \in Nat : k > 1 => k # 1
      OBVIOUS
    <3> QED BY <1>4, <1>6, <3>1
  <2>2. resolved' = resolved /\ stage' = "resolve"
    BY <2>1, <1>1 DEF Return, GoTo
  <2>3. Len(stack) - 1 \in 1 .. Len(stack) /\ caller \in Frame
    BY <1>1, <1>4, <1>6
  <2>4. /\ caller.next \in 1 .. Len(Deps(caller.dir))
        /\ Top.dir = Deps(caller.dir)[caller.next]
    <3>1. Len(stack) - 1 \in 1 .. Len(stack) - 1 /\ Len(stack) - 1 + 1 = Len(stack)
      BY <1>4, <1>6
    <3>2. /\ caller.next <= Len(Deps(caller.dir))
          /\ Top.dir = Deps(caller.dir)[caller.next]
      BY <1>1, <3>1 DEF TypeInv, VisitedIsPath, Top
    <3>3. caller.next \in Nat \ {0} /\ caller.dir \in workspace.dirs
      BY <2>3 DEF Frame
    <3>4. Len(Deps(caller.dir)) \in Nat
      BY <1>1, <3>3, AtDirectory
    <3> QED BY <3>2, <3>3, <3>4
  <2>5. FrameFound(caller) /\ FrameClosed(caller, loaded.manifests)
    BY <1>1, <2>3 DEF ClosedInv, FoundInv
  <2> HIDE DEF caller
  <2>6. FrameFound(merged)
    BY <1>1, <1>4, <1>5, <2>3, <2>4, <2>5, MergedFound
  <2> HIDE DEF merged
  <2>7. /\ Len(stack') = Len(stack) - 1
        /\ \A k \in 1 .. Len(stack) - 2 : stack'[k] = stack[k]
        /\ stack'[Len(stack) - 1] = merged
    BY <1>6, ReturnType DEF merged, caller
  <2>8. \A i \in 1 .. Len(stack') : FrameFound(stack'[i])
    <3> SUFFICES ASSUME NEW i \in 1 .. Len(stack) - 1 PROVE FrameFound(stack'[i])
      BY <2>7
    <3>1. CASE i = Len(stack) - 1
      BY <2>6, <2>7, <3>1
    <3>2. CASE i \in 1 .. Len(stack) - 2
      <4>1. i \in 1 .. Len(stack) /\ stack'[i] = stack[i]
        BY <1>4, <2>7, <3>2
      <4> QED BY <1>1, <4>1 DEF FoundInv
    <3> QED BY <1>4, <3>1, <3>2
  <2>9. \A i \in 1 .. Len(stack') : FrameFound(stack[i])'
    BY <1>2, <2>8
  <2>10. \A j \in 1 .. Len(resolved') :
            (PlaceOf(resolved[j]) \in Needed({Start}) /\ ~ OnCycle(PlaceOf(resolved[j])))'
    BY <1>2, <2>2 DEF FoundInv
  <2> QED BY <1>3, <2>2, <2>9, <2>10 DEF FoundInv
<1>7. CASE Len(stack) = 1
  <2> DEFINE ps == Top.packages
  <2>1. ~(Len(stack) > 1)
    BY <1>7
  <2>2. resolved' = ps /\ stage' = "discover"
    BY <2>1 DEF Return, GoTo
  <2>3. ps \in Seq(workspace.dirs) /\ Len(ps) \in Nat /\ Len(ps) >= 1 /\ ps[1] = Top.dir
    BY <1>4, <1>5 DEF Frame, FrameClosed
  <2>4. ~ OnCycle(PlaceOf(Top.dir))
    BY <1>1, <1>4, <1>5, FinishedAcyclic
  <2>5. /\ \A j \in 1 .. Len(ps) : PlaceOf(ps[j]) \in Needed({Start})
        /\ \A j \in 2 .. Len(ps) : ~ OnCycle(PlaceOf(ps[j]))
    BY <1>5 DEF FrameFound
  <2> HIDE DEF ps
  <2>6. \A j \in 1 .. Len(ps) : j = 1 \/ j \in 2 .. Len(ps)
    BY <2>3
  <2>7. \A j \in 1 .. Len(ps) : PlaceOf(ps[j]) \in Needed({Start}) /\ ~ OnCycle(PlaceOf(ps[j]))
    BY <2>3, <2>4, <2>5, <2>6
  <2>8. \A j \in 1 .. Len(resolved') :
            (PlaceOf(resolved[j]) \in Needed({Start}) /\ ~ OnCycle(PlaceOf(resolved[j])))'
    BY <1>2, <2>2, <2>7
  <2>9. resolved' # <<>>
    BY <2>2, <2>3
  <2> QED BY <1>3, <2>2, <2>8, <2>9 DEF FoundInv
<1>8. Len(stack) > 1 \/ Len(stack) = 1
  <2>1. \A k \in Nat \ {0} : k > 1 \/ k = 1
    OBVIOUS
  <2> QED BY <1>4, <2>1
<1> QED BY <1>6, <1>7, <1>8

\* Every step keeps what resolve_package found.
LEMMA FoundNext == TypeInv /\ ClosedInv /\ FoundInv /\ ShowsTree /\ [Next]_vars => FoundInv'
<1> SUFFICES ASSUME TypeInv, ClosedInv, FoundInv, ShowsTree, [Next]_vars PROVE FoundInv'
  OBVIOUS
<1>w. workspace' = workspace
  BY WorkspaceKept
<1>1. CASE NotImplemented \/ BuildDirectory \/ CheckManifest \/ CheckFile
  <2>1. /\ resolved' = resolved /\ command' = command /\ stage' # "resolve"
        /\ command # "build" \/ diags' \cap PackageErrors \subseteq diags
        /\ stage' \in {"discover", "load"} => command # "build" \/ ~ LoadsManifest(Target)
    BY <1>1 DEF NotImplemented, BuildDirectory, CheckManifest, CheckFile, At, GoTo, FailWith,
                resolving, PackageErrors
  <2> QED BY <1>w, <2>1, FoundKept
<1>2. CASE BuildPackage
  <2>1. /\ stack' = <<>> /\ resolved' = <<>> /\ diags' = diags /\ command' = command
        /\ stage' = "resolve" /\ workspace' = workspace
    BY <1>2 DEF BuildPackage, At, GoTo, resolving, TypeInv, Fresh
  <2>2. Resolvable' <=> Resolvable
    BY <1>w, SameWorkspace
  <2>3. 1 .. Len(resolved') = {} /\ 1 .. Len(stack') = {}
    BY <2>1
  <2>4. (command = "build" /\ diags \cap PackageErrors # {} => ~ Resolvable)'
    BY <2>1, <2>2 DEF FoundInv, PackageErrors
  <2> QED BY <2>1, <2>3, <2>4 DEF FoundInv
<1>3. CASE ReportCycle
  <2>1. /\ resolved' = resolved /\ command' = command /\ stage' = "exited"
        /\ Calls /\ Seen(Callee)
    BY <1>3 DEF ReportCycle, FailWith, resolving
  <2>2. ~ Resolvable
    BY <2>1, SeenOnCycle
  <2> QED BY <1>w, <2>1, <2>2, FoundKept
<1>4. CASE ReportManifest
  <2>1. /\ resolved' = resolved /\ command' = command /\ stage' = "exited"
        /\ Calls /\ ManifestAt(Callee).kind # "good"
    BY <1>4 DEF ReportManifest, FailWith, resolving, LoadsManifest
  <2>2. ~ Resolvable
    BY <2>1, BadNeeded
  <2> QED BY <1>w, <2>1, <2>2, FoundKept
<1>5. CASE ResolveInto
  BY <1>5, FoundEnter
<1>6. CASE Return
  BY <1>6, FoundReturn
<1>7. CASE Discover \/ LoadSource \/ Discovered \/ BuildExit
  <2>1. /\ resolved' = resolved /\ command' = command /\ stage' # "resolve"
        /\ diags' \cap PackageErrors \subseteq diags
        /\ stage' \in {"discover", "load"} => stage \in {"discover", "load"}
    BY <1>7 DEF Discover, LoadSource, Discovered, BuildExit, Conclude, FailWith, GoTo,
                resolving, PackageErrors
  <2> QED BY <1>w, <2>1, FoundKept
<1>8. CASE CheckBin \/ ResolveModules \/ CheckPackage \/ FinishCheck
  <2>1. /\ resolved' = resolved /\ command' = command /\ stage' # "resolve"
        /\ diags' \cap PackageErrors \subseteq diags
        /\ stage' \notin {"discover", "load"}
    BY <1>8 DEF CheckBin, ResolveModules, CheckPackage, FinishCheck, Analyze, Conclude,
                FailWith, GoTo, resolving, PackageErrors
  <2> QED BY <1>w, <2>1, FoundKept
<1>9. CASE Terminated \/ UNCHANGED vars
  <2>1. /\ resolved' = resolved /\ command' = command /\ stage' = stage /\ stack' = stack
        /\ diags' = diags
    BY <1>9 DEF Terminated, vars, resolving
  <2>2. CASE stage # "resolve"
    BY <1>w, <2>1, <2>2, FoundKept
  <2>3. CASE stage = "resolve"
    <3>1. /\ \A P : Needed(P)' = Needed(P)
          /\ \A p : OnCycle(p)' <=> OnCycle(p)
          /\ Start' = Start /\ (Resolvable' <=> Resolvable)
          /\ \A g : FrameFound(g)' <=> FrameFound(g)
      BY <1>w, SameWorkspace
    <3>2. \A i \in 1 .. Len(stack') : FrameFound(stack[i])'
      BY <2>1, <2>3, <3>1 DEF FoundInv
    <3>3. \A j \in 1 .. Len(resolved') :
            (PlaceOf(resolved[j]) \in Needed({Start}) /\ ~ OnCycle(PlaceOf(resolved[j])))'
      BY <2>1, <3>1 DEF FoundInv
    <3>4. (command = "build" /\ diags \cap PackageErrors # {} => ~ Resolvable)'
      BY <2>1, <3>1 DEF FoundInv, PackageErrors
    <3> QED BY <2>1, <2>3, <3>2, <3>3, <3>4 DEF FoundInv
  <2> QED BY <2>2, <2>3
<1> QED BY <1>1, <1>2, <1>3, <1>4, <1>5, <1>6, <1>7, <1>8, <1>9 DEF Next


-----------------------------------------------------------------------------
(***************************************************************************)
(* resolve_package returns a package once for each way to it: every one of *)
(* its result, but the target, stands for one dependency of another one,   *)
(* `which` of `who`, and every dependency has one that stands for it.      *)
(***************************************************************************)
\* The dependencies of package i that are resolved: of the first one up to `last`.
Asked(packages, last, i) == IF i = 1 THEN last ELSE Len(Deps(packages[i]))

Placed(packages, last, who, which) ==
    /\ \A x \in 2 .. Len(packages) :
          /\ who[x] \in 1 .. Len(packages)
          /\ which[x] \in 1 .. Asked(packages, last, who[x])
          /\ packages[x] = Deps(packages[who[x]])[which[x]]
    /\ \A x, y \in 2 .. Len(packages) : who[x] = who[y] /\ which[x] = which[y] => x = y
    /\ \A i \in 1 .. Len(packages) : \A k \in 1 .. Asked(packages, last, i) :
          \E x \in 2 .. Len(packages) : who[x] = i /\ which[x] = k

Counted(packages, last) == \E who, which : Placed(packages, last, who, which)

\* A package alone, before its first dependency.
LEMMA AloneCounted ==
    ASSUME NEW packages, Len(packages) = 1
    PROVE  Counted(packages, 0)
<1>1. 2 .. Len(packages) = {} /\ \A i \in 1 .. Len(packages) : i = 1
  OBVIOUS
<1>2. 1 .. 0 = {}
  OBVIOUS
<1>3. Placed(packages, 0, <<>>, <<>>)
  BY <1>1, <1>2 DEF Placed, Asked
<1> QED BY <1>3 DEF Counted

\* What resolve_into appends for the next dependency of the first package.
LEMMA MergedCounted ==
    ASSUME NEW S, \A d \in S : Len(Deps(d)) \in Nat,
           NEW s \in Seq(S), NEW t \in Seq(S), NEW n \in Nat \ {0},
           Len(s) >= 1, Len(t) >= 1, t[1] = Deps(s[1])[n],
           Counted(s, n - 1), Counted(t, Len(Deps(t[1])))
    PROVE  Counted(s \o t, n)
<1> DEFINE u == s \o t
           m == Len(s)
           l == Len(t)
           N == 2 .. m + l
<1>1. PICK sWho, sWhich : Placed(s, n - 1, sWho, sWhich)
  BY DEF Counted
<1>2. PICK tWho, tWhich : Placed(t, Len(Deps(t[1])), tWho, tWhich)
  BY DEF Counted
<1> DEFINE who == [x \in N |-> IF x <= m THEN sWho[x] ELSE IF x = m + 1 THEN 1
                               ELSE m + tWho[x - m]]
           which == [x \in N |-> IF x <= m THEN sWhich[x] ELSE IF x = m + 1 THEN n
                                 ELSE tWhich[x - m]]
<1>3. /\ m \in Nat \ {0} /\ l \in Nat \ {0}
      /\ Len(u) = m + l
      /\ \A i \in 1 .. m : u[i] = s[i]
      /\ \A j \in 1 .. l : u[m + j] = t[j]
  BY Concatenation
<1>4. /\ \A i \in 1 .. m : s[i] \in S /\ Len(Deps(s[i])) \in Nat
      /\ \A j \in 1 .. l : t[j] \in S /\ Len(Deps(t[j])) \in Nat
  OBVIOUS
<1> HIDE DEF u
\* The three kinds of places of u and of positions after the first.
<1>5. \A i \in 1 .. m + l : i \in 1 .. m \/ \E j \in 1 .. l : i = m + j
  <2> SUFFICES ASSUME NEW i \in 1 .. m + l, i \notin 1 .. m PROVE \E j \in 1 .. l : i = m + j
    OBVIOUS
  <2>1. i - m \in 1 .. l /\ i = m + (i - m)
    BY <1>3
  <2> QED BY <2>1
<1>6. \A x \in N : x \in 2 .. m \/ x = m + 1 \/ \E y \in 2 .. l : x = m + y
  <2> SUFFICES ASSUME NEW x \in N, x \notin 2 .. m, x # m + 1 PROVE \E y \in 2 .. l : x = m + y
    OBVIOUS
  <2>1. x - m \in 2 .. l /\ x = m + (x - m)
    BY <1>3
  <2> QED BY <2>1
<1>7. /\ \A x \in 2 .. m : x \in N /\ who[x] = sWho[x] /\ which[x] = sWhich[x]
      /\ m + 1 \in N /\ who[m + 1] = 1 /\ which[m + 1] = n
      /\ \A y \in 2 .. l : m + y \in N /\ who[m + y] = m + tWho[y] /\ which[m + y] = tWhich[y]
  <2>1. ASSUME NEW x \in 2 .. m PROVE x \in N /\ x <= m
    BY <1>3
  <2>2. m + 1 \in N /\ ~(m + 1 <= m)
    BY <1>3
  <2>3. ASSUME NEW y \in 2 .. l
        PROVE  m + y \in N /\ ~(m + y <= m) /\ m + y # m + 1 /\ (m + y) - m = y
    BY <1>3
  <2>4. /\ \A x \in N : x <= m => who[x] = sWho[x] /\ which[x] = sWhich[x]
        /\ \A x \in N : ~(x <= m) /\ x = m + 1 => who[x] = 1 /\ which[x] = n
        /\ \A x \in N : ~(x <= m) /\ x # m + 1 =>
              who[x] = m + tWho[x - m] /\ which[x] = tWhich[x - m]
    <3> HIDE DEF N, m
    <3> QED OBVIOUS
  <2> HIDE DEF N, m, l, who, which
  <2>5. ASSUME NEW x \in 2 .. m PROVE x \in N /\ who[x] = sWho[x] /\ which[x] = sWhich[x]
    BY <2>1, <2>4
  <2>6. m + 1 \in N /\ who[m + 1] = 1 /\ which[m + 1] = n
    BY <2>2, <2>4
  <2>7. ASSUME NEW y \in 2 .. l
        PROVE  m + y \in N /\ who[m + y] = m + tWho[y] /\ which[m + y] = tWhich[y]
    <3>1. m + y \in N /\ ~(m + y <= m) /\ m + y # m + 1 /\ (m + y) - m = y
      BY <2>3
    <3> DEFINE x == m + y
    <3>2. x \in N /\ ~(x <= m) /\ x # m + 1 /\ x - m = y
      BY <3>1
    <3> HIDE DEF x
    <3>3. who[x] = m + tWho[x - m] /\ which[x] = tWhich[x - m]
      BY <2>4, <3>2
    <3>4. who[x] = m + tWho[y] /\ which[x] = tWhich[y]
      BY <3>2, <3>3
    <3> QED BY <3>1, <3>4 DEF x
  <2> QED BY <2>5, <2>6, <2>7
<1>8. /\ Asked(u, n, 1) = n /\ Asked(s, n - 1, 1) = n - 1
      /\ \A i \in 2 .. m : Asked(u, n, i) = Asked(s, n - 1, i)
      /\ \A j \in 1 .. l : Asked(u, n, m + j) = Asked(t, Len(Deps(t[1])), j)
  <2>1. \A i \in 2 .. m : i # 1 /\ i \in 1 .. m
    OBVIOUS
  <2>2. \A j \in 1 .. l : m + j # 1
    BY <1>3
  <2> HIDE DEF m, l
  <2> QED BY <1>3, <2>1, <2>2 DEF Asked
<1>9. /\ \A x \in 2 .. m : /\ sWho[x] \in 1 .. m
                           /\ sWhich[x] \in 1 .. Asked(s, n - 1, sWho[x])
                           /\ s[x] = Deps(s[sWho[x]])[sWhich[x]]
      /\ \A x \in 2 .. l : /\ tWho[x] \in 1 .. l
                           /\ tWhich[x] \in 1 .. Asked(t, Len(Deps(t[1])), tWho[x])
                           /\ t[x] = Deps(t[tWho[x]])[tWhich[x]]
  BY <1>1, <1>2 DEF Placed
<1>10. /\ \A x, y \in 2 .. m : sWho[x] = sWho[y] /\ sWhich[x] = sWhich[y] => x = y
       /\ \A x, y \in 2 .. l : tWho[x] = tWho[y] /\ tWhich[x] = tWhich[y] => x = y
  BY <1>1, <1>2 DEF Placed
<1>o. /\ \A i \in 1 .. m : \A k \in 1 .. Asked(s, n - 1, i) :
            \E x \in 2 .. m : sWho[x] = i /\ sWhich[x] = k
      /\ \A i \in 1 .. l : \A k \in 1 .. Asked(t, Len(Deps(t[1])), i) :
            \E x \in 2 .. l : tWho[x] = i /\ tWhich[x] = k
  BY <1>1, <1>2 DEF Placed
<1>11. u[1] = s[1] /\ u[m + 1] = t[1]
  BY <1>3
<1>t. t[1] = Deps(s[1])[n]
  OBVIOUS
<1> HIDE DEF who, which, N, m, l
\* Where the dependencies are.
<1>12. ASSUME NEW x \in N
       PROVE  /\ who[x] \in 1 .. m + l
              /\ which[x] \in 1 .. Asked(u, n, who[x])
              /\ u[x] = Deps(u[who[x]])[which[x]]
  <2>1. CASE x \in 2 .. m
    <3>1. /\ who[x] \in 1 .. m /\ which[x] \in 1 .. Asked(s, n - 1, who[x])
          /\ s[x] = Deps(s[who[x]])[which[x]]
      BY <1>7, <1>9, <2>1
    <3>2. u[x] = s[x] /\ u[who[x]] = s[who[x]]
      <4>1. x \in 1 .. m
        BY <2>1
      <4>2. who[x] \in 1 .. m
        BY <3>1
      <4> QED BY <1>3, <4>1, <4>2
    <3>3. CASE who[x] = 1
      <4>1. which[x] \in 1 .. n - 1
        BY <1>8, <3>1, <3>3
      <4>2. which[x] \in 1 .. n
        BY <4>1
      <4> QED BY <1>3, <1>8, <3>1, <3>2, <3>3, <4>2
    <3>4. CASE who[x] \in 2 .. m
      BY <1>3, <1>8, <3>1, <3>2, <3>4
    <3> QED BY <1>3, <3>1, <3>3, <3>4
  <2>2. CASE x = m + 1
    <3>1. who[x] = 1 /\ which[x] = n /\ n \in 1 .. n /\ 1 \in 1 .. m + l
      BY <1>3, <1>7, <2>2
    <3> QED BY <1>8, <1>11, <1>t, <2>2, <3>1
  <2>3. CASE \E y \in 2 .. l : x = m + y
    <3>1. PICK y \in 2 .. l : x = m + y
      BY <2>3
    <3>2. /\ who[x] = m + tWho[y] /\ which[x] = tWhich[y] /\ tWho[y] \in 1 .. l
          /\ tWhich[y] \in 1 .. Asked(t, Len(Deps(t[1])), tWho[y])
          /\ t[y] = Deps(t[tWho[y]])[tWhich[y]]
      BY <1>7, <1>9, <3>1
    <3>3. y \in 1 .. l /\ m + tWho[y] \in 1 .. m + l
      <4>1. y \in 1 .. l
        BY <3>1
      <4>2. \A a \in 1 .. l : m + a \in 1 .. m + l
        BY <1>3
      <4> QED BY <3>2, <4>1, <4>2
    <3>4. u[x] = t[y] /\ u[who[x]] = t[tWho[y]]
      BY <1>3, <3>1, <3>2, <3>3
    <3> QED BY <1>8, <3>2, <3>3, <3>4
  <2> QED BY <1>6, <2>1, <2>2, <2>3
\* No two stand for the same.
<1>13. ASSUME NEW x \in N, NEW y \in N, who[x] = who[y], which[x] = which[y]
       PROVE  x = y
  <2>1. \A z \in 2 .. m : /\ who[z] = sWho[z] /\ which[z] = sWhich[z] /\ sWho[z] <= m
                          /\ sWho[z] = 1 => sWhich[z] # n
    <3> SUFFICES ASSUME NEW z \in 2 .. m PROVE sWho[z] <= m /\ (sWho[z] = 1 => sWhich[z] # n)
      BY <1>7
    <3>1. sWho[z] \in 1 .. m /\ sWhich[z] \in 1 .. Asked(s, n - 1, sWho[z])
      BY <1>9
    <3>2. sWho[z] = 1 => sWhich[z] \in 1 .. n - 1
      BY <1>8, <3>1
    <3> QED BY <1>3, <3>1, <3>2
  <2>2. \A z \in 2 .. l : /\ who[m + z] = m + tWho[z] /\ which[m + z] = tWhich[z]
                          /\ tWho[z] \in Nat \ {0}
    BY <1>7, <1>9
  <2>3. \A a \in Nat \ {0} : ~(m + a <= m) /\ m + a # 1
    BY <1>3
  <2>4. 1 <= m
    BY <1>3
  <2>5. \A a, b \in Nat \ {0} : m + a = m + b => a = b
    BY <1>3
  <2>6. CASE x \in 2 .. m
    <3>1. CASE y \in 2 .. m
      BY <1>10, <1>13, <2>1, <2>6, <3>1
    <3>2. CASE y = m + 1
      BY <1>7, <1>13, <2>1, <2>6, <3>2
    <3>3. CASE \E z \in 2 .. l : y = m + z
      <4>1. PICK b \in 2 .. l : y = m + b
        BY <3>3
      <4>2. who[x] <= m /\ who[x] = m + tWho[b] /\ tWho[b] \in Nat \ {0}
        BY <1>13, <2>1, <2>2, <2>6, <4>1
      <4> QED BY <2>3, <4>2
    <3> QED BY <1>6, <3>1, <3>2, <3>3
  <2>7. CASE x = m + 1
    <3>1. CASE y \in 2 .. m
      BY <1>7, <1>13, <2>1, <2>7, <3>1
    <3>2. CASE y = m + 1
      BY <2>7, <3>2
    <3>3. CASE \E z \in 2 .. l : y = m + z
      BY <1>7, <1>13, <2>2, <2>3, <2>7, <3>3
    <3> QED BY <1>6, <3>1, <3>2, <3>3
  <2>8. CASE \E z \in 2 .. l : x = m + z
    <3>1. CASE y \in 2 .. m
      BY <1>13, <2>1, <2>2, <2>3, <2>8, <3>1
    <3>2. CASE y = m + 1
      BY <1>7, <1>13, <2>2, <2>3, <2>8, <3>2
    <3>3. CASE \E z \in 2 .. l : y = m + z
      <4>1. PICK a \in 2 .. l : x = m + a
        BY <2>8
      <4>2. PICK b \in 2 .. l : y = m + b
        BY <3>3
      <4>3. tWho[a] = tWho[b] /\ tWhich[a] = tWhich[b]
        <5>1. /\ m + tWho[a] = m + tWho[b] /\ tWhich[a] = tWhich[b]
              /\ tWho[a] \in Nat \ {0} /\ tWho[b] \in Nat \ {0}
          BY <1>13, <2>2, <4>1, <4>2
        <5> QED BY <2>5, <5>1
      <4> QED BY <1>10, <4>1, <4>2, <4>3
    <3> QED BY <1>6, <3>1, <3>2, <3>3
  <2> QED BY <1>6, <2>6, <2>7, <2>8
\* Every dependency has one.
<1>14. ASSUME NEW i \in 1 .. m + l, NEW k \in 1 .. Asked(u, n, i)
       PROVE  \E x \in N : who[x] = i /\ which[x] = k
  <2>1. CASE i = 1
    <3>1. k \in 1 .. n
      BY <1>8, <2>1
    <3>2. CASE k = n
      BY <1>7, <2>1, <3>2
    <3>3. CASE k # n
      <4>1. k \in 1 .. Asked(s, n - 1, 1) /\ 1 \in 1 .. m
        BY <1>3, <1>8, <3>1, <3>3
      <4>2. PICK x \in 2 .. m : sWho[x] = 1 /\ sWhich[x] = k
        BY <1>o, <4>1
      <4> QED BY <1>7, <2>1, <4>2
    <3> QED BY <3>2, <3>3
  <2>2. CASE i \in 2 .. m
    <3>1. k \in 1 .. Asked(s, n - 1, i) /\ i \in 1 .. m
      BY <1>3, <1>8, <2>2
    <3>2. PICK x \in 2 .. m : sWho[x] = i /\ sWhich[x] = k
      BY <1>o, <3>1
    <3> QED BY <1>7, <3>2
  <2>3. CASE \E j \in 1 .. l : i = m + j
    <3>1. PICK j \in 1 .. l : i = m + j
      BY <2>3
    <3>2. k \in 1 .. Asked(t, Len(Deps(t[1])), j)
      BY <1>8, <3>1
    <3>3. PICK x \in 2 .. l : tWho[x] = j /\ tWhich[x] = k
      BY <1>o, <3>1, <3>2
    <3> QED BY <1>7, <3>1, <3>3
  <2>4. i \in 1 .. m => i = 1 \/ i \in 2 .. m
    BY <1>3
  <2> QED BY <1>5, <2>1, <2>2, <2>3, <2>4
<1>15. Placed(u, n, who, which)
  <2>1. Len(u) = m + l /\ 2 .. Len(u) = N
    BY <1>3 DEF N
  <2>2. \A x \in 2 .. Len(u) : /\ who[x] \in 1 .. Len(u)
                               /\ which[x] \in 1 .. Asked(u, n, who[x])
                               /\ u[x] = Deps(u[who[x]])[which[x]]
    BY <2>1, <1>12
  <2>3. \A x, y \in 2 .. Len(u) : who[x] = who[y] /\ which[x] = which[y] => x = y
    BY <2>1, <1>13
  <2>4. \A i \in 1 .. Len(u) : \A k \in 1 .. Asked(u, n, i) :
           \E x \in 2 .. Len(u) : who[x] = i /\ which[x] = k
    <3> SUFFICES ASSUME NEW i \in 1 .. Len(u), NEW k \in 1 .. Asked(u, n, i)
                 PROVE  \E x \in N : who[x] = i /\ which[x] = k
      BY <2>1
    <3>1. i \in 1 .. m + l
      BY <2>1
    <3> QED BY <3>1, <1>14
  <2> QED BY <2>2, <2>3, <2>4 DEF Placed
<1> QED BY <1>15 DEF Counted, u

CountedInv ==
    /\ stage = "resolve" =>
          \A i \in 1 .. Len(stack) : Counted(stack[i].packages, stack[i].next - 1)
    /\ resolved # <<>> => Counted(resolved, Len(Deps(Target)))

\* Before the command starts no package is resolved.
LEMMA CountedInit == Init => CountedInv
BY DEF Init, CountedInv

\* Counted only depends on the workspace.
LEMMA CountedSame ==
    ASSUME workspace' = workspace
    PROVE  /\ \A packages, last : Counted(packages, last)' <=> Counted(packages, last)
           /\ Target' = Target /\ \A d : Deps(d)' = Deps(d)
<1>1. Target' = Target /\ \A d : Deps(d)' = Deps(d)
  BY DEF Target, Deps, ManifestAt
<1>2. \A packages, last, who, which :
         Placed(packages, last, who, which)' <=> Placed(packages, last, who, which)
  BY <1>1 DEF Placed, Asked
<1> QED BY <1>1, <1>2 DEF Counted

\* Steps outside resolve_package.
LEMMA CountedKept ==
    ASSUME CountedInv, workspace' = workspace, resolved' = resolved, stage' # "resolve"
    PROVE  CountedInv'
<1>1. /\ \A packages, last : Counted(packages, last)' <=> Counted(packages, last)
      /\ Target' = Target /\ \A d : Deps(d)' = Deps(d)
  BY CountedSame
<1>2. (resolved # <<>> => Counted(resolved, Len(Deps(Target))))'
  BY <1>1 DEF CountedInv
<1> QED BY <1>2 DEF CountedInv

\* A call that is entered has resolved none of its dependencies yet.
LEMMA CountedEnter ==
    ASSUME TypeInv, CountedInv, ResolveInto
    PROVE  CountedInv'
<1> DEFINE f == [dir |-> Callee, next |-> 1, packages |-> <<Callee>>]
<1>1. /\ stage = "resolve" /\ stage' = "resolve" /\ stack \in Seq(Frame)
      /\ stack' = Append(stack, f) /\ workspace' = workspace /\ resolved' = resolved
  BY DEF TypeInv, TypeResolving, ResolveInto, Calls, GoTo
<1>2. Len(f.packages) = 1 /\ f.next - 1 = 0
  OBVIOUS
<1> HIDE DEF f
<1>3. Counted(f.packages, f.next - 1)
  BY <1>2, AloneCounted
<1>4. /\ Len(stack) \in Nat /\ Len(stack') = Len(stack) + 1
      /\ stack'[Len(stack) + 1] = f
      /\ \A i \in 1 .. Len(stack) : stack'[i] = stack[i]
  BY <1>1
<1>5. \A i \in 1 .. Len(stack') : Counted(stack'[i].packages, stack'[i].next - 1)
  <2> SUFFICES ASSUME NEW i \in 1 .. Len(stack) + 1
               PROVE  Counted(stack'[i].packages, stack'[i].next - 1)
    BY <1>4
  <2>1. CASE i = Len(stack) + 1
    BY <2>1, <1>3, <1>4
  <2>2. CASE i \in 1 .. Len(stack)
    BY <1>1, <1>4, <2>2 DEF CountedInv
  <2> QED BY <1>4, <2>1, <2>2
<1>6. /\ \A packages, last : Counted(packages, last)' <=> Counted(packages, last)
      /\ Target' = Target /\ \A d : Deps(d)' = Deps(d)
  BY <1>1, CountedSame
<1>7. \A i \in 1 .. Len(stack') : Counted(stack[i].packages, stack[i].next - 1)'
  BY <1>5, <1>6
<1>8. (resolved # <<>> => Counted(resolved, Len(Deps(Target))))'
  BY <1>1, <1>6 DEF CountedInv
<1> QED BY <1>1, <1>7, <1>8 DEF CountedInv

\* A call that returns has resolved all of them.
LEMMA CountedReturn ==
    ASSUME TypeInv, ClosedInv, CountedInv, Return
    PROVE  CountedInv'
<1>1. /\ stage = "resolve" /\ stack \in Seq(Frame) /\ stack # <<>>
      /\ Top.next > Len(Deps(Top.dir)) /\ IsWorkspace(workspace)
      /\ workspace' = workspace
  BY DEF TypeInv, TypeResolving, Return, Returns, GoTo
<1>2. /\ \A packages, last : Counted(packages, last)' <=> Counted(packages, last)
      /\ Target' = Target /\ \A d : Deps(d)' = Deps(d)
  BY <1>1, CountedSame
<1>3. \A d \in workspace.dirs : Len(Deps(d)) \in Nat
  BY <1>1, AtDirectory
<1>4. Len(stack) \in Nat \ {0} /\ Top \in Frame /\ Len(stack) \in 1 .. Len(stack)
  BY <1>1 DEF Top
<1>5. /\ Top.dir \in workspace.dirs /\ Top.next \in Nat \ {0}
      /\ Top.packages \in Seq(workspace.dirs)
  BY <1>4 DEF Frame
<1>6. Len(Top.packages) >= 1 /\ Top.packages[1] = Top.dir
  BY <1>1, <1>4 DEF ClosedInv, FrameClosed, Top
<1>7. Top.next - 1 = Len(Deps(Top.dir))
  <2>1. Top.next <= Len(Deps(Top.dir)) + 1
    BY <1>4 DEF TypeInv, TypeResolving, Top
  <2> QED BY <1>1, <1>3, <1>5, <2>1
<1>8. Counted(Top.packages, Len(Deps(Top.dir)))
  <2>1. Counted(Top.packages, Top.next - 1)
    BY <1>1, <1>4 DEF CountedInv, Top
  <2> QED BY <1>7, <2>1
<1>9. CASE Len(stack) > 1
  <2> DEFINE caller == stack[Len(stack) - 1]
             merged == Advanced(caller, Top.packages)
  <2>1. Len(stack) # 1
    <3>1. \A k \in Nat : k > 1 => k # 1
      OBVIOUS
    <3> QED BY <1>4, <1>9, <3>1
  <2>2. resolved' = resolved /\ stage' = "resolve"
    BY <2>1, <1>1 DEF Return, GoTo
  <2>3. Len(stack) - 1 \in 1 .. Len(stack) /\ caller \in Frame
    BY <1>1, <1>4, <1>9
  <2>4. Top.dir = Deps(caller.dir)[caller.next]
    <3>1. Len(stack) - 1 \in 1 .. Len(stack) - 1 /\ Len(stack) - 1 + 1 = Len(stack)
      BY <1>4, <1>9
    <3> QED BY <1>1, <3>1 DEF TypeInv, VisitedIsPath, Top
  <2>5. Len(caller.packages) >= 1 /\ caller.packages[1] = caller.dir
    BY <1>1, <2>3 DEF ClosedInv, FrameClosed
  <2>6. Counted(caller.packages, caller.next - 1)
    BY <1>1, <2>3 DEF CountedInv
  <2>7. /\ Len(stack') = Len(stack) - 1
        /\ \A k \in 1 .. Len(stack) - 2 : stack'[k] = stack[k]
        /\ stack'[Len(stack) - 1] = merged
    BY <1>9, ReturnType
  <2> HIDE DEF caller
  <2>8. caller.next \in Nat \ {0} /\ caller.packages \in Seq(workspace.dirs)
    BY <2>3 DEF Frame
  <2>9. Counted(caller.packages \o Top.packages, caller.next)
    BY <1>3, <1>5, <1>6, <1>8, <2>4, <2>5, <2>6, <2>8, MergedCounted
  <2>10. merged.packages = caller.packages \o Top.packages /\ merged.next = caller.next + 1
    BY <2>3 DEF Advanced, Merged, Frame
  <2> HIDE DEF merged
  <2>11. Counted(merged.packages, merged.next - 1)
    <3>1. merged.next - 1 = caller.next
      BY <2>8, <2>10
    <3> QED BY <2>9, <2>10, <3>1
  <2>12. \A i \in 1 .. Len(stack') : Counted(stack'[i].packages, stack'[i].next - 1)
    <3> SUFFICES ASSUME NEW i \in 1 .. Len(stack) - 1
                 PROVE  Counted(stack'[i].packages, stack'[i].next - 1)
      BY <2>7
    <3>1. CASE i = Len(stack) - 1
      BY <2>7, <2>11, <3>1
    <3>2. CASE i \in 1 .. Len(stack) - 2
      <4>1. i \in 1 .. Len(stack) /\ stack'[i] = stack[i]
        BY <1>4, <2>7, <3>2
      <4> QED BY <1>1, <4>1 DEF CountedInv
    <3> QED BY <1>4, <3>1, <3>2
  <2>13. \A i \in 1 .. Len(stack') : Counted(stack[i].packages, stack[i].next - 1)'
    BY <1>2, <2>12
  <2>14. (resolved # <<>> => Counted(resolved, Len(Deps(Target))))'
    BY <1>2, <2>2 DEF CountedInv
  <2> QED BY <2>2, <2>13, <2>14 DEF CountedInv
<1>10. CASE Len(stack) = 1
  <2>1. ~(Len(stack) > 1)
    BY <1>10
  <2>2. resolved' = Top.packages /\ stage' = "discover"
    BY <2>1 DEF Return, GoTo
  <2>3. Top.dir = Target
    BY <1>1, <1>10 DEF ClosedInv, Top
  <2>4. (Counted(resolved, Len(Deps(Target))))'
    BY <1>2, <1>8, <2>2, <2>3
  <2> QED BY <2>2, <2>4 DEF CountedInv
<1>11. Len(stack) > 1 \/ Len(stack) = 1
  <2>1. \A k \in Nat \ {0} : k > 1 \/ k = 1
    OBVIOUS
  <2> QED BY <1>4, <2>1
<1> QED BY <1>9, <1>10, <1>11

\* Every step keeps the count.
LEMMA CountedNext == TypeInv /\ ClosedInv /\ CountedInv /\ [Next]_vars => CountedInv'
<1> SUFFICES ASSUME TypeInv, ClosedInv, CountedInv, [Next]_vars PROVE CountedInv'
  OBVIOUS
<1>w. workspace' = workspace
  BY WorkspaceKept
<1>1. CASE NotImplemented \/ BuildDirectory \/ CheckManifest \/ CheckFile
  <2>1. resolved' = resolved /\ stage' # "resolve"
    BY <1>1 DEF NotImplemented, BuildDirectory, CheckManifest, CheckFile, At, GoTo, FailWith,
                resolving
  <2> QED BY <1>w, <2>1, CountedKept
<1>2. CASE BuildPackage
  <2>1. stack' = <<>> /\ resolved' = <<>> /\ stage' = "resolve"
    BY <1>2 DEF BuildPackage, At, GoTo, resolving, TypeInv, Fresh
  <2>2. 1 .. Len(stack') = {}
    BY <2>1
  <2> QED BY <2>1, <2>2 DEF CountedInv
<1>3. CASE ReportCycle \/ ReportManifest
  <2>1. resolved' = resolved /\ stage' # "resolve"
    BY <1>3 DEF ReportCycle, ReportManifest, FailWith, resolving
  <2> QED BY <1>w, <2>1, CountedKept
<1>4. CASE ResolveInto
  BY <1>4, CountedEnter
<1>5. CASE Return
  BY <1>5, CountedReturn
<1>6. CASE Discover \/ LoadSource \/ Discovered \/ BuildExit
  <2>1. resolved' = resolved /\ stage' # "resolve"
    BY <1>6 DEF Discover, LoadSource, Discovered, BuildExit, Conclude, FailWith, GoTo, resolving
  <2> QED BY <1>w, <2>1, CountedKept
<1>7. CASE CheckBin \/ ResolveModules \/ CheckPackage \/ FinishCheck
  <2>1. resolved' = resolved /\ stage' # "resolve"
    BY <1>7 DEF CheckBin, ResolveModules, CheckPackage, FinishCheck, Analyze, Conclude,
                FailWith, GoTo, resolving
  <2> QED BY <1>w, <2>1, CountedKept
<1>8. CASE Terminated \/ UNCHANGED vars
  <2>1. /\ resolved' = resolved /\ stage' = stage /\ stack' = stack
    BY <1>8 DEF Terminated, vars, resolving
  <2>2. /\ \A packages, last : Counted(packages, last)' <=> Counted(packages, last)
        /\ Target' = Target /\ \A d : Deps(d)' = Deps(d)
    BY <1>w, CountedSame
  <2>3. (resolved # <<>> => Counted(resolved, Len(Deps(Target))))'
    BY <2>1, <2>2 DEF CountedInv
  <2>4. stage = "resolve" =>
           \A i \in 1 .. Len(stack') : Counted(stack[i].packages, stack[i].next - 1)'
    BY <2>1, <2>2 DEF CountedInv
  <2> QED BY <2>1, <2>3, <2>4 DEF CountedInv
<1> QED BY <1>1, <1>2, <1>3, <1>4, <1>5, <1>6, <1>7, <1>8 DEF Next

-----------------------------------------------------------------------------
(***************************************************************************)
(* ResolvesExactly.                                                        *)
(***************************************************************************)
\* The packages resolved at a place are as many as the dependencies that lead
\* there.
LEMMA AsManyAsUses ==
    ASSUME resolved \in Seq(workspace.dirs), Counted(resolved, Len(Deps(Target))),
           resolved[1] = Target, NEW p, p # Start
    PROVE  Cardinality({i \in 1 .. Len(resolved) : PlaceOf(resolved[i]) = p}) =
           Cardinality({u \in Uses : PlaceOf(Deps(resolved[u[1]])[u[2]]) = p})
<1> DEFINE At_p == {i \in 1 .. Len(resolved) : PlaceOf(resolved[i]) = p}
           To_p == {u \in Uses : PlaceOf(Deps(resolved[u[1]])[u[2]]) = p}
<1>1. PICK who, which : Placed(resolved, Len(Deps(Target)), who, which)
  BY DEF Counted
<1>2. Len(resolved) \in Nat
  OBVIOUS
<1>3. \A i : Asked(resolved, Len(Deps(Target)), i) = Len(Deps(resolved[i]))
  BY DEF Asked
<1>4. \A x \in 2 .. Len(resolved) :
         /\ who[x] \in 1 .. Len(resolved) /\ which[x] \in 1 .. Len(Deps(resolved[who[x]]))
         /\ resolved[x] = Deps(resolved[who[x]])[which[x]]
  BY <1>1, <1>3 DEF Placed
<1>5. \A x, y \in 2 .. Len(resolved) : who[x] = who[y] /\ which[x] = which[y] => x = y
  BY <1>1 DEF Placed
<1>6. \A i \in 1 .. Len(resolved) : \A k \in 1 .. Len(Deps(resolved[i])) :
         \E x \in 2 .. Len(resolved) : who[x] = i /\ which[x] = k
  BY <1>1, <1>3 DEF Placed
<1>7. \A x \in At_p : x \in 2 .. Len(resolved) /\ PlaceOf(resolved[x]) = p
  <2> SUFFICES ASSUME NEW x \in At_p PROVE x \in 2 .. Len(resolved)
    OBVIOUS
  <2>1. x # 1
    BY DEF Start
  <2>2. \A k \in 1 .. Len(resolved) : k # 1 => k \in 2 .. Len(resolved)
    BY <1>2
  <2> QED BY <2>1, <2>2
<1>8. \A i, k : i \in 1 .. Len(resolved) /\ k \in 1 .. Len(Deps(resolved[i])) =>
                   <<i, k>> \in Uses
  BY DEF Uses
<1>9. \A u \in Uses : \E i \in 1 .. Len(resolved) : \E k \in 1 .. Len(Deps(resolved[i])) :
                   u = <<i, k>>
  BY DEF Uses
<1> DEFINE f == [x \in At_p |-> <<who[x], which[x]>>]
<1>10. ASSUME NEW x \in At_p PROVE f[x] \in To_p
  <2>1. /\ who[x] \in 1 .. Len(resolved) /\ which[x] \in 1 .. Len(Deps(resolved[who[x]]))
        /\ PlaceOf(Deps(resolved[who[x]])[which[x]]) = p
    BY <1>4, <1>7
  <2>2. <<who[x], which[x]>> \in Uses
    BY <1>8, <2>1
  <2> QED BY <2>1, <2>2
<1>11. ASSUME NEW x \in At_p, NEW y \in At_p, f[x] = f[y] PROVE x = y
  BY <1>5, <1>7, <1>11
<1>12. ASSUME NEW u \in To_p PROVE \E x \in At_p : f[x] = u
  <2>i. PICK i \in 1 .. Len(resolved) : \E k \in 1 .. Len(Deps(resolved[i])) : u = <<i, k>>
    BY <1>9
  <2>1. PICK k \in 1 .. Len(Deps(resolved[i])) : u = <<i, k>>
    BY <2>i
  <2>2. PICK x \in 2 .. Len(resolved) : who[x] = i /\ which[x] = k
    BY <1>6, <2>1
  <2>3. PlaceOf(Deps(resolved[i])[k]) = p
    BY <2>1
  <2>4. x \in 1 .. Len(resolved) /\ resolved[x] = Deps(resolved[i])[k]
    BY <1>4, <2>2
  <2>5. x \in At_p
    BY <2>3, <2>4
  <2> QED BY <2>1, <2>2, <2>5
<1> HIDE DEF At_p, To_p
<1>13. f \in [At_p -> To_p]
  BY <1>10
<1> HIDE DEF f
<1>14. f \in Bijection(At_p, To_p)
  BY <1>11, <1>12, <1>13 DEF Bijection, Injection, Surjection, IsInjective
<1>15. ExistsBijection(At_p, To_p)
  BY <1>14 DEF ExistsBijection
<1>16. IsFiniteSet(At_p)
  <2>1. IsFiniteSet(1 .. Len(resolved))
    BY <1>2, FS_Interval
  <2> QED BY <2>1, FS_Subset DEF At_p
<1>17. Cardinality(To_p) = Cardinality(At_p)
  BY <1>15, <1>16, FS_Bijection
<1> QED BY <1>17 DEF At_p, To_p

\* The packages resolved are at the places the target needs, all of them.
LEMMA ResolvedIsNeeded ==
    ASSUME TypeInv, ClosedInv, FoundInv, ShowsTree, resolved # <<>>
    PROVE  {PlaceOf(resolved[i]) : i \in 1 .. Len(resolved)} = Needed({Start}) /\ Resolvable
<1> DEFINE S == {PlaceOf(resolved[i]) : i \in 1 .. Len(resolved)}
<1>1. resolved \in Seq(workspace.dirs)
  BY DEF TypeInv, TypeResolving
<1>2. /\ resolved[1] = Target /\ 1 \in 1 .. Len(resolved)
      /\ \A i \in 1 .. Len(resolved) : resolved[i] \in workspace.dirs
  BY <1>1 DEF ClosedInv, ResolvedIsClosed
<1>3. S \subseteq Needed({Start})
  BY DEF FoundInv
<1>4. {Start} \subseteq S
  BY <1>2 DEF Start
<1>5. ClosedPlaces(S)
  <2> SUFFICES ASSUME NEW i \in 1 .. Len(resolved), NEW x \in DependsOn(PlaceOf(resolved[i]))
               PROVE  x \in S
    BY DEF ClosedPlaces
  <2>1. PICK k \in 1 .. Len(Deps(resolved[i])) : x = PlaceOf(Deps(resolved[i])[k])
    BY <1>2, DepsPlaces
  <2>2. InSeq(Deps(resolved[i])[k], resolved)
    BY DEF ClosedInv, ResolvedIsClosed
  <2>3. PICK j \in 1 .. Len(resolved) : resolved[j] = Deps(resolved[i])[k]
    BY <2>2 DEF InSeq
  <2> QED BY <2>1, <2>3
<1>6. Needed({Start}) \subseteq S
  <2> HIDE DEF S
  <2> QED BY <1>4, <1>5, NeededLeast
<1>7. S = Needed({Start})
  BY <1>3, <1>6
<1>8. Resolvable
  <2> SUFFICES ASSUME NEW p \in Needed({Start})
               PROVE  ManifestAtPlace(Tree, p).kind = "good" /\ ~ OnCycle(p)
    BY DEF Resolvable
  <2>1. PICK i \in 1 .. Len(resolved) : p = PlaceOf(resolved[i])
    BY <1>7
  <2>2. ManifestAt(resolved[i]).kind = "good"
    BY DEF ClosedInv, ResolvedIsClosed
  <2>3. ManifestAt(resolved[i]).kind = ManifestAtPlace(Tree, PlaceOf(resolved[i])).kind
    BY <1>2 DEF ShowsTree, Shows, ManifestAt
  <2>4. ~ OnCycle(PlaceOf(resolved[i]))
    BY DEF FoundInv
  <2> QED BY <2>1, <2>2, <2>3, <2>4
<1> QED BY <1>7, <1>8

\* Everything ResolvesExactly asks for.
LEMMA Exactly ==
    ASSUME TypeInv, ClosedInv, FoundInv, CountedInv, ShowsTree
    PROVE  ResolvesExactly
<1> SUFFICES ASSUME command = "build", LoadsManifest(Target)
             PROVE  /\ stage \in {"discover", "load"} =>
                          /\ Resolvable
                          /\ {PlaceOf(resolved[i]) : i \in 1 .. Len(resolved)} = Needed({Start})
                          /\ \A p \in Needed({Start}) \ {Start} :
                                Cardinality({i \in 1 .. Len(resolved) :
                                                PlaceOf(resolved[i]) = p}) =
                                Cardinality({u \in Uses :
                                                PlaceOf(Deps(resolved[u[1]])[u[2]]) = p})
                    /\ diags \cap PackageErrors # {} => ~ Resolvable
  BY DEF ResolvesExactly, PackageErrors
<1>1. diags \cap PackageErrors # {} => ~ Resolvable
  BY DEF FoundInv
<1>2. ASSUME stage \in {"discover", "load"} PROVE resolved # <<>>
  BY <1>2 DEF FoundInv
<1>3. ASSUME stage \in {"discover", "load"}, NEW p, p # Start
      PROVE  Cardinality({i \in 1 .. Len(resolved) : PlaceOf(resolved[i]) = p}) =
             Cardinality({u \in Uses : PlaceOf(Deps(resolved[u[1]])[u[2]]) = p})
  <2>1. resolved # <<>>
    BY <1>2, <1>3
  <2>2. /\ resolved \in Seq(workspace.dirs) /\ Counted(resolved, Len(Deps(Target)))
        /\ resolved[1] = Target
    BY <2>1 DEF TypeInv, TypeResolving, CountedInv, ClosedInv, ResolvedIsClosed
  <2> QED BY <1>3, <2>2, AsManyAsUses
<1>4. ASSUME stage \in {"discover", "load"}
      PROVE  /\ {PlaceOf(resolved[i]) : i \in 1 .. Len(resolved)} = Needed({Start})
             /\ Resolvable
  BY <1>2, <1>4, ResolvedIsNeeded
<1> QED BY <1>1, <1>3, <1>4

\* pkg/resolve.h:27-31: resolve_package succeeds on exactly the targets whose
\* packages all have manifests and none needs itself, for every file tree,
\* every spelling of the paths in it and every graph of dependencies, and
\* returns each package once for each way to it.
THEOREM ResolvesExactlyCorrect == Spec => []ResolvesExactly
<1>1. TypeInv /\ ClosedInv /\ FoundInv /\ CountedInv /\ ShowsTree => ResolvesExactly
  BY Exactly
<1> QED BY <1>1, ClosedInit, ClosedNext, TypeInit, TypeNext, ShowsTreeKept, FoundInit, FoundNext,
           CountedInit, CountedNext, PTL DEF Spec

=============================================================================
