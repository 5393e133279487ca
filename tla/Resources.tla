------------------------------ MODULE Resources ------------------------------
(***************************************************************************)
(* The resources of a cluster definition: what Parse accepts, and what the *)
(* constructors that read an accepted definition make of it.               *)
(*                                                                         *)
(* A document is a record whose fields are those of the YAML resource, ""  *)
(* standing for a field that is left out.  Only what the code tells apart  *)
(* is kept: of a network's name its length, of an application its command, *)
(* of an interface of a node what kind of link it names.                   *)
(* A document that readSingleYamlDoc does not return (it is larger than    *)
(* 16 MiB) or that does not unmarshal is one of no known kind.             *)
(***************************************************************************)
EXTENDS Naturals, Sequences

\* What a constructor returns with an error, and a nil pointer.
Failed == <<>>

Nil == <<>>

Caches == {"writeback", "none", "writethrough", "directsync", "unsafe"}

Formats == {"qcow2", "raw"}

maxNetworkNameLen == 15

-----------------------------------------------------------------------------
(* Validation.                                                             *)

\* Mutant: an external network needs no address.
NetworkSpecAnyAddress(n) ==
  /\ n.nameLen <= maxNetworkNameLen
  /\ \/ n.type = "internal" /\ ~n.useNAT /\ n.address = ""
     \/ n.type = "external"
     \/ n.type = "bmc" /\ ~n.useNAT /\ n.address # ""

NetworkSpec_validate(n) ==
  /\ n.nameLen <= maxNetworkNameLen
  /\ \/ n.type = "internal" /\ ~n.useNAT /\ n.address = ""
     \/ n.type = "external" /\ n.address # ""
     \/ n.type = "bmc" /\ ~n.useNAT /\ n.address # ""

\* (On an application that is null validate panics: Parse ends as well.)
NetNSSpec_validate(n) ==
  /\ n.name # ""
  /\ n.interfaces # <<>>
  /\ \A i \in DOMAIN n.apps : n.apps[i] # <<>>

DeviceClassSpec_validate(d) == d.name # "" /\ d.path # "" /\ d.path # "relative"

NodeVolumeSpec_validate(v) ==
  /\ v.cache \in Caches \cup {""}
  /\ \/ v.kind = "image" /\ v.image # ""
     \/ v.kind = "localds" /\ v.userData # ""
     \/ v.kind = "raw" /\ v.size # "" /\ v.format \in Formats \cup {""}
     \/ v.kind = "hostPath" /\ v.path # "" /\ v.path # "relative"

NodeSpec_validate(n) ==
  /\ n.name # ""
  /\ \A i \in DOMAIN n.volumes : NodeVolumeSpec_validate(n.volumes[i])
  /\ (n.cpu # 0) # (n.smp # Nil)

\* validate sets SMP from CPU on the node itself, and the defaults of the
\* volumes only on the copies that it ranges over.
NodeSpec_validated(n) ==
  IF n.cpu # 0 THEN [n EXCEPT !.smp = <<n.cpu>>, !.cpu = 0] ELSE n

ImageSpec_validate(i) == i.name # "" /\ (i.url # "") # (i.file # "")

Valid(doc) ==
  CASE doc.kind = "Network"          -> NetworkSpec_validate(doc)
    [] doc.kind = "NetworkNamespace" -> NetNSSpec_validate(doc)
    [] doc.kind = "DeviceClass"      -> DeviceClassSpec_validate(doc)
    [] doc.kind = "Node"             -> NodeSpec_validate(doc)
    [] doc.kind = "Image"            -> ImageSpec_validate(doc)
    [] OTHER                         -> FALSE

\* One bad document is the end of all of them.
ParseFails(docs) == \E i \in DOMAIN docs : ~Valid(docs[i])

\* The documents of one kind, by their places.
OfKind(docs, kind) == {i \in DOMAIN docs : docs[i].kind = kind}

-----------------------------------------------------------------------------
(* Construction.                                                           *)

\* NewNetwork fails on an address it cannot parse.
NewNetworkFails(n) == n.address = "garbage"

\* network.Setup reads the address of a network with NAT, NewNetNS the fields of
\* an interface, and netNS.Setup the first word of an application's command:
\* where there is none, they panic.
NetworkSetupPanics(n) == n.useNAT /\ n.address = ""

NewNetNSPanics(n) == \E i \in DOMAIN n.interfaces : n.interfaces[i] = Nil

NetNSSetupPanics(n) == \E i \in DOMAIN n.apps : n.apps[i] = <<>>

Decompressors == {"bzip2", "gzip", ""}

newImage(i) ==
  IF i.url = "unparsable" \/ i.compression \notin Decompressors
    THEN Failed
    ELSE [url |-> i.url, file |-> i.file, decomp |-> i.compression]

\* The first image of the name, and the path of the last device class.
findImage(v, docs) ==
  LET is == {i \in OfKind(docs, "Image") : docs[i].name = v.image}
  IN  IF is = {} THEN Failed ELSE newImage(docs[CHOOSE i \in is : \A j \in is : i <= j])

deviceClassDir(v, docs) ==
  LET is == {i \in OfKind(docs, "DeviceClass") : docs[i].name = v.deviceClass}
  IN  IF is = {} THEN "" ELSE docs[CHOOSE i \in is : \A j \in is : j <= i].path

\* Mutant: validate has set the defaults already.
defaultNone(given, default) == given

defaultTo(given, default) == IF given = "" THEN default ELSE given

NoImage == [url |-> "", file |-> "", decomp |-> ""]

newNodeVolume(v, docs) ==
  LET dir   == deviceClassDir(v, docs)
      image == IF v.kind = "image" THEN findImage(v, docs) ELSE NoImage
  IN  IF \/ v.cache \notin Caches \cup {""}
         \/ v.deviceClass # "" /\ dir = ""
         \/ image = Failed
         \/ v.kind = "raw" /\ v.format \notin Formats \cup {""}
         \/ v.kind \notin {"image", "localds", "raw", "hostPath"}
        THEN Failed
        ELSE [kind |-> v.kind, name |-> v.name, dir |-> dir, image |-> image, cow |-> v.cow,
              netConfig |-> v.networkConfig # "",
              cache  |-> IF v.kind = "hostPath" THEN "" ELSE defaultTo(v.cache, "none"),
              format |-> IF v.kind = "raw" THEN defaultTo(v.format, "qcow2") ELSE ""]

NewNodePanics(n) == n.smp = Nil

\* tap.create is given a link of the host for each interface, whatever its type.
createPanics(node) == \E i \in DOMAIN node.taps : node.taps[i] # "bridge"

\* All the interfaces of a definition are there, and those of nodes are bridges.
Connected(docs) ==
  /\ \A i \in OfKind(docs, "NetworkNamespace") : ~NewNetNSPanics(docs[i])
  /\ \A i \in OfKind(docs, "Node") : \A j \in DOMAIN docs[i].interfaces : docs[i].interfaces[j] = "bridge"

\* The first volume that cannot be made is the end of the node.
NewNode(n, docs) ==
  LET vols == [i \in DOMAIN n.volumes |-> newNodeVolume(n.volumes[i], docs)]
  IN  IF \E i \in DOMAIN vols : vols[i] = Failed
        THEN Failed
        ELSE [name |-> n.name, uefi |-> n.uefi, tpm |-> n.tpm, taps |-> n.interfaces, volumes |-> vols]

\* The format that QEMU is told: none for an image, which it probes.
toldFormat(vol) ==
  CASE vol.kind = "localds" -> "qcow2"
    [] vol.kind = "raw"     -> vol.format
    [] OTHER                -> ""

=============================================================================
