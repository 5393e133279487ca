----------------------------- MODULE ImageCache -----------------------------
(***************************************************************************)
(* What util.Cache promises those who open a path it names: the entry of a *)
(* URL appears in one step, holding the whole of what was downloaded, and  *)
(* stays as it is, whatever becomes of the processes that fill the cache.  *)
(***************************************************************************)
CONSTANT Methods   \* how a download may be decompressed

VARIABLE entry     \* entry[url]: the data kept for a URL

Whole(url) == {<<url, m>> : m \in Methods}

Init == entry = <<>>

Put(url, data) ==
  /\ url \notin DOMAIN entry
  /\ data \in Whole(url)
  /\ entry' = [u \in DOMAIN entry \cup {url} |-> IF u = url THEN data ELSE entry[u]]

Next == \E url \in DOMAIN entry' : \E data \in Whole(url) : Put(url, data)

Spec == Init /\ [][Next]_entry

=============================================================================
