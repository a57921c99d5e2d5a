CONSTANTS
  exp_type = "distributed"
  first_node = 5
  replication_factor = 3
  num_nmr_instances = 2
  Backlog = 2
  gc_keep = 2
  ttl = 6
  time_period = 2
  Delay = 1
  max_jobs = 3
  KvsTypes = {"BFTKVS", "RedisKVS2", "etcd"}
  LateServers = {7}
  LastStart = 4
  MaxTime = 8
  MaxSlipped = 1
SPECIFICATION FairSpec
INVARIANTS
  TypeOK
  MeshComplete
  
  
  
PROPERTY StartsUp
