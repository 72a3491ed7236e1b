SPECIFICATION GrantedSpec
CONSTANTS
    c1 = c1  c2 = c2  s1 = s1  s2 = s2  s3 = s3  s4 = s4  r1 = r1  p1 = p1  p2 = p2
    None = None
    Clients = {c1, c2}
    Streams = {s1, s2}
    Reapers = {}
    Publishers = {p1}
    Patient = {}
    ClientOf <- MCClientOf
PROPERTIES OpenStaysRegistered
