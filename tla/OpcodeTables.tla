---------------------------- MODULE OpcodeTables ----------------------------
(***************************************************************************)
(* The opcode tables of libudis86/itab.c.  An entry n > 0 is the number of *)
(* an instruction in ud_itab, 0 is INVALID and -n is GROUP(n): go on in    *)
(* table n.  ud_itab__a_b holds the tables a to b.                         *)
(***************************************************************************)
EXTENDS Integers, Sequences


ud_itab__0 ==
  <<15, 16, 17, 18, 19, 20, -1, -2, 956, 957, 958, 959, 960, 961, -3, -4, 5, 6, 7, 8, 9, 10, -282,
    -283, 1328, 1329, 1330, 1331, 1332, 1333, -284, -285, 49, 50, 51, 52, 53, 54, 0, -286, 1399,
    1400, 1401, 1402, 1403, 1404, 0, -287, 1478, 1479, 1480, 1481, 1482, 1483, 0, -288, 100, 101,
    102, 103, 104, 105, 0, -289, 695, 696, 697, 698, 699, 700, 701, 702, 175, 176, 177, 178, 179,
    180, 181, 182, 1238, 1239, 1240, 1241, 1242, 1243, 1244, 1245, 1093, 1094, 1095, 1096, 1097,
    1098, 1099, 1100, -290, -293, -296, -297, 0, 0, 0, 0, 1246, 693, 1248, 694, 705, -298, 974,
    -299, 722, 724, 726, 728, 730, 732, 734, 736, 738, 740, 742, 744, 746, 748, 750, 752, -300,
    -301, -302, -311, 1425, 1426, 1466, 1467, 824, 825, 826, 827, 828, 766, 829, -312, 1468, 1469,
    1470, 1471, 1472, 1473, 1474, 1475, -313, -314, -315, 1461, -316, -320, 1302, 762, 830, 831,
    832, 833, 914, -324, 114, -325, 1427, 1428, 1394, -326, 786, -327, 1338, -328, 834, 835, 836,
    837, 838, 839, 840, 841, 842, 843, 844, 845, 846, 847, 848, 849, -329, -330, 1293, 1294, -331,
    -399, -401, -402, 200, 772, 1295, 1296, 709, 710, -403, -404, -405, -406, -407, -408, -409,
    -410, -411, 1477, -412, -415, -418, -421, -424, -427, -430, -433, 790, 791, 792, -436, 686,
    687, 970, 971, 72, 759, -437, 761, 688, 689, 972, 973, 785, 708, 1291, 1292, 683, 83, -438,
    -439, 77, 1387, 81, 1390, 78, 1388, -440, -441>>

ud_itab__1_3 ==
  <<<<1232,0>>, <<1088,0>>, <<1233,0>>>>

ud_itab__4 ==
  <<-5, -6, 763, 793, 0, 1418, 82, 1423, 712, 1462, 0, 1436, 0, -27, 430, -28, -29, -30, -31, -34,
    -35, -36, -37, -40, -41, 947, 948, 949, 950, 951, 952, 953, 850, 851, 852, 853, 0, 0, 0, 0,
    -42, -43, -44, -45, -46, -47, -48, -49, 1463, 1289, 1287, 1288, -50, -52, 0, 1505, -54, 0,
    -116, 0, 0, 0, 0, 0, 84, 85, 86, 87, 88, 89, 90, 91, 92, 93, 94, 95, 96, 97, 98, 99, -143,
    -144, -145, -146, -147, -148, -149, -150, -151, -152, -153, -154, -155, -156, -157, -158,
    -159, -160, -161, -162, -163, -164, -165, -166, -167, -168, -169, -170, -171, -172, -173,
    -176, -177, -178, -182, -186, -191, -192, -193, 199, -194, -195, 0, 0, -196, -197, -198, -201,
    723, 725, 727, 729, 731, 733, 735, 737, 739, 741, 743, 745, 747, 749, 751, 753, 1342, 1343,
    1344, 1345, 1346, 1347, 1348, 1349, 1350, 1351, 1352, 1353, 1354, 1355, 1356, 1357, 1237,
    1092, 131, 1655, 1367, 1368, -202, -207, 1236, 1091, 1297, 1660, 1369, 1370, -215, 690, 122,
    123, 771, 1658, 768, 769, 932, 933, -221, 0, -222, 1656, 1644, 1645, 922, 923, 1464, 1465,
    -223, 896, -224, -225, -226, -227, 1646, 1647, 1648, 1649, 1650, 1651, 1652, 1653, -234, -235,
    -236, -237, -238, -239, -240, -241, -242, -243, -244, -245, -246, -247, -248, -249, -250,
    -251, -252, -253, -254, -255, -256, -257, -258, -259, -260, -261, -262, -263, -264, -265,
    -266, -267, -268, -269, -270, -271, -272, -273, -275, -276, -277, -278, -279, -280, -281, 0>>

ud_itab__5_27 ==
  <<<<1376,1398,782,794,1445,1446,0,0>>, <<-7,-8>>, <<1366,1375,781,770,1377,0,783,715>>,
    <<-9,-14,-15,-16,1378,0,784,-25>>, <<0,-10,-11,-12,-13,0,0,0>>, <<0,1447,0>>, <<0,1452,0>>,
    <<0,1453,0>>, <<0,1454,0>>, <<820,944,0,0,0,0,0,0>>, <<1476,1499,0,0,0,0,0,0>>,
    <<-17,-18,-19,-20,-21,-22,-23,-24>>, <<1457,0,0>>, <<1458,0,0>>, <<1459,0,0>>, <<1460,0,0>>,
    <<1389,0,0>>, <<80,0,0>>, <<1391,0,0>>, <<716,0,0>>, <<1417,-26,0,0,0,0,0,0>>, <<1290,0,0>>,
    <<1111,1112,1113,1114,1115,1116,1117,1118>>>>

ud_itab__28 ==
  <<0, 0, 0, 0, 0, 0, 0, 0, 0, 0, 0, 0, 1208, 1209, 0, 0, 0, 0, 0, 0, 0, 0, 0, 0, 0, 0, 0, 0,
    1210, 1211, 0, 0, 0, 0, 0, 0, 0, 0, 0, 0, 0, 0, 0, 0, 0, 0, 0, 0, 0, 0, 0, 0, 0, 0, 0, 0, 0,
    0, 0, 0, 0, 0, 0, 0, 0, 0, 0, 0, 0, 0, 0, 0, 0, 0, 0, 0, 0, 0, 0, 0, 0, 0, 0, 0, 0, 0, 0, 0,
    0, 0, 0, 0, 0, 0, 0, 0, 0, 0, 0, 0, 0, 0, 0, 0, 0, 0, 0, 0, 0, 0, 0, 0, 0, 0, 0, 0, 0, 0, 0,
    0, 0, 0, 0, 0, 0, 0, 0, 0, 0, 0, 0, 0, 0, 0, 0, 0, 0, 0, 1212, 0, 0, 0, 1213, 0, 1214, 0, 0,
    0, 1215, 0, 1216, 1217, 0, 0, 1218, 0, 0, 0, 1219, 0, 1220, 0, 0, 0, 1221, 0, 1222, 1223, 0,
    0, 1224, 0, 0, 0, 1225, 0, 1226, 0, 0, 0, 1227, 0, 1228, 1229, 0, 0, 0, 1230, 0, 0, 0, 1231,
    0, 0, 0, 0, 0, 0, 0, 0, 0, 0, 0, 0, 0, 0, 0, 0, 0, 0, 0, 0, 0, 0, 0, 0, 0, 0, 0, 0, 0, 0, 0,
    0, 0, 0, 0, 0, 0, 0, 0, 0, 0, 0, 0, 0, 0, 0, 0, 0, 0, 0, 0, 0, 0, 0, 0, 0, 0, 0, 0, 0, 0, 0,
    0, 0>>

ud_itab__29_53 ==
  <<<<928,917,920,924>>, <<930,918,921,926>>, <<-32,-33>>, <<886,1549,1556,884>>,
    <<888,1548,1554,0>>, <<887,0,0,885>>, <<1441,0,0,1443>>, <<1439,0,0,1437>>, <<-38,-39>>,
    <<878,0,1552,874>>, <<882,0,1550,0>>, <<880,0,0,876>>, <<1119,1120,1121,1122,0,0,0,0>>,
    <<858,0,0,854>>, <<860,0,0,856>>, <<141,152,154,142>>, <<899,0,0,897>>, <<165,166,168,162>>,
    <<147,148,158,138>>, <<1434,0,0,1432>>, <<129,0,0,127>>, <<1419,-51>>, <<0,1420,0>>,
    <<1421,-53>>, <<0,1422,0>>>>

ud_itab__54 ==
  <<-67, -68, -63, -64, -65, -66, -86, -90, -69, -70, -71, -72, 0, 0, 0, 0, -73, 0, 0, 0, -75,
    -76, 0, -77, 0, 0, 0, 0, -78, -79, -80, 0, -81, -82, -83, -84, -85, -108, 0, 0, -87, -88, -89,
    -74, 0, 0, 0, 0, -91, -92, -93, -94, -95, -96, 0, -97, -98, -99, -100, -101, -102, -103, -104,
    -105, -106, -107, 0, 0, 0, 0, 0, 0, 0, 0, 0, 0, 0, 0, 0, 0, 0, 0, 0, 0, 0, 0, 0, 0, 0, 0, 0,
    0, 0, 0, 0, 0, 0, 0, 0, 0, 0, 0, 0, 0, 0, 0, 0, 0, 0, 0, 0, 0, 0, 0, 0, 0, 0, 0, 0, 0, 0, 0,
    0, 0, 0, 0, 0, 0, -55, -59, 0, 0, 0, 0, 0, 0, 0, 0, 0, 0, 0, 0, 0, 0, 0, 0, 0, 0, 0, 0, 0, 0,
    0, 0, 0, 0, 0, 0, 0, 0, 0, 0, 0, 0, 0, 0, 0, 0, 0, 0, 0, 0, 0, 0, 0, 0, 0, 0, 0, 0, 0, 0, 0,
    0, 0, 0, 0, 0, 0, 0, 0, 0, 0, 0, 0, 0, 0, 0, 0, 0, 0, 0, 0, 0, 0, 0, 0, 0, 0, 0, 0, 0, 0, 0,
    0, 0, 0, 0, 0, -109, -110, -111, -112, -113, 0, 0, 0, 0, 0, 0, 0, 0, 0, 0, 0, 0, 0, 0, 0, 0,
    -114, -115, 0, 0, 0, 0, 0, 0, 0, 0, 0, 0, 0, 0, 0, 0>>

ud_itab__55_91 ==
  <<<<0,0,0,-56>>, <<-57,-58>>, <<0,713,0>>, <<0,714,0>>, <<0,0,0,-60>>, <<-61,-62>>, <<0,717,0>>,
    <<0,718,0>>, <<1573,0,0,1574>>, <<1576,0,0,1577>>, <<1579,0,0,1580>>, <<1582,0,0,1583>>,
    <<1567,0,0,1568>>, <<1570,0,0,1571>>, <<1591,0,0,1592>>, <<1597,0,0,1598>>, <<1594,0,0,1595>>,
    <<1600,0,0,1601>>, <<0,0,0,1606>>, <<0,0,0,1668>>, <<0,0,0,1642>>, <<0,0,0,1641>>,
    <<0,0,0,1696>>, <<1558,0,0,1559>>, <<1561,0,0,1562>>, <<1564,0,0,1565>>, <<0,0,0,1670>>,
    <<0,0,0,1672>>, <<0,0,0,1674>>, <<0,0,0,1676>>, <<0,0,0,1678>>, <<1585,0,0,1586>>,
    <<0,0,0,1607>>, <<0,0,0,1693>>, <<0,0,0,1666>>, <<1588,0,0,1589>>, <<0,0,0,1681>>>>

ud_itab__92_115 ==
  <<<<0,0,0,1683>>, <<0,0,0,1685>>, <<0,0,0,1687>>, <<0,0,0,1689>>, <<0,0,0,1691>>,
    <<0,0,0,1702>>, <<0,0,0,1609>>, <<0,0,0,1611>>, <<0,0,0,1613>>, <<0,0,0,1615>>,
    <<0,0,0,1617>>, <<0,0,0,1619>>, <<0,0,0,1623>>, <<0,0,0,1621>>, <<0,0,0,1625>>,
    <<0,0,0,1627>>, <<0,0,0,1680>>, <<0,0,0,45>>, <<0,0,0,41>>, <<0,0,0,43>>, <<0,0,0,37>>,
    <<0,0,0,39>>, <<1708,1710,0,0>>, <<1709,1711,0,0>>>>

ud_itab__116 ==
  <<0, 0, 0, 0, 0, 0, 0, 0, -117, -118, -119, -120, -121, -122, -123, -124, 0, 0, 0, 0, -125,
    -126, -127, -129, 0, 0, 0, 0, 0, 0, 0, 0, -130, -131, -132, 0, 0, 0, 0, 0, 0, 0, 0, 0, 0, 0,
    0, 0, 0, 0, 0, 0, 0, 0, 0, 0, 0, 0, 0, 0, 0, 0, 0, 0, -134, -135, -136, 0, -137, 0, 0, 0, 0,
    0, 0, 0, 0, 0, 0, 0, 0, 0, 0, 0, 0, 0, 0, 0, 0, 0, 0, 0, 0, 0, 0, 0, -139, -140, -141, -142,
    0, 0, 0, 0, 0, 0, 0, 0, 0, 0, 0, 0, 0, 0, 0, 0, 0, 0, 0, 0, 0, 0, 0, 0, 0, 0, 0, 0, 0, 0, 0,
    0, 0, 0, 0, 0, 0, 0, 0, 0, 0, 0, 0, 0, 0, 0, 0, 0, 0, 0, 0, 0, 0, 0, 0, 0, 0, 0, 0, 0, 0, 0,
    0, 0, 0, 0, 0, 0, 0, 0, 0, 0, 0, 0, 0, 0, 0, 0, 0, 0, 0, 0, 0, 0, 0, 0, 0, 0, 0, 0, 0, 0, 0,
    0, 0, 0, 0, 0, 0, 0, 0, 0, 0, 0, 0, 0, 0, 0, 0, 0, 0, 0, 0, 0, 0, 0, 0, 0, 0, 0, 0, 0, 0,
    -138, 0, 0, 0, 0, 0, 0, 0, 0, 0, 0, 0, 0, 0, 0, 0, 0, 0, 0, 0, 0, 0, 0, 0, 0, 0, 0, 0, 0, 0,
    0, 0, 0>>

ud_itab__117_153 ==
  <<<<0,0,0,1629>>, <<0,0,0,1631>>, <<0,0,0,1633>>, <<0,0,0,1635>>, <<0,0,0,1639>>,
    <<0,0,0,1637>>, <<0,0,0,1662>>, <<1603,0,0,1604>>, <<0,0,0,1037>>, <<0,0,0,1048>>,
    <<0,0,0,-128>>, <<1039,1041,1043>>, <<0,0,0,201>>, <<0,0,0,1050>>, <<0,0,0,1544>>,
    <<0,0,0,-133>>, <<1054,1055,1056>>, <<0,0,0,197>>, <<0,0,0,195>>, <<0,0,0,1664>>,
    <<0,0,0,1503>>, <<0,0,0,47>>, <<0,0,0,1700>>, <<0,0,0,1698>>, <<0,0,0,1706>>, <<0,0,0,1704>>,
    <<892,0,0,890>>, <<1379,1383,1385,1381>>, <<1298,0,1300,0>>, <<1283,0,1285,0>>, <<61,0,0,59>>,
    <<65,0,0,63>>, <<968,0,0,966>>, <<1490,0,0,1488>>, <<27,29,31,25>>, <<938,940,942,936>>,
    <<145,150,156,139>>>>

ud_itab__154_190 ==
  <<<<134,0,163,143>>, <<1411,1413,1415,1409>>, <<814,816,818,812>>, <<189,191,193,187>>,
    <<798,800,802,796>>, <<1201,0,0,1199>>, <<1204,0,0,1202>>, <<1207,0,0,1205>>, <<979,0,0,977>>,
    <<1030,0,0,1028>>, <<1033,0,0,1031>>, <<1036,0,0,1034>>, <<985,0,0,983>>, <<1192,0,0,1190>>,
    <<1195,0,0,1193>>, <<1198,0,0,1196>>, <<982,0,0,980>>, <<0,0,0,1535>>, <<0,0,0,1533>>,
    <<-174,0,0,-175>>, <<862,863,902>>, <<864,866,903>>, <<912,0,1511,1507>>,
    <<1126,1525,1523,1527>>, <<0,0,-179,0,-180,0,-181,0>>, <<1151,0,0,1155>>, <<1144,0,0,1142>>,
    <<1130,0,0,1129>>, <<0,0,-183,0,-184,0,-185,0>>, <<1157,0,0,1161>>, <<1145,0,0,1149>>,
    <<1134,0,0,1133>>, <<0,0,-187,-188,0,0,-189,-190>>, <<1163,0,0,1167>>, <<0,0,0,1531>>,
    <<1138,0,0,1137>>, <<0,0,0,1529>>>>

ud_itab__191_223 ==
  <<<<1019,0,0,1020>>, <<1022,0,0,1023>>, <<1025,0,0,1026>>, <<0,1455,0>>, <<0,1456,0>>,
    <<0,1538,0,1536>>, <<0,1542,0,1540>>, <<-199,0,908,-200>>, <<868,869,905>>, <<870,872,906>>,
    <<913,0,1513,1506>>, <<0,-203>>, <<-204,-205,-206,0,0,0,0,0>>, <<821,0,0,0,0,0,0,0>>,
    <<1500,0,0,0,0,0,0,0>>, <<1501,0,0,0,0,0,0,0>>, <<0,-208>>,
    <<-209,-210,-211,-212,-213,-214,0,0>>, <<1502,0,0,0,0,0,0,0>>, <<1492,0,0,0,0,0,0,0>>,
    <<1493,0,0,0,0,0,0,0>>, <<1494,0,0,0,0,0,0,0>>, <<1495,0,0,0,0,0,0,0>>,
    <<1496,0,0,0,0,0,0,0>>, <<-216,-217>>, <<679,678,764,1392,1498,1497,0,79>>,
    <<0,0,0,0,0,-218,-219,-220>>, <<773,774,775,776,777,778,779,780>>,
    <<804,805,806,807,808,809,810,811>>, <<1358,1359,1360,1361,1362,1363,1364,1365>>,
    <<0,0,1695,0>>, <<0,0,0,0,1654,1661,1659,1657>>, <<112,117,120,110>>>>

ud_itab__224_260 ==
  <<<<1051,0,0,1052>>, <<1047,0,0,1045>>, <<1373,0,0,1371>>, <<0,-228,0,0,0,0,-229,-233>>,
    <<124,125,126>>, <<-230,0,-231,-232>>, <<0,1450,0>>, <<0,1449,0>>, <<0,1448,0>>, <<0,1451,0>>,
    <<0,35,0,33>>, <<1152,0,0,1153>>, <<1158,0,0,1159>>, <<1164,0,0,1165>>, <<1515,0,0,1516>>,
    <<1085,0,0,1086>>, <<0,1510,1514,910>>, <<1078,0,0,1076>>, <<1184,0,0,1185>>,
    <<1187,0,0,1188>>, <<1075,0,0,1073>>, <<1009,0,0,1007>>, <<1001,0,0,1002>>, <<1004,0,0,1005>>,
    <<1067,0,0,1068>>, <<1012,0,0,1010>>, <<1015,0,0,1013>>, <<1139,0,0,1140>>, <<1148,0,0,1146>>,
    <<1018,0,0,1016>>, <<1079,0,0,1080>>, <<1084,0,0,1082>>, <<0,136,132,160>>, <<901,0,0,894>>,
    <<1178,0,0,1179>>, <<1181,0,0,1182>>, <<1072,0,0,1070>>>>

ud_itab__261_297 ==
  <<<<1110,0,0,1108>>, <<995,0,0,996>>, <<998,0,0,999>>, <<1066,0,0,1064>>, <<1258,0,0,1256>>,
    <<0,1546,0,0>>, <<1128,0,0,1127>>, <<1132,0,0,1131>>, <<1136,0,0,1135>>, <<1521,0,0,1522>>,
    <<1061,0,0,1062>>, <<1125,0,0,1123>>, <<0,-274>>, <<795,0,0,1508>>, <<1171,0,0,1169>>,
    <<1174,0,0,1172>>, <<1175,0,0,1176>>, <<1520,0,0,1518>>, <<988,0,0,986>>, <<989,0,0,990>>,
    <<992,0,0,993>>, <<1234,0>>, <<1089,0>>, <<1235,0>>, <<1090,0>>, <<173,0>>, <<174,0>>,
    <<1,0>>, <<4,0>>, <<-291,-292,0>>, <<1249,0>>, <<1250,0>>, <<-294,-295,0>>, <<1102,0>>,
    <<1103,0>>, <<1643,0>>, <<67,68>>>>

ud_itab__298_332 ==
  <<<<706,707,0>>, <<975,976,0>>, <<21,962,11,1334,55,1405,1484,106>>,
    <<23,963,13,1335,57,1406,1485,108>>, <<-303,-304,-305,-306,-307,-308,-309,-310>>, <<22,0>>,
    <<964,0>>, <<12,0>>, <<1336,0>>, <<56,0>>, <<1407,0>>, <<1486,0>>, <<107,0>>,
    <<24,965,14,1337,58,1408,1487,109>>, <<1101,0,0,0,0,0,0,0>>, <<74,75,76>>, <<170,171,172>>,
    <<73,0>>, <<-317,-318,-319>>, <<1251,1252>>, <<1253,1254>>, <<0,1255>>, <<-321,-322,-323>>,
    <<1104,0>>, <<1105,1106>>, <<0,1107>>, <<915,916,919>>, <<115,116,119>>, <<1395,1396,1397>>,
    <<787,788,789>>, <<1339,1340,1341>>, <<1271,1278,1259,1267,1319,1326,1310,1305>>,
    <<1276,1279,1260,1266,1315,1322,1311,1307>>,
    <<-332,-333,0,0,0,-339,-354,-366,0,-391,0,0,0,-396,0,0>>, <<767,0>>>>

ud_itab__333 ==
  <<0, 0, 0, 0, 0, 0, 0, 0, 0, 0, 0, 0, 0, 0, 0, 0, 929, 931, -334, 0, 1442, 1440, -335, 881, 0,
    0, 0, 0, 0, 0, 0, 0, 0, 0, 0, 0, 0, 0, 0, 0, 859, 861, 0, 900, 0, 0, 1435, 130, 0, 0, 0, 0, 0,
    0, 0, 0, 0, 0, 0, 0, 0, 0, 0, 0, 0, 0, 0, 0, 0, 0, 0, 0, 0, 0, 0, 0, 0, 0, 0, 0, 893, 1380,
    1299, 1284, 62, 66, 969, 1491, 28, 939, 146, 135, 1412, 815, 190, 799, 0, 0, 0, 0, 0, 0, 0, 0,
    0, 0, 0, 0, 0, 0, 0, 0, 0, 0, 0, 0, 0, 0, 0, -338, 0, 0, 0, 0, 0, 0, 0, 0, 0, 0, 0, 0, 0, 0,
    0, 0, 0, 0, 0, 0, 0, 0, 0, 0, 0, 0, 0, 0, 0, 0, 0, 0, 0, 0, 0, 0, 0, 0, 0, 0, 0, 0, 0, 0, 0,
    0, 0, 0, 0, 0, 0, 0, 0, 0, -336, 0, 0, 0, 0, 0, 0, 0, 0, 0, 0, 0, 0, 0, 0, 0, 0, 0, 0, 0, 113,
    0, 0, 0, 1374, 0, 0, 0, 0, 0, 0, 0, 0, 0, 0, 0, 0, 0, 0, 0, 0, 0, 0, 0, 0, 0, 0, 0, 0, 0, 0,
    0, 0, 0, 0, 0, 0, 0, 0, 0, 0, 0, 0, 0, 0, 0, 0, 0, 0, 0, 0, 0, 0, 0, 0, 0, 0, 0, 0, 0, 0, 0>>

ud_itab__334_338 ==
  <<<<0,889>>, <<879,883>>, <<-337,0>>, <<0,0,0,1393,0,0,0,0>>, <<1727,1728>>>>

ud_itab__339 ==
  <<0, 0, 0, 0, 0, 0, 0, 0, 0, 0, 0, 0, 0, 0, 0, 0, 925, 927, 0, 0, 1444, 1438, -340, 877, 0, 0,
    0, 0, 0, 0, 0, 0, 0, 0, 0, 0, 0, 0, 0, 0, 855, 857, 0, 898, 0, 0, 1433, 128, 0, 0, 0, 0, 0, 0,
    0, 0, 0, 0, 0, 0, 0, 0, 0, 0, 0, 0, 0, 0, 0, 0, 0, 0, 0, 0, 0, 0, 0, 0, 0, 0, 891, 1382, 0, 0,
    60, 64, 967, 1489, 26, 937, 140, 144, 1410, 813, 188, 797, 1200, 1203, 1206, 978, 1029, 1032,
    1035, 984, 1191, 1194, 1197, 981, 0, 1534, -341, 0, 1528, -342, -344, -346, 1021, 1024, 1027,
    0, 0, 0, 0, 0, 1537, 1541, -348, 0, 0, 0, 0, 0, 0, 0, 0, 0, 0, 0, 0, 0, 0, 0, 0, 0, 0, 0, 0,
    0, 0, 0, 0, 0, 0, 0, 0, 0, 0, 0, 0, 0, 0, 0, 0, 0, 0, 0, 0, 0, 0, 0, 0, 0, 0, 0, 0, 0, 0, 0,
    0, 0, 0, 0, 0, 0, 0, 0, 0, 0, 0, 0, 0, 0, 0, 0, 111, 0, 1053, 1046, 1372, 0, 0, 0, 0, 0, 0, 0,
    0, 0, 34, 1154, 1160, 1166, 1517, 1087, 911, -349, 1186, 1189, 1074, 1008, 1003, 1006, 1069,
    1011, 1014, 1141, 1147, 1017, 1081, 1083, 161, 895, 1180, 1183, 1071, 1109, 997, 1000, 1065,
    1257, 0, -350, -351, -352, 0, 1063, 1124, -353, 1170, 1173, 1177, 1519, 987, 991, 994, 0>>

ud_itab__340_353 ==
  <<<<875,0>>, <<865,867,904>>, <<0,0,1156,0,1143,0,-343,0>>, <<1741,0>>,
    <<0,0,1162,0,1150,0,-345,0>>, <<1743,0>>, <<0,0,1168,1532,0,0,-347,1530>>, <<1745,0>>,
    <<871,873,907>>, <<1077,0>>, <<1740,0>>, <<1742,0>>, <<1744,0>>, <<0,1509>>>>

ud_itab__354 ==
  <<1569, 1572, 1575, 1578, 1581, 1584, 1587, 1590, 1593, 1599, 1596, 1602, -355, -356, -357,
    -358, 0, 0, 0, 0, 0, 0, 0, 1697, -359, -360, 0, 0, 1560, 1563, 1566, 0, 1671, 1673, 1675,
    1677, 1679, 0, 0, 0, 1608, 1694, 1667, 1669, -362, -363, -364, -365, 1682, 1684, 1686, 1688,
    1690, 1692, 0, 1703, 1610, 1612, 1614, 1616, 1618, 1620, 1624, 1622, 1626, 1628, 0, 0, 0, 0,
    0, 0, 0, 0, 0, 0, 0, 0, 0, 0, 0, 0, 0, 0, 0, 0, 0, 0, 0, 0, 0, 0, 0, 0, 0, 0, 0, 0, 0, 0, 0,
    0, 0, 0, 0, 0, 0, 0, 0, 0, 0, 0, 0, 0, 0, 0, 0, 0, 0, 0, 0, 0, 0, 0, 0, 0, 0, 0, 0, 0, 0, 0,
    0, 0, 0, 0, 0, 0, 0, 0, 0, 0, 0, 0, 0, 0, 0, 0, 0, 0, 0, 0, 0, 0, 0, 0, 0, 0, 0, 0, 0, 0, 0,
    0, 0, 0, 0, 0, 0, 0, 0, 0, 0, 0, 0, 0, 0, 0, 0, 0, 0, 0, 0, 0, 0, 0, 0, 0, 0, 0, 0, 0, 0, 0,
    0, 0, 0, 0, 0, 0, 0, 0, 0, 0, 0, 0, 0, 0, 0, 0, 0, 0, 0, 0, 0, 0, 0, 0, 0, 46, 42, 44, 38, 40,
    0, 0, 0, 0, 0, 0, 0, 0, 0, 0, 0, 0, 0, 0, 0, 0, 0, 0, 0, 0, 0, 0, 0, 0, 0, 0, 0, 0, 0, 0, 0, 0>>

ud_itab__355_365 ==
  <<<<1722,0>>, <<1720,0>>, <<1725,0>>, <<1726,0>>, <<1712,0>>, <<-361,0>>, <<0,1713>>,
    <<1716,0>>, <<1718,0>>, <<1717,0>>, <<1719,0>>>>

ud_itab__366 ==
  <<0, 0, 0, 0, -367, -368, -369, 0, 1630, 1632, 1634, 1636, 1640, 1638, 1663, 1605, 0, 0, 0, 0,
    -371, 1049, -372, 202, -376, -378, 0, 0, 0, 0, 0, 0, -380, 1545, -382, 0, 0, 0, 0, 0, 0, 0, 0,
    0, 0, 0, 0, 0, 0, 0, 0, 0, 0, 0, 0, 0, 0, 0, 0, 0, 0, 0, 0, 0, 198, 196, 1665, 0, 1504, 0, 0,
    0, 0, 0, -388, -389, -390, 0, 0, 0, 0, 0, 0, 0, 0, 0, 0, 0, 0, 0, 0, 0, 0, 0, 0, 0, 1701,
    1699, 1707, 1705, 0, 0, 0, 0, 0, 0, 0, 0, 0, 0, 0, 0, 0, 0, 0, 0, 0, 0, 0, 0, 0, 0, 0, 0, 0,
    0, 0, 0, 0, 0, 0, 0, 0, 0, 0, 0, 0, 0, 0, 0, 0, 0, 0, 0, 0, 0, 0, 0, 0, 0, 0, 0, 0, 0, 0, 0,
    0, 0, 0, 0, 0, 0, 0, 0, 0, 0, 0, 0, 0, 0, 0, 0, 0, 0, 0, 0, 0, 0, 0, 0, 0, 0, 0, 0, 0, 0, 0,
    0, 0, 0, 0, 0, 0, 0, 0, 0, 0, 0, 0, 0, 0, 0, 0, 0, 0, 0, 0, 0, 0, 0, 0, 0, 0, 0, 0, 0, 0, 0,
    0, 0, 0, 0, 0, 48, 0, 0, 0, 0, 0, 0, 0, 0, 0, 0, 0, 0, 0, 0, 0, 0, 0, 0, 0, 0, 0, 0, 0, 0, 0,
    0, 0, 0, 0, 0, 0, 0>>

ud_itab__367_390 ==
  <<<<1723,0>>, <<1721,0>>, <<-370,0>>, <<0,1724>>, <<1038,0>>, <<-373,-374,-375>>, <<1040,0>>,
    <<1042,0>>, <<0,1044>>, <<-377,0>>, <<0,1715>>, <<-379,0>>, <<0,1714>>, <<-381,0>>,
    <<1057,0>>, <<-383,-385>>, <<-384,0>>, <<1058,0>>, <<-386,-387>>, <<1059,0>>, <<1060,0>>,
    <<1730,0>>, <<1729,0>>, <<1739,0>>>>

ud_itab__391 ==
  <<0, 0, 0, 0, 0, 0, 0, 0, 0, 0, 0, 0, 0, 0, 0, 0, -392, -393, -394, 0, 0, 0, -395, 0, 0, 0, 0,
    0, 0, 0, 0, 0, 0, 0, 0, 0, 0, 0, 0, 0, 0, 0, 155, 0, 169, 159, 0, 0, 0, 0, 0, 0, 0, 0, 0, 0,
    0, 0, 0, 0, 0, 0, 0, 0, 0, 0, 0, 0, 0, 0, 0, 0, 0, 0, 0, 0, 0, 0, 0, 0, 0, 1386, 1301, 1286,
    0, 0, 0, 0, 32, 943, 157, 164, 1416, 819, 194, 803, 0, 0, 0, 0, 0, 0, 0, 0, 0, 0, 0, 0, 0, 0,
    0, 1512, 1524, 0, 0, 0, 0, 0, 0, 0, 0, 0, 0, 0, 0, 0, 909, 0, 0, 0, 0, 0, 0, 0, 0, 0, 0, 0, 0,
    0, 0, 0, 0, 0, 0, 0, 0, 0, 0, 0, 0, 0, 0, 0, 0, 0, 0, 0, 0, 0, 0, 0, 0, 0, 0, 0, 0, 0, 0, 0,
    0, 0, 0, 0, 0, 0, 0, 0, 0, 0, 0, 0, 0, 0, 0, 0, 0, 0, 0, 0, 0, 0, 0, 0, 121, 0, 0, 0, 0, 0, 0,
    0, 0, 0, 0, 0, 0, 0, 0, 0, 0, 0, 0, 0, 0, 0, 0, 0, 0, 0, 0, 0, 0, 0, 0, 0, 0, 0, 0, 0, 133, 0,
    0, 0, 0, 0, 0, 0, 0, 0, 0, 0, 0, 0, 0, 0, 0, 0, 0, 0, 0, 0, 0, 0, 0, 0>>

ud_itab__392_395 ==
  <<<<1736,1735>>, <<1738,1737>>, <<1557,1555>>, <<1553,1551>>>>

ud_itab__396 ==
  <<0, 0, 0, 0, 0, 0, 0, 0, 0, 0, 0, 0, 0, 0, 0, 0, -398, -397, 0, 0, 0, 0, 0, 0, 0, 0, 0, 0, 0,
    0, 0, 0, 0, 0, 0, 0, 0, 0, 0, 0, 0, 0, 153, 0, 167, 149, 0, 0, 0, 0, 0, 0, 0, 0, 0, 0, 0, 0,
    0, 0, 0, 0, 0, 0, 0, 0, 0, 0, 0, 0, 0, 0, 0, 0, 0, 0, 0, 0, 0, 0, 0, 1384, 0, 0, 0, 0, 0, 0,
    30, 941, 151, 0, 1414, 817, 192, 801, 0, 0, 0, 0, 0, 0, 0, 0, 0, 0, 0, 0, 0, 0, 0, 0, 1526, 0,
    0, 0, 0, 0, 0, 0, 0, 0, 0, 0, 1539, 1543, 0, 0, 0, 0, 0, 0, 0, 0, 0, 0, 0, 0, 0, 0, 0, 0, 0,
    0, 0, 0, 0, 0, 0, 0, 0, 0, 0, 0, 0, 0, 0, 0, 0, 0, 0, 0, 0, 0, 0, 0, 0, 0, 0, 0, 0, 0, 0, 0,
    0, 0, 0, 0, 0, 0, 0, 0, 0, 0, 0, 0, 0, 0, 0, 0, 0, 0, 0, 0, 118, 0, 0, 0, 0, 0, 0, 0, 0, 0, 0,
    0, 0, 0, 36, 0, 0, 0, 0, 0, 0, 0, 0, 0, 0, 0, 0, 0, 0, 0, 0, 0, 0, 0, 0, 0, 137, 0, 0, 0, 0,
    0, 0, 0, 0, 0, 1547, 0, 0, 0, 0, 0, 0, 0, 0, 0, 0, 0, 0, 0, 0, 0>>

ud_itab__397_413 ==
  <<<<1734,1733>>, <<1732,1731>>, <<-400,-333,0,0,0,-339,-354,-366,0,-391,0,0,0,-396,0,0>>,
    <<765,0>>, <<822,0,0,0,0,0,0,0>>, <<823,0,0,0,0,0,0,0>>, <<711,0>>, <<719,720,721>>,
    <<1272,1277,1261,1265,1318,1325,1312,1306>>, <<1273,1280,1264,1268,1317,1324,1321,1304>>,
    <<1274,1281,1262,1269,1316,1323,1313,1308>>, <<1275,1282,1263,1270,1320,1327,1314,1309>>,
    <<3,0>>, <<2,0>>, <<1303,0>>, <<-413,-414>>, <<206,503,307,357,583,626,387,413>>>>

ud_itab__414 ==
  <<215, 216, 217, 218, 219, 220, 221, 222, 504, 505, 506, 507, 508, 509, 510, 511, 309, 310, 311,
    312, 313, 314, 315, 316, 359, 360, 361, 362, 363, 364, 365, 366, 585, 586, 587, 588, 589, 590,
    591, 592, 610, 611, 612, 613, 614, 615, 616, 617, 388, 389, 390, 391, 392, 393, 394, 395, 414,
    415, 416, 417, 418, 419, 420, 421>>

ud_itab__415_416 ==
  <<<<-416,-417>>, <<476,0,569,536,493,492,580,579>>>>

ud_itab__417 ==
  <<477, 478, 479, 480, 481, 482, 483, 484, 654, 655, 656, 657, 658, 659, 660, 661, 522, 0, 0, 0,
    0, 0, 0, 0, 545, 546, 547, 548, 549, 550, 551, 552, 233, 204, 0, 0, 635, 653, 0, 0, 485, 486,
    487, 488, 489, 490, 491, 0, 203, 681, 526, 523, 680, 525, 377, 454, 524, 682, 533, 532, 527,
    530, 531, 376>>

ud_itab__418_419 ==
  <<<<-419,-420>>, <<456,520,448,450,462,464,460,458>>>>

ud_itab__420 ==
  <<235, 236, 237, 238, 239, 240, 241, 242, 243, 244, 245, 246, 247, 248, 249, 250, 251, 252, 253,
    254, 255, 256, 257, 258, 259, 260, 261, 262, 263, 264, 265, 266, 0, 0, 0, 0, 0, 0, 0, 0, 0,
    652, 0, 0, 0, 0, 0, 0, 0, 0, 0, 0, 0, 0, 0, 0, 0, 0, 0, 0, 0, 0, 0, 0>>

ud_itab__421_422 ==
  <<<<-422,-423>>, <<453,471,467,470,0,474,0,534>>>>

ud_itab__423 ==
  <<267, 268, 269, 270, 271, 272, 273, 274, 275, 276, 277, 278, 279, 280, 281, 282, 283, 284, 285,
    286, 287, 288, 289, 290, 291, 292, 293, 294, 295, 296, 297, 298, 0, 0, 234, 455, 0, 0, 0, 0,
    299, 300, 301, 302, 303, 304, 305, 306, 333, 334, 335, 336, 337, 338, 339, 340, 0, 0, 0, 0, 0,
    0, 0, 0>>

ud_itab__424_425 ==
  <<<<-425,-426>>, <<205,494,308,358,584,609,378,404>>>>

ud_itab__426 ==
  <<207, 208, 209, 210, 211, 212, 213, 214, 495, 496, 497, 498, 499, 500, 501, 502, 317, 318, 319,
    320, 321, 322, 323, 324, 325, 326, 327, 328, 329, 330, 331, 332, 618, 619, 620, 621, 622, 623,
    624, 625, 593, 594, 595, 596, 597, 598, 599, 600, 405, 406, 407, 408, 409, 410, 411, 412, 379,
    380, 381, 382, 383, 384, 385, 386>>

ud_itab__427_428 ==
  <<<<-428,-429>>, <<475,472,570,535,528,0,529,581>>>>

ud_itab__429 ==
  <<431, 432, 433, 434, 435, 436, 437, 438, 662, 663, 664, 665, 666, 667, 668, 669, 571, 572, 573,
    574, 575, 576, 577, 578, 537, 538, 539, 540, 541, 542, 543, 544, 636, 637, 638, 639, 640, 641,
    642, 643, 644, 645, 646, 647, 648, 649, 650, 651, 0, 0, 0, 0, 0, 0, 0, 0, 0, 0, 0, 0, 0, 0, 0,
    0>>

ud_itab__430_431 ==
  <<<<-431,-432>>, <<457,521,447,449,463,465,461,459>>>>

ud_itab__432 ==
  <<223, 224, 225, 226, 227, 228, 229, 230, 512, 513, 514, 515, 516, 517, 518, 519, 367, 368, 369,
    370, 371, 372, 373, 374, 0, 375, 0, 0, 0, 0, 0, 0, 627, 628, 629, 630, 631, 632, 633, 634,
    601, 602, 603, 604, 605, 606, 607, 608, 422, 423, 424, 425, 426, 427, 428, 429, 396, 397, 398,
    399, 400, 401, 402, 403>>

ud_itab__433_434 ==
  <<<<-434,-435>>, <<451,473,466,468,231,452,232,469>>>>

ud_itab__435 ==
  <<439, 440, 441, 442, 443, 444, 445, 446, 670, 671, 672, 673, 674, 675, 676, 677, 553, 554, 555,
    556, 557, 558, 559, 560, 561, 562, 563, 564, 565, 566, 567, 568, 582, 0, 0, 0, 0, 0, 0, 0,
    341, 342, 343, 344, 345, 346, 347, 348, 349, 350, 351, 352, 353, 354, 355, 356, 0, 0, 0, 0, 0,
    0, 0, 0>>

ud_itab__436_442 ==
  <<<<754,755,756>>, <<760,0>>, <<1424,1429,954,945,934,691,186,685>>,
    <<1430,1431,955,946,935,692,185,684>>, <<704,183,0,0,0,0,0,0>>,
    <<703,184,-442,71,757,758,1247,0>>, <<69,70>>>>

-----------------------------------------------------------------------------
(* Table n is element n + 1.                                               *)
ud_lookup_table_list ==
  <<ud_itab__0>> \o ud_itab__1_3 \o <<ud_itab__4>> \o ud_itab__5_27 \o <<ud_itab__28>> \o
  ud_itab__29_53 \o <<ud_itab__54>> \o ud_itab__55_91 \o ud_itab__92_115 \o <<ud_itab__116>> \o
  ud_itab__117_153 \o ud_itab__154_190 \o ud_itab__191_223 \o ud_itab__224_260 \o
  ud_itab__261_297 \o ud_itab__298_332 \o <<ud_itab__333>> \o ud_itab__334_338 \o
  <<ud_itab__339>> \o ud_itab__340_353 \o <<ud_itab__354>> \o ud_itab__355_365 \o
  <<ud_itab__366>> \o ud_itab__367_390 \o <<ud_itab__391>> \o ud_itab__392_395 \o
  <<ud_itab__396>> \o ud_itab__397_413 \o <<ud_itab__414>> \o ud_itab__415_416 \o
  <<ud_itab__417>> \o ud_itab__418_419 \o <<ud_itab__420>> \o ud_itab__421_422 \o
  <<ud_itab__423>> \o ud_itab__424_425 \o <<ud_itab__426>> \o ud_itab__427_428 \o
  <<ud_itab__429>> \o ud_itab__430_431 \o <<ud_itab__432>> \o ud_itab__433_434 \o
  <<ud_itab__435>> \o ud_itab__436_442

(* What selects the entry of a table: SSE is for all tables not named.      *)
OPC ==
  [VEX |-> {331, 399},
   TABLE |-> {0, 4, 54, 116, 333, 339, 354, 366, 391, 396},
   X87 |-> {414, 417, 420, 423, 426, 429, 432, 435},
   MOD |-> {6, 31, 37, 202, 207, 215, 273, 334, 335, 336, 340, 353, 392, 393, 394, 395, 397, 398,
     412, 415, 418, 421, 424, 427, 430, 433},
   RM |-> {9, 14, 15, 16, 25, 204, 205, 206, 209, 210, 211, 212, 213, 214, 218, 219, 220},
   OSIZE |-> {128, 133, 174, 175, 199, 200, 228, 290, 293, 298, 299, 313, 314, 316, 320, 324, 325,
     326, 327, 328, 341, 348, 372, 404},
   MODE |-> {1, 2, 3, 50, 52, 56, 60, 282, 283, 284, 285, 286, 287, 288, 289, 291, 292, 294, 295,
     296, 297, 303, 304, 305, 306, 307, 308, 309, 310, 315, 317, 318, 319, 321, 322, 323, 332,
     382, 400, 403, 409, 410, 411, 437, 442},
   VEX_L |-> {338, 343, 345, 347, 349, 350, 351, 352, 361, 370, 377, 379, 381, 384, 386, 387},
   DNOW3 |-> {28},
   REG |-> {5, 7, 8, 27, 41, 178, 182, 186, 203, 208, 216, 217, 222, 227, 300, 301, 302, 311, 312,
     329, 330, 337, 342, 344, 346, 401, 402, 405, 406, 407, 408, 413, 416, 419, 422, 425, 428,
     431, 434, 438, 439, 440, 441},
   ASIZE |-> {436},
   VEX_W |-> {355, 356, 357, 358, 359, 360, 362, 363, 364, 365, 367, 368, 369, 371, 373, 374, 375,
     376, 378, 380, 383, 385, 388, 389, 390},
   VENDOR |-> {10, 11, 12, 13, 17, 18, 19, 20, 21, 22, 23, 24, 26, 51, 53, 57, 58, 61, 62, 194,
     195, 230, 231, 232, 233}]

TableType ==
  [n \in 0 .. 442 |->
     IF \E t \in DOMAIN OPC : n \in OPC[t] THEN CHOOSE t \in DOMAIN OPC : n \in OPC[t]
     ELSE "SSE"]

=============================================================================
